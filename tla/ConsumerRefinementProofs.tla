---------------------- MODULE ConsumerRefinementProofs ----------------------
(***************************************************************************)
(* The consume loop implements at-least-once processing, for every number  *)
(* of replicas, messages, retries and faults, where the conditions its     *)
(* comments take for granted hold.                                         *)
(***************************************************************************)
EXTENDS ConsumerRefinement, ConsumerProofs

(***************************************************************************)
(* What the promise needs: the queue has a dead-letter exchange, the retry *)
(* topology is declared in full and bound to every key in use, and the     *)
(* broker does not restart (park publishes transient messages).            *)
(***************************************************************************)
Reliable ==
  /\ DeadLetterExchange
  /\ \A m \in Messages : RoutingKey[m] \in RetryKeys
  /\ {"topology", "broker"} \intersect FaultKinds = {}

\* Whoever consumes has the retry topology to lean on, and what it parked.
Kept ==
  /\ \A c \in Consumers : pc[c] # "down" => RetryParts \subseteq topology
  /\ \A c \in Consumers : pc[c] = "parked" => cur[c].msg \in ParkedMessages
  /\ \A c \in Consumers : \A d \in inbox[c] : d.msg \in published
  /\ \A c \in Consumers : pc[c] \in Holding => cur[c].msg \in published
  /\ ParkedMessages \subseteq published
  /\ NoMessageLost

-----------------------------------------------------------------------------
(* What a step does to the messages in flight.                             *)

\* A step that moves no message.
LEMMA QuietInFlight == Quiet => InFlight' = InFlight
BY DEF Quiet, InFlight

\* A message that is let go leaves, unless it goes to the retry queue.
LEMMA LetGoInFlight ==
  ASSUME Custody, NEW c \in Consumers, NEW m, m \in Unacked(c),
         Unacked(c)' = Unacked(c) \ {m},
         \A k \in Consumers \ {c} : Unacked(k)' = Unacked(k), ready' = ready
  PROVE  /\ m \in InFlight
         /\ retrying' = retrying => InFlight' = InFlight \ {m}
         /\ retrying' = retrying \union {m} => InFlight' = InFlight
<1>1. /\ m \notin ready \union retrying
      /\ \A k \in Consumers \ {c} : m \notin Unacked(k)
  BY DEF Custody, OneCustodian
<1>2. QED
  BY <1>1 DEF InFlight

\* Lost channels, lost connections and crashes lose nothing.
LEMMA FailureInFlight ==
  ASSUME TypeOK, NEW c \in Consumers, Failure(c)
  PROVE  InFlight' = InFlight
<1>1. link'[c] # "open"
  BY DEF Failure, ChannelLost, ConnectionLost, Crash, TypeOK
<1>2. \A k \in Consumers \ {c} :
        /\ link'[k] = link[k] /\ pc'[k] = pc[k]
        /\ inbox'[k] = inbox[k] /\ cur'[k] = cur[k]
  BY DEF Failure, ChannelLost, ConnectionLost, Crash, TypeOK
<1>3. ready' = ready \union Unacked(c) /\ retrying' = retrying
  BY DEF Failure, ChannelLost, ConnectionLost, Crash
<1>4. Unacked(c)' = {}
  BY <1>1, UnackedClosed
<1>5. \A k \in Consumers \ {c} : Unacked(k)' = Unacked(k)
  BY <1>2, UnackedSame
<1>6. QED
  BY <1>3, <1>4, <1>5 DEF InFlight

\* Publishing adds the message, delivering and expiring move it.
LEMMA QueueInFlight ==
  ASSUME TypeOK, NEW m \in Messages
  PROVE  /\ Publish(m) => InFlight' = InFlight \union {m}
         /\ RetryExpires(m) => InFlight' = InFlight
         /\ \A c \in Consumers : Deliver(c, m) => InFlight' = InFlight
<1>1. Publish(m) => InFlight' = InFlight \union {m}
  BY QueueEffect DEF Publish, InFlight
<1>2. RetryExpires(m) => InFlight' = InFlight
  BY QueueEffect DEF RetryExpires, InFlight
<1>3. ASSUME NEW c \in Consumers, Deliver(c, m) PROVE InFlight' = InFlight
  <2>1. /\ m \in ready /\ ready' = ready \ {m} /\ retrying' = retrying
        /\ Unacked(c)' = Unacked(c) \union {m}
        /\ \A k \in Consumers \ {c} : Unacked(k)' = Unacked(k)
    BY <1>3, DeliverEffect DEF Deliver
  <2>2. QED
    BY <2>1 DEF InFlight
<1>4. QED
  BY <1>1, <1>2, <1>3

-----------------------------------------------------------------------------
(* Each step, seen by AtLeastOnce.                                         *)

\* A step that moves no message and parks none is a stutter.
LEMMA QuietStep ==
  ASSUME Quiet, parked' = parked
  PROVE  UNCHANGED ALO!vars
BY QuietInFlight DEF Quiet, ALO!vars, ParkedMessages

\* Parts of Kept that survive a step that publishes nothing, delivers nothing
\* and parks nothing.
LEMMA KeptFrame ==
  ASSUME TypeOK, Kept, topology \subseteq topology',
         published' = published, parked' = parked,
         published \subseteq (InFlight \union ParkedMessages \union done)',
         \A c \in Consumers :
           /\ inbox'[c] \subseteq inbox[c]
           /\ pc'[c] # "down" => pc[c] # "down" \/ RetryParts \subseteq topology'
           /\ pc'[c] \in Holding =>
                /\ pc[c] \in Holding /\ cur'[c] = cur[c]
                /\ pc'[c] = "parked" => pc[c] = "parked"
  PROVE  Kept'
BY DEF Kept, NoMessageLost, ParkedMessages, Holding

\* With the whole topology declared, a rejected message is retried: nothing
\* changes for AtLeastOnce.
LEMMA NackStep ==
  ASSUME Reliable, TypeOK, Custody, Kept, NEW c \in Consumers,
         pc[c] \in Holding, Nack(c, cur[c].msg)
  PROVE  Kept' /\ UNCHANGED ALO!vars
<1> DEFINE m == cur[c].msg
<1>1. /\ Finish(c)
      /\ UNCHANGED <<topology, ready, parked, published, done>>
  BY DEF Nack
<1>2. m \in Messages
  BY <1>1, FinishEffect DEF Custody
<1>3. Retried(m)
  BY <1>2 DEF Reliable, Retried, Kept, RetryParts, Parts, Holding
<1>4. InFlight' = InFlight
  <2>1. CASE link[c] = "open"
    <3>1. retrying' = retrying \union {m}
      BY <1>3, <2>1 DEF Nack, Reliable
    <3>2. /\ m \in Unacked(c) /\ Unacked(c)' = Unacked(c) \ {m}
          /\ \A k \in Consumers \ {c} : Unacked(k)' = Unacked(k)
      BY <1>1, <2>1, FinishEffect DEF Custody
    <3>3. QED
      BY <1>1, <3>1, <3>2, LetGoInFlight
  <2>2. CASE link[c] # "open"
    BY <1>1, <2>2, FinishEffect DEF Nack, Custody, InFlight
  <2>3. QED
    BY <2>1, <2>2
<1>5. UNCHANGED ALO!vars
  BY <1>1, <1>4 DEF ALO!vars, ParkedMessages
<1>6. Kept'
  <2>1. published \subseteq (InFlight \union ParkedMessages \union done)'
    BY <1>1, <1>4 DEF Kept, NoMessageLost, ParkedMessages
  <2>2. QED
    BY <1>1, <2>1, KeptFrame DEF Finish, TypeOK, Holding
<1>7. QED
  BY <1>5, <1>6

\* A success on an open channel completes the message; the acknowledgement
\* of a message the channel lost is a stutter.
LEMMA AckSuccessStep ==
  ASSUME TypeOK, Custody, Kept, NEW c \in Consumers, AckSuccess(c)
  PROVE  Kept' /\ [ALO!Next]_(ALO!vars)
<1> DEFINE m == cur[c].msg
<1>1. /\ pc[c] \in Holding /\ Finish(c)
      /\ UNCHANGED <<topology, ready, retrying, parked, published>>
  BY DEF AckSuccess, brokerVars, Holding
<1>2. m \in Messages /\ m \in published
  BY <1>1, FinishEffect DEF Custody, Kept
<1>3. ParkedMessages' = ParkedMessages
  BY <1>1 DEF ParkedMessages
<1>4. CASE link[c] = "open"
  <2>1. done' = done \union {m}
    BY <1>4 DEF AckSuccess
  <2>2. m \in InFlight /\ InFlight' = InFlight \ {m}
    BY <1>1, <1>4, FinishEffect, LetGoInFlight DEF Custody
  <2>3. ALO!Complete(m)
    BY <1>3, <2>1, <2>2 DEF ALO!Complete
  <2>4. published \subseteq (InFlight \union ParkedMessages \union done)'
    BY <1>3, <2>1, <2>2 DEF Kept, NoMessageLost
  <2>5. Kept'
    BY <1>1, <2>4, KeptFrame DEF Finish, TypeOK, Holding
  <2>6. QED
    BY <1>2, <2>3, <2>5 DEF ALO!Next
<1>5. CASE link[c] # "open"
  <2>1. done' = done
    BY <1>5 DEF AckSuccess
  <2>2. Quiet
    BY <1>1, <1>5, <2>1, FinishEffect DEF Custody, Quiet
  <2>3. UNCHANGED ALO!vars
    BY <1>1, <2>2, QuietStep
  <2>4. published \subseteq (InFlight \union ParkedMessages \union done)'
    BY <1>3, <2>1, <2>2, QuietInFlight DEF Kept, NoMessageLost
  <2>5. Kept'
    BY <1>1, <2>4, KeptFrame DEF Finish, TypeOK, Holding
  <2>6. QED
    BY <2>3, <2>5
<1>6. QED
  BY <1>4, <1>5

\* Acknowledging a parked message retires it.
LEMMA AckParkedStep ==
  ASSUME TypeOK, Custody, Kept, NEW c \in Consumers, AckParked(c)
  PROVE  Kept' /\ [ALO!Next]_(ALO!vars)
<1> DEFINE m == cur[c].msg
<1>1. /\ pc[c] = "parked" /\ pc[c] \in Holding /\ Finish(c)
      /\ UNCHANGED <<topology, ready, retrying, parked, published, done>>
  BY DEF AckParked, brokerVars, ghostVars, Holding
<1>2. m \in Messages /\ m \in ParkedMessages
  BY <1>1, FinishEffect DEF Custody, Kept
<1>3. ParkedMessages' = ParkedMessages
  BY <1>1 DEF ParkedMessages
<1>4. CASE link[c] = "open"
  <2>1. m \in InFlight /\ InFlight' = InFlight \ {m}
    BY <1>1, <1>4, FinishEffect, LetGoInFlight DEF Custody
  <2>2. ALO!Retire(m)
    BY <1>1, <1>2, <1>3, <2>1 DEF ALO!Retire
  <2>3. published \subseteq (InFlight \union ParkedMessages \union done)'
    BY <1>1, <1>2, <1>3, <2>1 DEF Kept, NoMessageLost
  <2>4. Kept'
    BY <1>1, <2>3, KeptFrame DEF Finish, TypeOK, Holding
  <2>5. QED
    BY <1>2, <2>2, <2>4 DEF ALO!Next
<1>5. CASE link[c] # "open"
  <2>1. Quiet
    BY <1>1, <1>5, FinishEffect DEF Custody, Quiet
  <2>2. UNCHANGED ALO!vars
    BY <1>1, <2>1, QuietStep
  <2>3. published \subseteq (InFlight \union ParkedMessages \union done)'
    BY <1>1, <1>3, <2>1, QuietInFlight DEF Kept, NoMessageLost
  <2>4. Kept'
    BY <1>1, <2>3, KeptFrame DEF Finish, TypeOK, Holding
  <2>5. QED
    BY <2>2, <2>4
<1>6. QED
  BY <1>4, <1>5

\* Parking puts a message aside that the abstract queue still knows.
LEMMA ParkStep ==
  ASSUME Reliable, TypeOK, Custody, Kept, NEW c \in Consumers, Park(c)
  PROVE  Kept' /\ [ALO!Next]_(ALO!vars)
<1> DEFINE m == cur[c].msg
<1>1. /\ pc[c] = "failed" /\ pc[c] \in Holding /\ pc' = [pc EXCEPT ![c] = "parked"]
      /\ UNCHANGED <<topology, link, inbox, cur, published, done>>
  BY DEF Park, ghostVars, Holding
<1>2. m \in Messages /\ m \in published
  BY <1>1, ConsumerAssumption, DeliveryType DEF TypeOK, Kept
<1>3. InFlight' = InFlight
  BY QuietSteps, QuietInFlight DEF Custody
<1>4. "parked_queue" \in topology
  BY <1>1 DEF Kept, RetryParts, Parts
<1>5. parked' = [parked EXCEPT ![m] = @ + 1]
  BY <1>4 DEF Park
<1>6. ParkedMessages' = ParkedMessages \union {m}
  BY <1>2, <1>5 DEF ParkedMessages, TypeOK
<1>7. [ALO!Next]_(ALO!vars)
  <2>1. CASE m \in ParkedMessages
    BY <1>1, <1>3, <1>6, <2>1 DEF ALO!vars
  <2>2. CASE m \notin ParkedMessages
    <3>1. m \in InFlight \union done
      BY <1>2, <2>2 DEF Kept, NoMessageLost
    <3>2. ALO!PutAside(m)
      BY <1>1, <1>3, <1>6, <3>1 DEF ALO!PutAside
    <3>3. QED
      BY <1>2, <3>2 DEF ALO!Next
  <2>3. QED
    BY <2>1, <2>2
<1>8. Kept'
  BY <1>1, <1>2, <1>3, <1>6 DEF Kept, NoMessageLost, TypeOK
<1>9. QED
  BY <1>7, <1>8

\* The other steps of a replica: starting, receiving, stopping.
LEMMA ReplicaStep ==
  ASSUME Reliable, TypeOK, Custody, Kept, NEW c \in Consumers,
         \/ Start(c)
         \/ \E d \in inbox[c] : Receive(c, d)
         \/ \E o \in {"succeeded", "failed"} : HandlerReturns(c, o)
         \/ ConsumerStops(c)
  PROVE  Kept' /\ UNCHANGED ALO!vars
<1>1. Quiet
  BY QuietSteps DEF Custody
<1>2. parked' = parked /\ topology \subseteq topology'
  BY DEF Start, DeclareRetryTopology, Subscribe, SubscribeFails, Receive,
    HandlerReturns, ConsumerStops, brokerVars
<1>3. UNCHANGED ALO!vars
  BY <1>1, <1>2, QuietStep
<1>4. published' = published
  BY <1>1 DEF Quiet
<1>5. published \subseteq (InFlight \union ParkedMessages \union done)'
  BY <1>1, <1>2, QuietInFlight DEF Quiet, Kept, NoMessageLost, ParkedMessages
<1>6. CASE Start(c)
  <2>1. DeclareRetryTopology(c) => RetryParts \subseteq topology'
    BY DEF DeclareRetryTopology, Reliable, Fault
  <2>2. QED
    BY <1>2, <1>3, <1>4, <1>5, <1>6, <2>1, KeptFrame
    DEF Start, DeclareRetryTopology, Subscribe, SubscribeFails, TypeOK, Holding
<1>7. ASSUME NEW d \in inbox[c], Receive(c, d) PROVE Kept'
  <2>1. d.msg \in published
    BY DEF Kept
  <2>2. QED
    BY <1>2, <1>4, <1>5, <1>7, <2>1
    DEF Receive, brokerVars, Kept, NoMessageLost, ParkedMessages, TypeOK, Holding
<1>8. ASSUME NEW o \in {"succeeded", "failed"}, HandlerReturns(c, o) PROVE Kept'
  BY <1>2, <1>4, <1>5, <1>8, KeptFrame DEF HandlerReturns, TypeOK, Holding
<1>9. CASE ConsumerStops(c)
  BY <1>2, <1>3, <1>4, <1>5, <1>9, KeptFrame DEF ConsumerStops, TypeOK, Holding
<1>10. QED
  BY <1>3, <1>6, <1>7, <1>8, <1>9

\* The steps of the queue: publishing is Accept.
LEMMA QueueStep ==
  ASSUME TypeOK, Custody, Kept, NEW m \in Messages,
         Publish(m) \/ RetryExpires(m) \/ \E c \in Consumers : Deliver(c, m)
  PROVE  Kept' /\ [ALO!Next]_(ALO!vars)
<1>1. topology' = topology /\ parked' = parked /\ done' = done
  BY DEF Publish, RetryExpires, Deliver, ghostVars
<1>2. ParkedMessages' = ParkedMessages
  BY <1>1 DEF ParkedMessages
<1>3. CASE Publish(m)
  <2>1. m \notin InFlight \union done \union ParkedMessages
    BY <1>3 DEF Publish, Custody, Kept
  <2>2. InFlight' = InFlight \union {m}
    BY <1>3, QueueInFlight
  <2>3. ALO!Accept(m)
    BY <1>1, <1>2, <2>1, <2>2 DEF ALO!Accept
  <2>4. Kept'
    BY <1>1, <1>2, <1>3, <2>2 DEF Publish, replicaVars, Kept, NoMessageLost
  <2>5. QED
    BY <2>3, <2>4 DEF ALO!Next
<1>4. CASE RetryExpires(m)
  <2>1. InFlight' = InFlight
    BY <1>4, QueueInFlight
  <2>2. published \subseteq (InFlight \union ParkedMessages \union done)'
    BY <1>1, <1>2, <2>1 DEF Kept, NoMessageLost
  <2>3. Kept'
    BY <1>1, <1>4, <2>2, KeptFrame DEF RetryExpires, replicaVars, ghostVars
  <2>4. QED
    BY <1>1, <1>2, <2>1, <2>3 DEF ALO!vars
<1>5. ASSUME NEW c \in Consumers, Deliver(c, m)
      PROVE  Kept' /\ [ALO!Next]_(ALO!vars)
  <2>1. InFlight' = InFlight
    BY <1>5, QueueInFlight
  <2>2. m \in published
    BY <1>5 DEF Deliver, Custody, InFlight
  <2>3. PICK x : x.msg = m /\ inbox' = [inbox EXCEPT ![c] = @ \union {x}]
    BY <1>5 DEF Deliver
  <2>4. Kept'
    BY <1>1, <1>2, <1>5, <2>1, <2>2, <2>3
    DEF Deliver, ghostVars, Kept, NoMessageLost, TypeOK
  <2>5. QED
    BY <1>1, <1>2, <2>1, <2>4 DEF ALO!vars
<1>6. QED
  BY <1>3, <1>4, <1>5

\* Lost channels, lost connections and crashes are stutters.
LEMMA FailureStep ==
  ASSUME TypeOK, Custody, Kept, NEW c \in Consumers, Failure(c)
  PROVE  Kept' /\ UNCHANGED ALO!vars
<1>1. InFlight' = InFlight
  BY FailureInFlight
<1>2. UNCHANGED <<topology, parked, published, done>>
  BY DEF Failure, ChannelLost, ConnectionLost, Crash
<1>3. published \subseteq (InFlight \union ParkedMessages \union done)'
  BY <1>1, <1>2 DEF Kept, NoMessageLost, ParkedMessages
<1>4. Kept'
  BY <1>2, <1>3, KeptFrame
  DEF Failure, ChannelLost, ConnectionLost, Crash, TypeOK, Holding
<1>5. QED
  BY <1>1, <1>2, <1>4 DEF ALO!vars, ParkedMessages

\* Every step of the loop is a step of AtLeastOnce, or changes nothing it sees.
LEMMA KeptStep ==
  ASSUME Reliable, TypeOK, Custody, Kept, [Next]_vars
  PROVE  Kept' /\ [ALO!Next]_(ALO!vars)
<1>1. ASSUME NEW c \in Consumers, Start(c) PROVE Kept' /\ [ALO!Next]_(ALO!vars)
  BY <1>1, ReplicaStep
<1>2. ASSUME NEW c \in Consumers, Loop(c) PROVE Kept' /\ [ALO!Next]_(ALO!vars)
  <2>1. CASE Reject(c) \/ ParkFails(c)
    BY <2>1, NackStep DEF Reject, ParkFails, Holding
  <2>2. QED
    BY <1>2, <2>1, ReplicaStep, AckSuccessStep, AckParkedStep, ParkStep DEF Loop
<1>3. ASSUME NEW c \in Consumers, Failure(c) PROVE Kept' /\ [ALO!Next]_(ALO!vars)
  BY <1>3, FailureStep
<1>4. CASE Queue
  BY <1>4, QueueStep DEF Queue
<1>5. CASE BrokerRestart
  BY <1>5 DEF BrokerRestart, Fault, Reliable
<1>6. CASE UNCHANGED vars
  <2>1. Quiet /\ parked' = parked
    BY <1>6, UnackedSame DEF vars, brokerVars, replicaVars, ghostVars, Quiet
  <2>2. published \subseteq (InFlight \union ParkedMessages \union done)'
    BY <2>1, QuietInFlight DEF Quiet, Kept, NoMessageLost, ParkedMessages
  <2>3. Kept'
    BY <1>6, <2>1, <2>2, KeptFrame DEF vars, brokerVars, replicaVars, ghostVars
  <2>4. QED
    BY <2>1, <2>3, QuietStep
<1>7. QED
  BY <1>1, <1>2, <1>3, <1>4, <1>5, <1>6 DEF Next

\* The initial states, of both.
LEMMA KeptInit == Init => Kept /\ ALO!Init
BY DEF Init, Kept, NoMessageLost, ParkedMessages, InFlight, Unacked, Holding,
  ALO!Init

-----------------------------------------------------------------------------
(* The theorems.                                                           *)

\* No message is lost, whatever crashes, channels and failures to park do,
\* provided the topology is whole and the broker stays up.
THEOREM NoMessageLostAlways == ASSUME Reliable PROVE Spec => []NoMessageLost
<1>1. Init => TypeOK /\ Custody /\ Kept
  BY TypeInit, CustodyInit, KeptInit
<1>2. TypeOK /\ Custody /\ Kept /\ [Next]_vars => (TypeOK /\ Custody /\ Kept)'
  BY TypeStep, CustodyStep, KeptStep
<1>3. Kept => NoMessageLost
  BY DEF Kept
<1>4. QED
  BY <1>1, <1>2, <1>3, PTL DEF Spec

\* The consume loop implements AtLeastOnce: a message leaves the queues only
\* with a success or with a copy in the parked queue.
THEOREM Refinement == ASSUME Reliable PROVE Spec => ImplementsAtLeastOnce
<1>1. Init => TypeOK /\ Custody /\ Kept /\ ALO!Init
  BY TypeInit, CustodyInit, KeptInit
<1>2. TypeOK /\ Custody /\ Kept /\ [Next]_vars
        => (TypeOK /\ Custody /\ Kept)' /\ [ALO!Next]_(ALO!vars)
  BY TypeStep, CustodyStep, KeptStep
<1>3. QED
  BY <1>1, <1>2, PTL DEF Spec, ImplementsAtLeastOnce, ALO!Spec

=============================================================================
