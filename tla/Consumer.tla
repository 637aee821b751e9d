------------------------------ MODULE Consumer ------------------------------
(***************************************************************************)
(* One durable RabbitMQ queue consumed by Consume, the loop of             *)
(* internal/broker/consumer.go, in one or several replicas of the process, *)
(* with the delayed-retry topology of internal/broker/topology.go: a       *)
(* message whose handler fails is rejected, dead-lettered into the retry   *)
(* queue, brought back when its delay expires, and republished to the      *)
(* parked queue once its x-death header shows enough rejections.           *)
(*                                                                         *)
(* The handler is abstract here: it returns nil or an error.  Modules that *)
(* model a handler compose its steps with the actions of this one.         *)
(***************************************************************************)
EXTENDS Integers, FiniteSets

CONSTANTS
  Messages,           \* the messages external services publish to the queue
  Consumers,          \* the replicas of the process, one consumer in each
  RoutingKey,         \* the routing key each message was published with
  RetryKeys,          \* the keys DeclareRetryTopology is told to bind
  DeadLetterExchange, \* whether Consume was given a dead-letter exchange
  MaxRetryAttempts,   \* maxRetryAttempts of NewConsumer
  Prefetch,           \* prefetchCount of NewConsumer
  FaultKinds,         \* the faults the environment may inject
  MaxFaults,          \* bound: how many of them
  None                \* no delivery in the handler

Parts == {"source_queue", "retry_exchange", "retry_queue", "parked_queue"}

ASSUME ConsumerAssumption ==
  /\ IsFiniteSet(Consumers)
  /\ RoutingKey \in [Messages -> STRING]
  /\ RetryKeys \in SUBSET (STRING \ Parts)
  /\ DeadLetterExchange \in BOOLEAN
  /\ MaxRetryAttempts \in Nat
  /\ Prefetch \in Nat \ {0}
  /\ FaultKinds \in SUBSET STRING
  /\ MaxFaults \in Nat
  /\ None \notin [msg : Messages, deaths : [rejected : Nat, expired : Nat]]

VARIABLES
  (* RabbitMQ *)
  topology,   \* the durable queues, exchanges and bindings declared so far
  ready,      \* messages of the source queue that wait for a consumer
  retrying,   \* messages of the retry queue, waiting for its TTL
  parked,     \* copies of each message in the parked queue
  xdeath,     \* the x-death header of the broker's copy of a message
  (* each replica *)
  link,       \* its consuming channel: none yet, open, or what closed it
  pc,         \* where its Consume call stands
  inbox,      \* deliveries the client library has buffered for the loop
  cur,        \* the delivery the loop is working on
  (* history *)
  published,  \* messages that reached the source queue
  done,       \* messages acked after the handler succeeded
  attempts,   \* handler calls made for each message
  faults      \* faults injected so far

brokerVars  == <<topology, ready, retrying, parked, xdeath>>
replicaVars == <<link, pc, inbox, cur>>
ghostVars   == <<published, done, attempts, faults>>
vars == <<brokerVars, replicaVars, ghostVars>>

Deaths   == [rejected : Nat, expired : Nat]
Delivery == [msg : Messages, deaths : Deaths]

Links == {"none", "open", "channel_closed", "connection_closed"}
Holding == {"handling", "succeeded", "failed", "parked"}
Idle    == {"down", "starting", "idle", "stopped"}

TypeOK ==
  /\ topology \in SUBSET (Parts \union RetryKeys)
  /\ ready \in SUBSET Messages
  /\ retrying \in SUBSET Messages
  /\ parked \in [Messages -> Nat]
  /\ xdeath \in [Messages -> Deaths]
  /\ link \in [Consumers -> Links]
  /\ pc \in [Consumers -> Holding \union Idle]
  /\ inbox \in [Consumers -> SUBSET Delivery]
  /\ cur \in [Consumers -> Delivery \union {None}]
  /\ published \in SUBSET Messages
  /\ done \in SUBSET Messages
  /\ attempts \in [Messages -> Nat]
  /\ faults \in Nat
  /\ \A c \in Consumers :
       /\ pc[c] \in Holding <=> cur[c] # None
       /\ pc[c] \in {"down", "starting", "stopped"} =>
            inbox[c] = {} /\ link[c] # "open"

-----------------------------------------------------------------------------
(* Who holds what.                                                         *)

\* The deliveries of c the broker still waits for an answer to.
Deliveries(c) == inbox[c] \union (IF pc[c] \in Holding THEN {cur[c]} ELSE {})

\* Mutant: the queue is consumed with automatic acknowledgement.
Unacked_AutoAck(c) == {}

Unacked(c) == IF link[c] = "open" THEN {d.msg : d \in Deliveries(c)} ELSE {}

ParkedMessages == {m \in Messages : parked[m] > 0}
InFlight == ready \union retrying \union UNION {Unacked(c) : c \in Consumers}

\* What the dead-letter exchange does with a message: nothing routes it
\* unless the retry queue is bound under the message's own key.
Retried(m) == {"retry_exchange", "retry_queue", RoutingKey[m]} \subseteq topology

Fault(kind) ==
  /\ kind \in FaultKinds
  /\ faults < MaxFaults
  /\ faults' = faults + 1

-----------------------------------------------------------------------------
(* Start-up: DeclareRetryTopology, then the declarations of Consume.       *)

Init ==
  /\ topology = {}
  /\ ready = {} /\ retrying = {}
  /\ parked = [m \in Messages |-> 0]
  /\ xdeath = [m \in Messages |-> [rejected |-> 0, expired |-> 0]]
  /\ link = [c \in Consumers |-> "none"]
  /\ pc = [c \in Consumers |-> "down"]
  /\ inbox = [c \in Consumers |-> {}]
  /\ cur = [c \in Consumers |-> None]
  /\ published = {} /\ done = {}
  /\ attempts = [m \in Messages |-> 0]
  /\ faults = 0

\* The parts a run of DeclareRetryTopology that stopped early has declared.
DeclaredInOrder(S) ==
  /\ "retry_queue" \in S => "retry_exchange" \in S
  /\ S \intersect RetryKeys # {} => "retry_queue" \in S
  /\ "parked_queue" \in S => RetryKeys \union {"retry_queue"} \subseteq S

RetryParts == (Parts \ {"source_queue"}) \union RetryKeys

\* An error is logged and the consumers start all the same.
DeclareRetryTopology(c) ==
  /\ pc[c] = "down"
  /\ pc' = [pc EXCEPT ![c] = "starting"]
  /\ \/ /\ topology' = topology \union RetryParts
        /\ UNCHANGED faults
     \/ /\ Fault("topology")
        /\ \E S \in SUBSET RetryParts :
             /\ S # RetryParts
             /\ DeclaredInOrder(S)
             /\ topology' = topology \union S
  /\ UNCHANGED <<ready, retrying, parked, xdeath, link, inbox, cur,
                 published, done, attempts>>

Subscribe(c) ==
  /\ pc[c] = "starting"
  /\ link[c] = "none"
  /\ pc' = [pc EXCEPT ![c] = "idle"]
  /\ link' = [link EXCEPT ![c] = "open"]
  /\ topology' = topology \union {"source_queue"}
  /\ UNCHANGED <<ready, retrying, parked, xdeath, inbox, cur, ghostVars>>

\* Any declaration fails: Consume returns, the error is logged, and the
\* process lives on without this consumer.
SubscribeFails(c) ==
  /\ pc[c] = "starting"
  /\ pc' = [pc EXCEPT ![c] = "stopped"]
  /\ IF link[c] = "connection_closed"
     THEN UNCHANGED <<topology, faults>>
     ELSE /\ Fault("subscribe")
          /\ topology' \in {topology, topology \union {"source_queue"}}
  /\ UNCHANGED <<ready, retrying, parked, xdeath, link, inbox, cur,
                 published, done, attempts>>

-----------------------------------------------------------------------------
(* The queue.                                                              *)

Publish(m) ==
  /\ "source_queue" \in topology
  /\ m \notin published
  /\ published' = published \union {m}
  /\ ready' = ready \union {m}
  /\ UNCHANGED <<topology, retrying, parked, xdeath, replicaVars,
                 done, attempts, faults>>

\* The x-death header travels with the delivery, as it is now.
Deliver(c, m) ==
  /\ link[c] = "open"
  /\ m \in ready
  /\ Cardinality(Unacked(c)) < Prefetch
  /\ ready' = ready \ {m}
  /\ inbox' = [inbox EXCEPT ![c] = @ \union {[msg |-> m, deaths |-> xdeath[m]]}]
  /\ UNCHANGED <<topology, retrying, parked, xdeath, link, pc, cur, ghostVars>>

\* The delay elapsed: back to the source exchange, and to its queue.
RetryExpires(m) ==
  /\ m \in retrying
  /\ retrying' = retrying \ {m}
  /\ ready' = ready \union {m}
  /\ xdeath' = [xdeath EXCEPT ![m].expired = @ + 1]
  /\ UNCHANGED <<topology, parked, replicaVars, ghostVars>>

-----------------------------------------------------------------------------
(* The loop of Consume.                                                    *)

Receive(c, d) ==
  /\ pc[c] = "idle"
  /\ d \in inbox[c]
  /\ pc' = [pc EXCEPT ![c] = "handling"]
  /\ inbox' = [inbox EXCEPT ![c] = @ \ {d}]
  /\ cur' = [cur EXCEPT ![c] = d]
  /\ attempts' = [attempts EXCEPT ![d.msg] = @ + 1]
  /\ UNCHANGED <<brokerVars, link, published, done, faults>>

HandlerReturns(c, outcome) ==
  /\ pc[c] = "handling"
  /\ pc' = [pc EXCEPT ![c] = outcome]
  /\ UNCHANGED <<brokerVars, link, inbox, cur, ghostVars>>

\* Mutant: the "expired" entries of x-death count too.
deathCount_AllReasons(d) == d.deaths.rejected + d.deaths.expired

deathCount(d) == d.deaths.rejected

\* Mutant: one attempt too many.
Exhausted_OffByOne(d) == DeadLetterExchange /\ deathCount(d) > MaxRetryAttempts

Exhausted(d) == DeadLetterExchange /\ deathCount(d) >= MaxRetryAttempts

Finish(c) ==
  /\ pc' = [pc EXCEPT ![c] = "idle"]
  /\ cur' = [cur EXCEPT ![c] = None]
  /\ UNCHANGED <<link, inbox>>

\* An Ack or a Nack on a closed channel fails, and the error is ignored: the
\* broker has already put the message back in its queue.
AckSuccess(c) ==
  /\ pc[c] = "succeeded"
  /\ done' = IF link[c] = "open" THEN done \union {cur[c].msg} ELSE done
  /\ Finish(c)
  /\ UNCHANGED <<brokerVars, published, attempts, faults>>

\* Mutant: a failed message is published to the retry queue and acked.
Nack_Republishes(c, m) ==
  /\ xdeath' = [xdeath EXCEPT ![m].rejected = @ + 1]
  /\ retrying' = retrying \union {m}
  /\ Finish(c)
  /\ UNCHANGED <<topology, ready, parked, published, done, attempts>>

Nack(c, m) ==
  /\ IF link[c] = "open" /\ DeadLetterExchange
     THEN /\ xdeath' = [xdeath EXCEPT ![m].rejected = @ + 1]
          /\ retrying' = IF Retried(m) THEN retrying \union {m} ELSE retrying
     ELSE UNCHANGED <<xdeath, retrying>>
  /\ Finish(c)
  /\ UNCHANGED <<topology, ready, parked, published, done, attempts>>

\* Mutant: the failure path acks.
Reject_Acks(c) ==
  /\ pc[c] = "failed"
  /\ ~Exhausted(cur[c])
  /\ Finish(c)
  /\ UNCHANGED <<brokerVars, ghostVars>>

\* Mutant: a handler error ends the loop.
Reject_Stops(c) ==
  /\ pc[c] = "failed"
  /\ ~Exhausted(cur[c])
  /\ ready' = ready \union Unacked(c)
  /\ link' = [link EXCEPT ![c] = "channel_closed"]
  /\ pc' = [pc EXCEPT ![c] = "stopped"]
  /\ cur' = [cur EXCEPT ![c] = None]
  /\ inbox' = [inbox EXCEPT ![c] = {}]
  /\ UNCHANGED <<topology, retrying, parked, xdeath, ghostVars>>

Reject(c) ==
  /\ pc[c] = "failed"
  /\ ~Exhausted(cur[c])
  /\ Nack(c, cur[c].msg)
  /\ UNCHANGED faults

\* park opens a channel of its own, so a closed consuming channel does not
\* stop it; nothing tells it that the parked queue is missing.
Park(c) ==
  /\ pc[c] = "failed"
  /\ Exhausted(cur[c])
  /\ link[c] # "connection_closed"
  /\ pc' = [pc EXCEPT ![c] = "parked"]
  /\ parked' = IF "parked_queue" \in topology
               THEN [parked EXCEPT ![cur[c].msg] = @ + 1]
               ELSE parked
  /\ UNCHANGED <<topology, ready, retrying, xdeath, link, inbox, cur, ghostVars>>

\* Mutant: a message that could not be parked is acked.
ParkFails_Acks(c) ==
  /\ pc[c] = "failed"
  /\ Exhausted(cur[c])
  /\ IF link[c] = "connection_closed" THEN UNCHANGED faults ELSE Fault("park")
  /\ Finish(c)
  /\ UNCHANGED <<brokerVars, published, done, attempts>>

ParkFails(c) ==
  /\ pc[c] = "failed"
  /\ Exhausted(cur[c])
  /\ IF link[c] = "connection_closed" THEN UNCHANGED faults ELSE Fault("park")
  /\ Nack(c, cur[c].msg)

\* Mutant: a parked message is nacked all the same.
AckParked_Nacks(c) ==
  /\ pc[c] = "parked"
  /\ Nack(c, cur[c].msg)
  /\ UNCHANGED faults

AckParked(c) ==
  /\ pc[c] = "parked"
  /\ Finish(c)
  /\ UNCHANGED <<brokerVars, ghostVars>>

\* Mutant: the buffer of a closed channel survives the loop.
ConsumerStops_KeepsBuffer(c) ==
  /\ pc[c] = "idle"
  /\ link[c] # "open"
  /\ pc' = [pc EXCEPT ![c] = "stopped"]
  /\ UNCHANGED <<brokerVars, link, inbox, cur, ghostVars>>

\* The library closes the delivery channel; what it still had buffered may
\* be handed over first (Receive), or dropped here.
ConsumerStops(c) ==
  /\ pc[c] = "idle"
  /\ link[c] # "open"
  /\ pc' = [pc EXCEPT ![c] = "stopped"]
  /\ inbox' = [inbox EXCEPT ![c] = {}]
  /\ UNCHANGED <<brokerVars, link, cur, ghostVars>>

-----------------------------------------------------------------------------
(* Faults: the broker requeues what a lost channel had not answered, with  *)
(* the header it had.                                                      *)

ChannelLost(c) ==
  /\ link[c] = "open"
  /\ Fault("channel")
  /\ ready' = ready \union Unacked(c)
  /\ link' = [link EXCEPT ![c] = "channel_closed"]
  /\ UNCHANGED <<topology, retrying, parked, xdeath, pc, inbox, cur,
                 published, done, attempts>>

ConnectionLost(c) ==
  /\ pc[c] # "down"
  /\ link[c] # "connection_closed"
  /\ Fault("connection")
  /\ ready' = ready \union Unacked(c)
  /\ link' = [link EXCEPT ![c] = "connection_closed"]
  /\ UNCHANGED <<topology, retrying, parked, xdeath, pc, inbox, cur,
                 published, done, attempts>>

\* The container is restarted: DeclareRetryTopology(c) follows.
Crash(c) ==
  /\ pc[c] # "down"
  /\ Fault("crash")
  /\ ready' = ready \union Unacked(c)
  /\ link' = [link EXCEPT ![c] = "none"]
  /\ pc' = [pc EXCEPT ![c] = "down"]
  /\ inbox' = [inbox EXCEPT ![c] = {}]
  /\ cur' = [cur EXCEPT ![c] = None]
  /\ UNCHANGED <<topology, retrying, parked, xdeath, published, done, attempts>>

\* RabbitMQ restarts.  Queues are durable; publishers are assumed to mark
\* their messages persistent, park does not.
BrokerRestart ==
  /\ Fault("broker")
  /\ ready' = InFlight \ retrying
  /\ parked' = [m \in Messages |-> 0]
  /\ link' = [c \in Consumers |->
                IF pc[c] = "down" THEN "none" ELSE "connection_closed"]
  /\ UNCHANGED <<topology, retrying, xdeath, pc, inbox, cur,
                 published, done, attempts>>

-----------------------------------------------------------------------------
Loop(c) ==
  \/ \E d \in inbox[c] : Receive(c, d)
  \/ \E outcome \in {"succeeded", "failed"} : HandlerReturns(c, outcome)
  \/ AckSuccess(c)
  \/ Reject(c)
  \/ Park(c)
  \/ ParkFails(c)
  \/ AckParked(c)
  \/ ConsumerStops(c)

Start(c) == DeclareRetryTopology(c) \/ Subscribe(c) \/ SubscribeFails(c)

Failure(c) == ChannelLost(c) \/ ConnectionLost(c) \/ Crash(c)

Queue == \E m \in Messages :
  Publish(m) \/ RetryExpires(m) \/ \E c \in Consumers : Deliver(c, m)

Next ==
  \/ \E c \in Consumers : Loop(c) \/ Start(c) \/ Failure(c)
  \/ Queue
  \/ BrokerRestart

Spec == Init /\ [][Next]_vars

(***************************************************************************)
(* What keeps going by itself: the loop, the broker, and the container     *)
(* that docker-compose restarts.  No fairness is assumed of publishers or  *)
(* of faults, nor that the handler ever succeeds.                          *)
(***************************************************************************)
Fairness ==
  /\ \A c \in Consumers : WF_vars(Loop(c)) /\ WF_vars(Start(c))
  /\ \A m \in Messages : WF_vars(RetryExpires(m))
  /\ \A m \in Messages : WF_vars(\E c \in Consumers : Deliver(c, m))

FairSpec == Spec /\ Fairness

-----------------------------------------------------------------------------
(* Properties.                                                             *)

(***************************************************************************)
(* No message is lost: whatever reached the queue is waiting, held by a    *)
(* consumer the broker trusts, in the retry queue, parked, or was acked    *)
(* after a success.  This is what "this is not a discard" (consumer.go     *)
(* 195-196) claims of the rejection, over crashes, lost channels and       *)
(* failures to park.                                                       *)
(***************************************************************************)
NoMessageLost == published \subseteq InFlight \union ParkedMessages \union done

(***************************************************************************)
(* A message has one custodian.  It is in one queue or with one consumer   *)
(* whose channel is open, never in two places, and once acked after a      *)
(* success it is nowhere: no retry of a finished message exists, even when *)
(* a consumer with a dead channel nacks late.                              *)
(***************************************************************************)
OneCustodian ==
  /\ ready \intersect retrying = {}
  /\ \A c \in Consumers : Unacked(c) \intersect (ready \union retrying) = {}
  /\ \A c1, c2 \in Consumers :
       c1 # c2 => Unacked(c1) \intersect Unacked(c2) = {}
  /\ done \intersect InFlight = {}

(***************************************************************************)
(* The retry budget: a message is handled at most MaxRetryAttempts + 1     *)
(* times, plus once for each fault, however its rejections, expiries and   *)
(* requeues interleave (config.go 41-43).                                  *)
(***************************************************************************)
RetryBudget ==
  \A m \in Messages : attempts[m] <= MaxRetryAttempts + 1 + faults

(***************************************************************************)
(* A message is parked only after every retry it was entitled to, so the   *)
(* TTL expiries that x-death also records never shorten the budget         *)
(* (consumer.go 214-218).                                                  *)
(***************************************************************************)
NeverParkedEarly ==
  \A m \in Messages : parked[m] > 0 => attempts[m] >= MaxRetryAttempts + 1

(***************************************************************************)
(* The parked queue holds one copy of a message, plus at most one for each *)
(* fault that hit between park and the Ack after it.                       *)
(***************************************************************************)
ParkedOnce == \A m \in Messages : parked[m] <= 1 + faults

(***************************************************************************)
(* Nothing leaves the queues unhandled: a message that is no longer in     *)
(* flight was given to the handler at least once, also where a failure is  *)
(* a discard (the user events queue has no dead-letter exchange).          *)
(***************************************************************************)
NeverSkipped == \A m \in published \ InFlight : attempts[m] >= 1

(***************************************************************************)
(* While a replica is served, or comes back, every published message is    *)
(* eventually acked after a success or parked, whatever the handler        *)
(* returns and whatever becomes of the other replicas: not even a message  *)
(* that a dead consumer took with it, nor one that could not be parked, is *)
(* forgotten (consumer.go 166-197).                                        *)
(***************************************************************************)
SettledWhileServed ==
  (\E c \in Consumers : <>[](link[c] = "open")) =>
    \A m \in Messages : m \in published ~> m \in done \union ParkedMessages

(***************************************************************************)
(* Every published message is eventually acked after a success or parked,  *)
(* whatever the handler returns, over crashes and failures to park.        *)
(***************************************************************************)
EventuallySettled ==
  \A m \in Messages : m \in published ~> m \in done \union ParkedMessages

(***************************************************************************)
(* A message whose handler failed, and that waits in the retry queue, is   *)
(* handled again, "up to a configured number of attempts"                  *)
(* (docs/push_notification_integration.md 310).                            *)
(***************************************************************************)
FailedSendRetried ==
  \A m \in Messages : \A n \in 1..MaxRetryAttempts :
    (m \in retrying /\ attempts[m] = n) ~> (attempts[m] > n)

(***************************************************************************)
(* The parked queue is a terminal destination (topology.go 18-19): a       *)
(* message in it stays for triage.                                         *)
(***************************************************************************)
ParkedStays == [][ParkedMessages \subseteq ParkedMessages']_vars

=============================================================================
