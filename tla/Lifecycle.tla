----------------------------- MODULE Lifecycle -----------------------------
(***************************************************************************)
(* The process as a whole, over restarts and redeployments: start-up       *)
(* (cmd/api/main.go, internal/app/app.go), the one connection its parts    *)
(* share, and what DeclareRetryTopology and the three consumers declare to *)
(* RabbitMQ, one request after the other.  The declarations are durable    *)
(* and outlive the process, and RabbitMQ closes the channel that declares  *)
(* a queue again with other arguments.                                     *)
(*                                                                         *)
(* A message is followed from queue to queue only; the loop that handles   *)
(* it and the copies it may have are the matter of Consumer.               *)
(***************************************************************************)
EXTENDS Integers, Sequences

CONSTANTS
  Consumers,        \* the consumers of a process, by the handler they feed
  Messages,
  ConsumerOf,       \* the consumer whose queue a message is published to
  Delays,           \* the values of RETRY_DELAY_SECONDS operators choose
  MaxRetryAttempts, \* MAX_RETRY_ATTEMPTS
  Existing,         \* what RabbitMQ may hold before the first start
  FaultKinds,       \* the faults the environment may inject
  MaxFaults,        \* bound: how many of them
  MaxRedeployments  \* bound: how often the operator deploys anew

\* A declared exchange, queue or binding, with its arguments as a set of
\* pairs.  The name of a binding is that of its queue.
Exchange(name, type) ==
  [kind |-> "exchange", name |-> name, args |-> {<<"type", type>>}]
Queue(name, args) == [kind |-> "queue", name |-> name, args |-> args]
Binding(queue, key, exchange) ==
  [kind |-> "binding", name |-> queue, args |-> {<<key, exchange>>}]

Declaration == [kind : {"exchange", "queue", "binding"}, name : STRING,
                args : SUBSET (STRING \X STRING)]

ASSUME LifecycleAssumption ==
  /\ Consumers \in SUBSET {"push", "emails", "users"}
  /\ ConsumerOf \in [Messages -> Consumers]
  /\ Delays \in SUBSET STRING
  /\ MaxRetryAttempts \in Nat
  /\ Existing \in SUBSET SUBSET Declaration
  /\ FaultKinds \in SUBSET STRING
  /\ MaxFaults \in Nat
  /\ MaxRedeployments \in Nat

VARIABLES
  (* RabbitMQ *)
  broker,     \* the declarations in force
  (* the deployment and its process *)
  setting,    \* RETRY_DELAY_SECONDS in the environment of the container
  config,     \* the value the process loaded
  proc,       \* how far the process is
  conn,       \* its connection to RabbitMQ
  state,      \* what became of each of its routines
  next,       \* the next declaration of each routine
  (* messages *)
  where,      \* where each message is
  rejections, \* how often each was dead-lettered for a failure
  (* history *)
  complete,      \* whether some DeclareRetryTopology returned without error
  redeployments, \* redeployments so far
  faults         \* faults injected so far

processVars == <<setting, config, proc, conn, state, next>>
messageVars == <<where, rejections>>
boundVars   == <<redeployments, faults>>
vars == <<broker, processVars, messageVars, complete, boundVars>>

-----------------------------------------------------------------------------
(* What the routines of a process declare, in the order of the code.       *)

RetryExchange == "gossip.retry.exchange"
RetryQueue    == "gossip.retry.queue"
ParkedQueue   == "gossip.parked.queue"
TopicExchange == "gossip.topic.exchange"

\* Start of the three consumers: where each one consumes from, and the
\* routing key its producers use.
QueueOf(r) ==
  CASE r = "push"   -> "gossip.notification.queue"
    [] r = "emails" -> "gossip.emails.queue"
    [] r = "users"  -> "verisafe.user.queue"
SendKey(r) ==
  CASE r = "push"   -> "gossip.push.send"
    [] r = "emails" -> "gossip.emails.send"
    [] r = "users"  -> "verisafe.user"

\* The deadLetterExchange argument of Consume.
DeadLetters(r) == r \in {"push", "emails"}

SourceExchange(r) ==
  IF r = "users" THEN Exchange("verisafe.exchange", "fanout")
                 ELSE Exchange(TopicExchange, "topic")
SourceQueue(r) ==
  Queue(QueueOf(r), IF DeadLetters(r)
                    THEN {<<"x-dead-letter-exchange", RetryExchange>>} ELSE {})
SourceBinding(r) ==
  Binding(QueueOf(r),
          CASE r = "push"   -> "gossip.push.*"
            [] r = "emails" -> "gossip.emails.*"
            [] r = "users"  -> "verisafe.user.*",
          SourceExchange(r).name)

RetryArguments(delay) == {<<"x-message-ttl", delay>>,
                          <<"x-dead-letter-exchange", TopicExchange>>}
RetryBinding(r) == Binding(RetryQueue, SendKey(r), RetryExchange)

\* Mutant: a key is forgotten.
DeclareRetryTopology_OneKey ==
  [delay \in Delays |->
    <<Exchange(RetryExchange, "direct"), Queue(RetryQueue, RetryArguments(delay)),
      RetryBinding("emails"), Queue(ParkedQueue, {})>>]

DeclareRetryTopology ==
  [delay \in Delays |->
    <<Exchange(RetryExchange, "direct"), Queue(RetryQueue, RetryArguments(delay)),
      RetryBinding("emails"), RetryBinding("push"), Queue(ParkedQueue, {})>>]

Consume ==
  [r \in Consumers |-> <<SourceExchange(r), SourceQueue(r), SourceBinding(r)>>]

Routines == {"topology"} \union Consumers
Program(r) == IF r = "topology" THEN DeclareRetryTopology[config] ELSE Consume[r]

\* All that a process may declare.
Declarable ==
  UNION {{p[i] : i \in DOMAIN p} :
           p \in {DeclareRetryTopology[delay] : delay \in Delays}
                \union {Consume[r] : r \in Consumers}}

\* RabbitMQ refuses an exchange or a queue it has with other arguments.
Accepts(d) ==
  d.kind # "binding" =>
    \A e \in broker : e.kind = d.kind /\ e.name = d.name => e = d

-----------------------------------------------------------------------------
Places == {"unpublished", "ready", "held", "retrying", "parked", "done",
           "discarded", "lost"}
Active == {"declaring", "running"}

LifecycleTypeOK ==
  /\ broker \in SUBSET ((UNION Existing) \union Declarable)
  /\ setting \in Delays
  /\ config \in Delays
  /\ proc \in {"down", "connecting", "migrating", "up"}
  /\ conn \in {"none", "open", "lost"}
  /\ state \in [Routines -> Active \union {"waiting", "declared", "refused", "cut"}]
  /\ next \in [Routines -> Nat \ {0}]
  /\ where \in [Messages -> Places]
  /\ rejections \in [Messages -> Nat]
  /\ complete \in BOOLEAN
  /\ redeployments \in Nat
  /\ faults \in Nat
  /\ \A r \in Routines :
       /\ state[r] # "waiting" => proc = "up"
       /\ state[r] = "running" => conn = "open"
       /\ next[r] <= Len(Program(r)) + 1
  /\ \A m \in Messages : where[m] = "held" => state[ConsumerOf[m]] = "running"

Init ==
  /\ broker \in Existing
  /\ setting \in Delays
  /\ config = setting
  /\ proc = "down"
  /\ conn = "none"
  /\ state = [r \in Routines |-> "waiting"]
  /\ next = [r \in Routines |-> 1]
  /\ where = [m \in Messages |-> "unpublished"]
  /\ rejections = [m \in Messages |-> 0]
  /\ complete = FALSE
  /\ redeployments = 0
  /\ faults = 0

Fault(kind) ==
  /\ kind \in FaultKinds
  /\ faults < MaxFaults
  /\ faults' = faults + 1
  /\ UNCHANGED redeployments

\* RabbitMQ puts back what the consumers in R held.
Requeued(R) ==
  [m \in Messages |->
     IF where[m] = "held" /\ ConsumerOf[m] \in R THEN "ready" ELSE where[m]]

-----------------------------------------------------------------------------
(* Start-up.                                                               *)

\* main: LoadConfig.
Launch ==
  /\ proc = "down"
  /\ proc' = "connecting"
  /\ config' = setting
  /\ UNCHANGED <<broker, setting, conn, state, next, messageVars, complete,
                 boundVars>>

\* NewGossipMongerApp: NewRabbitMQConnection.
Connect ==
  /\ proc = "connecting"
  /\ proc' = "migrating"
  /\ conn' = "open"
  /\ UNCHANGED <<broker, setting, config, state, next, messageVars, complete,
                 boundVars>>

\* Start: the migrations ran, and startConsumers begins.
StartConsumers ==
  /\ proc = "migrating"
  /\ proc' = "up"
  /\ state' = [state EXCEPT !["topology"] = "declaring"]
  /\ UNCHANGED <<broker, setting, config, conn, next, messageVars, complete,
                 boundVars>>

\* The retry topology comes first, and whatever became of it the consumers
\* are started, each in a goroutine.
Becomes(r, s) ==
  state' = IF r = "topology"
           THEN [q \in Routines |-> IF q = r THEN s ELSE "declaring"]
           ELSE [state EXCEPT ![r] = s]

\* Mutant: an error of a declaration is dropped and the next one follows.
Declare_DropsErrors(r) ==
  /\ state[r] = "declaring" /\ conn = "open"
  /\ next[r] <= Len(Program(r))
  /\ broker' = IF Accepts(Program(r)[next[r]])
               THEN broker \union {Program(r)[next[r]]} ELSE broker
  /\ next' = [next EXCEPT ![r] = @ + 1]
  /\ UNCHANGED <<setting, config, proc, conn, state, messageVars, complete,
                 boundVars>>

\* One exchange.declare, queue.declare or queue.bind.
Declare(r) ==
  /\ state[r] = "declaring" /\ conn = "open"
  /\ next[r] <= Len(Program(r))
  /\ Accepts(Program(r)[next[r]])
  /\ broker' = broker \union {Program(r)[next[r]]}
  /\ next' = [next EXCEPT ![r] = @ + 1]
  /\ UNCHANGED <<setting, config, proc, conn, state, messageVars, complete,
                 boundVars>>

\* All is declared: DeclareRetryTopology returns, a consumer subscribes.
Declared(r) ==
  /\ state[r] = "declaring" /\ conn = "open"
  /\ next[r] > Len(Program(r))
  /\ Becomes(r, IF r = "topology" THEN "declared" ELSE "running")
  /\ complete' = (complete \/ r = "topology")
  /\ UNCHANGED <<broker, setting, config, proc, conn, next, messageVars, boundVars>>

\* Mutant: startConsumers returns when the topology could not be declared.
Refused_Returns(r) ==
  /\ state[r] = "declaring" /\ conn = "open"
  /\ next[r] <= Len(Program(r))
  /\ ~Accepts(Program(r)[next[r]])
  /\ state' = [state EXCEPT ![r] = "refused"]
  /\ UNCHANGED <<broker, setting, config, proc, conn, next, messageVars,
                 complete, boundVars>>

\* 406 PRECONDITION_FAILED closes the channel.  The error is logged, and
\* nothing tries again in this process.
Refused(r) ==
  /\ state[r] = "declaring" /\ conn = "open"
  /\ next[r] <= Len(Program(r))
  /\ ~Accepts(Program(r)[next[r]])
  /\ Becomes(r, "refused")
  /\ UNCHANGED <<broker, setting, config, proc, conn, next, messageVars,
                 complete, boundVars>>

\* Mutant: the error of Channel is dropped.
NoChannel_Dropped(r) ==
  /\ state[r] = "declaring" /\ conn = "lost"
  /\ Becomes(r, IF r = "topology" THEN "declared" ELSE "running")
  /\ UNCHANGED <<broker, setting, config, proc, conn, next, messageVars,
                 complete, boundVars>>

\* Without a connection no channel opens: the same, for every routine.
NoChannel(r) ==
  /\ state[r] = "declaring" /\ conn = "lost"
  /\ Becomes(r, "cut")
  /\ UNCHANGED <<broker, setting, config, proc, conn, next, messageVars,
                 complete, boundVars>>

-----------------------------------------------------------------------------
(* The end of a process, of its connection, of a channel.                  *)

Killed ==
  /\ proc' = "down"
  /\ conn' = "none"
  /\ state' = [r \in Routines |-> "waiting"]
  /\ next' = [r \in Routines |-> 1]
  /\ where' = Requeued(Consumers)
  /\ UNCHANGED <<broker, config, rejections, complete>>

\* A panic at start-up (configuration, dial, migrations), an HTTP server
\* that fails to listen, a crash: the container is restarted.
Exit ==
  /\ proc # "down"
  /\ Fault("exit")
  /\ Killed
  /\ UNCHANGED setting

\* The operator deploys with another delay.  The container is stopped by a
\* signal nothing in the process handles.
Redeploy(delay) ==
  /\ redeployments < MaxRedeployments
  /\ redeployments' = redeployments + 1
  /\ setting' = delay
  /\ Killed
  /\ UNCHANGED faults

ConnectionLost ==
  /\ conn = "open"
  /\ Fault("connection")
  /\ conn' = "lost"
  /\ state' = [r \in Routines |-> IF state[r] = "running" THEN "cut" ELSE state[r]]
  /\ where' = Requeued(Consumers)
  /\ UNCHANGED <<broker, setting, config, proc, next, rejections, complete>>

ChannelLost(r) ==
  /\ state[r] \in Active /\ conn = "open"
  /\ Fault("channel")
  /\ Becomes(r, "cut")
  /\ where' = Requeued({r})
  /\ UNCHANGED <<broker, setting, config, proc, conn, next, rejections, complete>>

-----------------------------------------------------------------------------
(* A message.                                                              *)

Moves(m, place) ==
  /\ where' = [where EXCEPT ![m] = place]
  /\ UNCHANGED <<broker, processVars, complete, boundVars>>

Publish(m) ==
  /\ where[m] = "unpublished"
  /\ SourceBinding(ConsumerOf[m]) \in broker
  /\ Moves(m, "ready")
  /\ UNCHANGED rejections

Deliver(m) ==
  /\ where[m] = "ready"
  /\ state[ConsumerOf[m]] = "running"
  /\ Moves(m, "held")
  /\ UNCHANGED rejections

Succeed(m) ==
  /\ where[m] = "held"
  /\ Moves(m, "done")
  /\ UNCHANGED rejections

Exhausted(m) ==
  DeadLetters(ConsumerOf[m]) /\ rejections[m] >= MaxRetryAttempts

\* What becomes of a rejected message is up to the arguments its queue has,
\* and a direct exchange drops what no binding asks for.
Reject(m) ==
  /\ where[m] = "held"
  /\ ~Exhausted(m)
  /\ IF DeadLetters(ConsumerOf[m])
     THEN Moves(m, IF {SourceQueue(ConsumerOf[m]), RetryBinding(ConsumerOf[m])}
                        \subseteq broker
                   THEN "retrying" ELSE "lost")
     ELSE Moves(m, "discarded")
  /\ rejections' = [rejections EXCEPT ![m] = @ + 1]

\* Nothing tells park that there is no parked queue.
Park(m) ==
  /\ where[m] = "held"
  /\ Exhausted(m)
  /\ Moves(m, IF \E d \in broker : d.kind = "queue" /\ d.name = ParkedQueue
              THEN "parked" ELSE "lost")
  /\ UNCHANGED rejections

\* After the delay: through the topic exchange, under the message's own key.
Expire(m) ==
  /\ where[m] = "retrying"
  /\ Moves(m, IF SourceBinding(ConsumerOf[m]) \in broker THEN "ready" ELSE "lost")
  /\ UNCHANGED rejections

-----------------------------------------------------------------------------
Startup ==
  \/ Launch \/ Connect \/ StartConsumers
  \/ \E r \in Routines : Declare(r) \/ Declared(r) \/ Refused(r) \/ NoChannel(r)

Environment ==
  \/ Exit \/ ConnectionLost
  \/ \E r \in Routines : ChannelLost(r)
  \/ \E delay \in Delays : Redeploy(delay)

Handle(m) == Succeed(m) \/ Reject(m) \/ Park(m)

Next ==
  \/ Startup
  \/ Environment
  \/ \E m \in Messages : Publish(m) \/ Deliver(m) \/ Handle(m) \/ Expire(m)

Spec == Init /\ [][Next]_vars

(***************************************************************************)
(* docker-compose restarts the container, every routine of a process goes  *)
(* on by itself, RabbitMQ delivers and expires, and a handler returns.     *)
(***************************************************************************)
Fairness ==
  /\ WF_vars(Launch) /\ WF_vars(Connect) /\ WF_vars(StartConsumers)
  /\ \A r \in Routines :
       WF_vars(Declare(r) \/ Declared(r) \/ Refused(r) \/ NoChannel(r))
  /\ \A m \in Messages :
       WF_vars(Deliver(m)) /\ WF_vars(Handle(m)) /\ WF_vars(Expire(m))

FairSpec == Spec /\ Fairness

-----------------------------------------------------------------------------
(* Properties.                                                             *)

(***************************************************************************)
(* Once a DeclareRetryTopology returned without error, no message is lost  *)
(* any more, although each later process starts with a declaration that    *)
(* may stop half-way, for a lost channel, or because its delay differs     *)
(* from the one RabbitMQ has (app.go 195-205), and starts its consumers    *)
(* all the same.                                                           *)
(***************************************************************************)
NothingLostOnceComplete ==
  [][\A m \in Messages :
       where[m] # "lost" /\ where'[m] = "lost" => ~complete]_vars

(***************************************************************************)
(* Where DeclareRetryTopology returned without error, failed messages wait *)
(* the delay this process was configured with (config.go 38-39), whatever  *)
(* earlier processes with other delays declared, completely or not.        *)
(***************************************************************************)
DelayAsConfigured ==
  state["topology"] = "declared" =>
    Queue(RetryQueue, RetryArguments(config)) \in broker

\* The process stays up, with its connection and the channel of r.
Undisturbed(r) == proc = "up" /\ conn = "open" /\ state[r] # "cut"

(***************************************************************************)
(* Consumers fail apart: one whose process, connection and own channel     *)
(* last in the end, and whose queue RabbitMQ has as the code declares it,  *)
(* settles all its messages, those of earlier processes that wait in a     *)
(* retry queue with another delay included, whatever becomes of the retry  *)
(* topology and of the other consumers (connection.go 11-14).              *)
(***************************************************************************)
SettledApart ==
  \A r \in Consumers :
    (<>[]Undisturbed(r) /\ []Accepts(SourceQueue(r))) =>
      \A m \in {n \in Messages : ConsumerOf[n] = r} :
        where[m] \in {"ready", "held", "retrying"} ~>
          where[m] \in {"parked", "done", "discarded", "lost"}

=============================================================================
