-------------------------- MODULE LifecycleProofs --------------------------
(***************************************************************************)
(* What holds of start-up, redeployments and the retry topology for every  *)
(* number of messages, delays, faults and redeployments, whatever the      *)
(* broker held before.                                                     *)
(***************************************************************************)
EXTENDS Lifecycle, TLAPS

-----------------------------------------------------------------------------
(* The inductive invariant.                                                *)

\* The topology is attempted before any consumer starts.
Ordered ==
  /\ state["topology"] # "running"
  /\ state["topology"] \in {"waiting", "declaring"} =>
       \A r \in Consumers : state[r] = "waiting"
  /\ proc = "down" => \A r \in Routines : next[r] = 1

\* What was declared stays declared.
InForce ==
  /\ \A r \in Routines : \A i \in 1..(next[r] - 1) : Program(r)[i] \in broker
  /\ \A r \in Consumers :
       state[r] = "running" => {SourceQueue(r), SourceBinding(r)} \subseteq broker
  /\ complete => {RetryBinding("push"), RetryBinding("emails"),
                  Queue(ParkedQueue, {})} \subseteq broker
  /\ DelayAsConfigured

\* A message went through the binding of its queue.
Routed ==
  \A m \in Messages :
    where[m] # "unpublished" => SourceBinding(ConsumerOf[m]) \in broker

IInv == LifecycleTypeOK /\ Ordered /\ InForce /\ Routed

-----------------------------------------------------------------------------
(* Lemmas about the programs of the routines.                              *)

\* DeclareRetryTopology makes five declarations, a consumer three.
LEMMA Lengths ==
  ASSUME config \in Delays
  PROVE  /\ Len(Program("topology")) = 5
         /\ \A r \in Consumers : Len(Program(r)) = 3
         /\ \A r \in Routines : Len(Program(r)) \in Nat
<1>1. Len(Program("topology")) = 5
  BY DEF Program, DeclareRetryTopology
<1>2. \A r \in Consumers : Len(Program(r)) = 3
  BY LifecycleAssumption DEF Program, Consume
<1>3. QED
  BY <1>1, <1>2 DEF Routines

\* What DeclareRetryTopology declares.
LEMMA TopologyProgram ==
  ASSUME config \in Delays
  PROVE  /\ Program("topology")[2] = Queue(RetryQueue, RetryArguments(config))
         /\ Program("topology")[3] = RetryBinding("emails")
         /\ Program("topology")[4] = RetryBinding("push")
         /\ Program("topology")[5] = Queue(ParkedQueue, {})
BY DEF Program, DeclareRetryTopology

\* What a consumer declares.
LEMMA ConsumerProgram ==
  ASSUME NEW r \in Consumers
  PROVE  /\ Program(r)[2] = SourceQueue(r)
         /\ Program(r)[3] = SourceBinding(r)
BY LifecycleAssumption DEF Program, Consume

\* Every line of a program is declarable.
LEMMA ProgramTypes ==
  ASSUME config \in Delays, NEW r \in Routines, NEW i \in 1..Len(Program(r))
  PROVE  Program(r)[i] \in Declarable
<1>1. Program(r) \in {DeclareRetryTopology[delay] : delay \in Delays}
                     \union {Consume[c] : c \in Consumers}
  BY DEF Program, Routines
<1>2. i \in DOMAIN Program(r)
  BY LifecycleAssumption DEF Program, Routines, DeclareRetryTopology, Consume
<1>3. QED
  BY <1>1, <1>2 DEF Declarable

-----------------------------------------------------------------------------
(* Lemmas about steps.                                                     *)

\* The routine "topology" is not a consumer.
LEMMA TopologyIsApart == "topology" \notin Consumers
BY LifecycleAssumption

\* Becomes keeps the type of state, and touches no consumer but r, unless
\* the topology is through.
LEMMA BecomesType ==
  ASSUME NEW S, state \in [Routines -> S], "declaring" \in S,
         NEW r \in Routines, NEW s \in S, Becomes(r, s)
  PROVE  /\ state' \in [Routines -> S]
         /\ state'[r] = s
         /\ r # "topology" => \A q \in Routines \ {r} : state'[q] = state[q]
         /\ r = "topology" => \A q \in Routines \ {r} : state'[q] = "declaring"
BY DEF Becomes

\* A message that RabbitMQ takes back is ready again.
LEMMA RequeuedType ==
  ASSUME LifecycleTypeOK, NEW R
  PROVE  /\ Requeued(R) \in [Messages -> Places]
         /\ \A m \in Messages :
              /\ Requeued(R)[m] = "held" =>
                   where[m] = "held" /\ ConsumerOf[m] \notin R
              /\ Requeued(R)[m] # "unpublished" => where[m] # "unpublished"
              /\ Requeued(R)[m] = "lost" => where[m] = "lost"
BY DEF LifecycleTypeOK, Requeued, Places

\* A step that takes no declaration back, and starts nothing, keeps what is
\* in force.
LEMMA InForceKept ==
  ASSUME InForce, broker \subseteq broker', config' = config,
         complete' = complete,
         \A r \in Routines : next'[r] \in {1, next[r]},
         \A r \in Consumers : state'[r] = "running" => state[r] = "running",
         state'["topology"] = "declared" => state["topology"] = "declared"
  PROVE  InForce'
<1>1. \A r \in Routines : Program(r)' = Program(r)
  BY DEF Program
<1>2. \A r \in Routines : \A i \in 1..(next'[r] - 1) : Program(r)'[i] \in broker'
  BY <1>1 DEF InForce
<1>3. DelayAsConfigured'
  BY DEF InForce, DelayAsConfigured
<1>4. QED
  BY <1>2, <1>3 DEF InForce

\* So do messages.
LEMMA RoutedKept ==
  ASSUME Routed, broker \subseteq broker',
         \A m \in Messages : where'[m] # "unpublished" => where[m] # "unpublished"
  PROVE  Routed'
BY DEF Routed

-----------------------------------------------------------------------------
(* The invariant holds initially and is kept by every step.                *)

\* Initially no routine declared anything.
LEMMA InvInit == Init => IInv
<1> SUFFICES ASSUME Init PROVE IInv
  OBVIOUS
<1>1. \A r \in Routines : Len(Program(r)) \in Nat
  BY Lengths DEF Init, Routines
<1>2. LifecycleTypeOK
  <2>1. \A r \in Routines : next[r] <= Len(Program(r)) + 1
    BY <1>1 DEF Init
  <2>2. broker \in SUBSET ((UNION Existing) \union Declarable)
    BY DEF Init
  <2>3. /\ state \in [Routines -> Active \union {"waiting", "declared", "refused", "cut"}]
        /\ next \in [Routines -> Nat \ {0}]
    BY DEF Init
  <2>4. /\ where \in [Messages -> Places]
        /\ rejections \in [Messages -> Nat]
    BY DEF Init, Places
  <2>5. /\ setting \in Delays
        /\ config \in Delays
        /\ proc \in {"down", "connecting", "migrating", "up"}
        /\ conn \in {"none", "open", "lost"}
    BY DEF Init
  <2>6. /\ complete \in BOOLEAN
        /\ redeployments \in Nat
        /\ faults \in Nat
    BY DEF Init
  <2>7. \A r \in Routines : state[r] = "waiting"
    BY DEF Init
  <2>8. \A m \in Messages : where[m] # "held"
    BY DEF Init
  <2>9. QED
    BY <2>1, <2>2, <2>3, <2>4, <2>5, <2>6, <2>7, <2>8 DEF LifecycleTypeOK
<1>3. Ordered
  BY DEF Init, Ordered, Routines
<1>4. InForce
  BY DEF Init, InForce, DelayAsConfigured, Routines
<1>5. Routed
  BY DEF Init, Routed
<1>6. QED
  BY <1>2, <1>3, <1>4, <1>5 DEF IInv


\* The programs keep their lengths, and with config their declarations.
LEMMA ProgramsKept ==
  ASSUME config \in Delays
  PROVE  /\ config' = config => \A r \in Routines : Program(r)' = Program(r)
         /\ config' \in Delays =>
              \A r \in Routines : Len(Program(r)') = Len(Program(r))
<1>1. config' = config => \A r \in Routines : Program(r)' = Program(r)
  BY DEF Program
<1>2. config' \in Delays =>
        \A r \in Routines : Len(Program(r)') = Len(Program(r))
  BY DEF Program, DeclareRetryTopology
<1>3. QED
  BY <1>1, <1>2

RoutineStates == Active \union {"waiting", "declared", "refused", "cut"}

\* What becomes of an active routine, by itself or for a lost channel.
LEMMA BecomesStep ==
  ASSUME LifecycleTypeOK, Ordered, NEW r \in Routines, state[r] \in Active,
         NEW s \in {"declared", "running", "refused", "cut"}, Becomes(r, s),
         s = "running" => conn = "open" /\ r # "topology",
         \A m \in Messages :
           where'[m] = "held" =>
             where[m] = "held" /\ (s = "running" \/ ConsumerOf[m] # r),
         UNCHANGED <<broker, setting, config, proc, conn, next>>,
         where' \in [Messages -> Places], rejections' \in [Messages -> Nat],
         complete' \in BOOLEAN, redeployments' \in Nat, faults' \in Nat
  PROVE  LifecycleTypeOK' /\ Ordered'
<1>1. /\ state' \in [Routines -> RoutineStates]
      /\ state'[r] = s
      /\ r # "topology" => \A q \in Routines \ {r} : state'[q] = state[q]
      /\ r = "topology" => \A q \in Routines \ {r} : state'[q] = "declaring"
  <2>1. state \in [Routines -> RoutineStates]
    BY DEF LifecycleTypeOK, RoutineStates
  <2>2. "declaring" \in RoutineStates /\ s \in RoutineStates
    BY DEF RoutineStates, Active
  <2>3. QED
    BY <2>1, <2>2, BecomesType
<1>2. proc = "up"
  BY DEF LifecycleTypeOK, Active
<1>3. "topology" \in Routines /\ \A q \in Consumers : q \in Routines /\ q # "topology"
  BY TopologyIsApart DEF Routines
<1>4. r = "topology" => \A q \in Consumers : state[q] = "waiting"
  BY DEF Ordered, Active
<1>5. \A q \in Routines : state'[q] = "running" => conn = "open"
  BY <1>1 DEF LifecycleTypeOK
<1>6. \A m \in Messages : where'[m] = "held" => state'[ConsumerOf[m]] = "running"
  BY <1>1, <1>3, <1>4, LifecycleAssumption DEF LifecycleTypeOK
<1>7. \A q \in Routines : next'[q] <= Len(Program(q)') + 1
  BY ProgramsKept DEF LifecycleTypeOK
<1>8. LifecycleTypeOK'
  BY <1>1, <1>2, <1>5, <1>6, <1>7 DEF LifecycleTypeOK, RoutineStates
<1>9. Ordered'
  BY <1>1, <1>2, <1>3 DEF Ordered, Active
<1>10. QED
  BY <1>8, <1>9

\* The process ends, and RabbitMQ takes everything back.
LEMMA KilledStep ==
  ASSUME LifecycleTypeOK, Killed, setting' \in Delays, redeployments' \in Nat,
         faults' \in Nat
  PROVE  LifecycleTypeOK' /\ Ordered'
<1>1. /\ where' \in [Messages -> Places]
      /\ \A m \in Messages : where'[m] # "held"
  BY RequeuedType, LifecycleAssumption DEF Killed
<1>2. \A r \in Routines : next'[r] <= Len(Program(r)') + 1
  BY Lengths, ProgramsKept DEF Killed, LifecycleTypeOK
<1>3. /\ state' = [r \in Routines |-> "waiting"]
      /\ next' = [r \in Routines |-> 1]
      /\ proc' = "down" /\ conn' = "none"
      /\ UNCHANGED <<broker, config, rejections, complete>>
  BY DEF Killed
<1>4. LifecycleTypeOK'
  BY <1>1, <1>2, <1>3 DEF LifecycleTypeOK
<1>5. Ordered'
  BY <1>3 DEF Ordered, Routines
<1>6. QED
  BY <1>4, <1>5

\* A message moves, and nothing else happens.
LEMMA MovesStep ==
  ASSUME LifecycleTypeOK, Ordered, NEW m \in Messages, NEW place \in Places,
         Moves(m, place), rejections' \in [Messages -> Nat],
         place = "held" => state[ConsumerOf[m]] = "running"
  PROVE  LifecycleTypeOK' /\ Ordered'
<1> USE DEF Moves, processVars, boundVars
<1>1. where' \in [Messages -> Places]
  BY DEF LifecycleTypeOK
<1>2. \A n \in Messages : where'[n] = "held" => state[ConsumerOf[n]] = "running"
  BY DEF LifecycleTypeOK
<1>3. \A r \in Routines : next[r] <= Len(Program(r)') + 1
  BY ProgramsKept DEF LifecycleTypeOK
<1>4. LifecycleTypeOK'
  BY <1>1, <1>2, <1>3 DEF LifecycleTypeOK
<1>5. Ordered'
  BY DEF Ordered
<1>6. QED
  BY <1>4, <1>5

\* Every step keeps the types and the order of start-up.
LEMMA TypeStep ==
  LifecycleTypeOK /\ Ordered /\ [Next]_vars => LifecycleTypeOK' /\ Ordered'
<1> SUFFICES ASSUME LifecycleTypeOK, Ordered, [Next]_vars
             PROVE  LifecycleTypeOK' /\ Ordered'
  OBVIOUS
<1> USE DEF processVars, messageVars, boundVars
<1>a. /\ config' \in Delays =>
           \A r \in Routines : Len(Program(r)') = Len(Program(r))
      /\ \A r \in Routines : Len(Program(r)) \in Nat
  BY ProgramsKept, Lengths DEF LifecycleTypeOK
<1>b. "topology" \in Routines /\ Consumers \subseteq Routines
  BY DEF Routines
<1>1. CASE Launch
  BY <1>a, <1>1 DEF Launch, LifecycleTypeOK, Ordered
<1>2. CASE Connect
  BY <1>a, <1>2 DEF Connect, LifecycleTypeOK, Ordered
<1>3. CASE StartConsumers
  <2>1. \A r \in Routines : state[r] = "waiting"
    BY <1>3 DEF StartConsumers, LifecycleTypeOK
  <2>2. /\ state' \in [Routines -> RoutineStates]
        /\ \A r \in Routines : state'[r] # "running"
        /\ \A r \in Consumers : state'[r] = "waiting"
    BY <1>3, <1>b, <2>1, TopologyIsApart DEF StartConsumers, LifecycleTypeOK,
      RoutineStates, Active
  <2>3. \A m \in Messages : where[m] # "held"
    BY <1>b, <2>1, LifecycleAssumption DEF LifecycleTypeOK
  <2>4. LifecycleTypeOK'
    BY <1>a, <1>3, <2>2, <2>3 DEF StartConsumers, LifecycleTypeOK, RoutineStates
  <2>5. Ordered'
    BY <1>b, <1>3, <2>2 DEF StartConsumers, Ordered
  <2>6. QED
    BY <2>4, <2>5
<1>4. ASSUME NEW r \in Routines, Declare(r) PROVE LifecycleTypeOK' /\ Ordered'
  <2>1. next[r] \in 1..Len(Program(r))
    BY <1>a, <1>4 DEF Declare, LifecycleTypeOK
  <2>2. broker' \in SUBSET ((UNION Existing) \union Declarable)
    <3>1. config \in Delays
      BY DEF LifecycleTypeOK
    <3>2. Program(r)[next[r]] \in Declarable
      BY <2>1, <3>1, ProgramTypes
    <3>3. broker \in SUBSET ((UNION Existing) \union Declarable)
      BY DEF LifecycleTypeOK
    <3>4. broker' = broker \union {Program(r)[next[r]]}
      BY <1>4 DEF Declare
    <3>5. QED
      BY <3>2, <3>3, <3>4
  <2>3. /\ next' \in [Routines -> Nat \ {0}]
        /\ \A q \in Routines : next'[q] <= Len(Program(q)') + 1
    BY <1>a, <1>4, <2>1 DEF Declare, LifecycleTypeOK
  <2>4. LifecycleTypeOK'
    BY <1>4, <2>2, <2>3 DEF Declare, LifecycleTypeOK
  <2>5. Ordered'
    BY <1>4 DEF Declare, Ordered, LifecycleTypeOK
  <2>6. QED
    BY <2>4, <2>5
<1>5. ASSUME NEW r \in Routines, Declared(r) PROVE LifecycleTypeOK' /\ Ordered'
  <2>1. Becomes(r, IF r = "topology" THEN "declared" ELSE "running")
    BY <1>5 DEF Declared
  <2>2. state[r] \in Active
    BY <1>5 DEF Declared, Active
  <2>3. CASE r = "topology"
    BY <1>5, <2>1, <2>2, <2>3, BecomesStep, TopologyIsApart, LifecycleAssumption
      DEF Declared, LifecycleTypeOK, Ordered, Active
  <2>4. CASE r # "topology"
    BY <1>5, <2>1, <2>2, <2>4, BecomesStep DEF Declared, LifecycleTypeOK
  <2>5. QED
    BY <2>3, <2>4
<1>6. ASSUME NEW r \in Routines, Refused(r) \/ NoChannel(r)
      PROVE  LifecycleTypeOK' /\ Ordered'
  <2>1. PICK s \in {"refused", "cut"} : Becomes(r, s)
    BY <1>6 DEF Refused, NoChannel
  <2>2. state[r] = "declaring"
    BY <1>6 DEF Refused, NoChannel
  <2>3. \A m \in Messages : where'[m] = "held" => where[m] = "held" /\ ConsumerOf[m] # r
    BY <1>6, <2>2 DEF Refused, NoChannel, LifecycleTypeOK
  <2>4. /\ state[r] \in Active
        /\ UNCHANGED <<broker, setting, config, proc, conn, next, where,
                      rejections, complete, redeployments, faults>>
    BY <1>6, <2>2 DEF Refused, NoChannel, Active
  <2>5. /\ where' \in [Messages -> Places] /\ rejections' \in [Messages -> Nat]
        /\ complete' \in BOOLEAN /\ redeployments' \in Nat /\ faults' \in Nat
    BY <2>4 DEF LifecycleTypeOK
  <2>6. QED
    BY <2>1, <2>3, <2>4, <2>5, BecomesStep
<1>7. CASE Exit
  BY <1>7, KilledStep DEF Exit, Fault, LifecycleTypeOK
<1>8. ASSUME NEW delay \in Delays, Redeploy(delay)
      PROVE  LifecycleTypeOK' /\ Ordered'
  BY <1>8, KilledStep DEF Redeploy, LifecycleTypeOK
<1>9. CASE ConnectionLost
  <2>1. /\ where' \in [Messages -> Places]
        /\ \A m \in Messages : where'[m] # "held"
    BY <1>9, RequeuedType, LifecycleAssumption DEF ConnectionLost
  <2>2. state' \in [Routines -> RoutineStates]
    BY <1>9 DEF ConnectionLost, LifecycleTypeOK, RoutineStates
  <2>3. \A r \in Routines : state'[r] # "running" /\
          (state'[r] = state[r] \/ (state[r] = "running" /\ state'[r] = "cut"))
    BY <1>9 DEF ConnectionLost, LifecycleTypeOK
  <2>4. LifecycleTypeOK'
    BY <1>a, <1>9, <2>1, <2>2, <2>3 DEF ConnectionLost, Fault, LifecycleTypeOK,
      RoutineStates
  <2>5. Ordered'
    BY <1>b, <1>9, <2>3 DEF ConnectionLost, Ordered
  <2>6. QED
    BY <2>4, <2>5
<1>10. ASSUME NEW r \in Routines, ChannelLost(r)
       PROVE  LifecycleTypeOK' /\ Ordered'
  <2>1. /\ where' \in [Messages -> Places]
        /\ \A m \in Messages :
             where'[m] = "held" => where[m] = "held" /\ ConsumerOf[m] # r
    BY <1>10, RequeuedType DEF ChannelLost
  <2>2. /\ state[r] \in Active /\ Becomes(r, "cut")
        /\ UNCHANGED <<broker, setting, config, proc, conn, next, rejections,
                      complete, redeployments>>
        /\ faults' = faults + 1
    BY <1>10 DEF ChannelLost, Fault
  <2>3. /\ rejections' \in [Messages -> Nat] /\ complete' \in BOOLEAN
        /\ redeployments' \in Nat /\ faults' \in Nat
    BY <2>2 DEF LifecycleTypeOK
  <2>4. QED
    BY <2>1, <2>2, <2>3, BecomesStep
<1>11. ASSUME NEW m \in Messages, Publish(m) PROVE LifecycleTypeOK' /\ Ordered'
  BY <1>11, MovesStep DEF Publish, LifecycleTypeOK, Places
<1>12. ASSUME NEW m \in Messages, Deliver(m) PROVE LifecycleTypeOK' /\ Ordered'
  BY <1>12, MovesStep DEF Deliver, LifecycleTypeOK, Places
<1>13. ASSUME NEW m \in Messages, Succeed(m) PROVE LifecycleTypeOK' /\ Ordered'
  BY <1>13, MovesStep DEF Succeed, LifecycleTypeOK, Places
<1>14. ASSUME NEW m \in Messages, Reject(m) PROVE LifecycleTypeOK' /\ Ordered'
  <2>1. PICK place \in {"retrying", "lost", "discarded"} : Moves(m, place)
    BY <1>14 DEF Reject
  <2>2. rejections' \in [Messages -> Nat]
    BY <1>14 DEF Reject, LifecycleTypeOK
  <2>3. QED
    BY <2>1, <2>2, MovesStep DEF Places
<1>15. ASSUME NEW m \in Messages, Park(m) PROVE LifecycleTypeOK' /\ Ordered'
  <2>1. PICK place \in {"parked", "lost"} : Moves(m, place)
    BY <1>15 DEF Park
  <2>2. QED
    BY <1>15, <2>1, MovesStep DEF Park, Places, LifecycleTypeOK
<1>16. ASSUME NEW m \in Messages, Expire(m) PROVE LifecycleTypeOK' /\ Ordered'
  <2>1. PICK place \in {"ready", "lost"} : Moves(m, place)
    BY <1>16 DEF Expire
  <2>2. QED
    BY <1>16, <2>1, MovesStep DEF Expire, Places, LifecycleTypeOK
<1>17. CASE UNCHANGED vars
  BY <1>a, <1>17 DEF vars, LifecycleTypeOK, Ordered
<1>18. QED
  BY <1>1, <1>2, <1>3, <1>4, <1>5, <1>6, <1>7, <1>8, <1>9, <1>10, <1>11, <1>12,
     <1>13, <1>14, <1>15, <1>16, <1>17
     DEF Next, Startup, Environment, Handle

\* Every step keeps what is in force.
LEMMA InForceStep == IInv /\ [Next]_vars => InForce'
<1> SUFFICES ASSUME IInv, [Next]_vars PROVE InForce'
  OBVIOUS
<1> USE DEF processVars, messageVars, boundVars
<1>a. /\ config \in Delays
      /\ state \in [Routines -> RoutineStates]
      /\ next \in [Routines -> Nat \ {0}]
      /\ InForce
      /\ \A r \in Routines : state[r] # "waiting" => proc = "up"
  BY DEF IInv, LifecycleTypeOK, RoutineStates
<1>b. "topology" \in Routines /\ \A r \in Consumers : r \in Routines /\ r # "topology"
  BY TopologyIsApart DEF Routines
<1>1. CASE Launch
  <2>1. \A r \in Routines : state[r] = "waiting" /\ next[r] = 1
    BY <1>1, <1>a DEF Launch, IInv, Ordered
  <2>2. DelayAsConfigured'
    BY <1>1, <1>b, <2>1 DEF Launch, DelayAsConfigured
  <2>3. \A r \in Routines : \A i \in 1..(next'[r] - 1) : Program(r)'[i] \in broker'
    BY <1>1, <2>1 DEF Launch
  <2>4. QED
    BY <1>1, <1>a, <2>2, <2>3 DEF Launch, InForce
<1>2. CASE Connect
  BY <1>2, <1>a, InForceKept DEF Connect
<1>3. CASE StartConsumers
  BY <1>3, <1>a, <1>b, InForceKept DEF StartConsumers
<1>4. ASSUME NEW r \in Routines, Declare(r) PROVE InForce'
  <2>1. \A q \in Routines : Program(q)' = Program(q)
    BY <1>4, <1>a, ProgramsKept DEF Declare
  <2>2. /\ broker' = broker \union {Program(r)[next[r]]}
        /\ \A q \in Routines : next'[q] = IF q = r THEN next[q] + 1 ELSE next[q]
        /\ UNCHANGED <<config, state, complete>>
    BY <1>4, <1>a DEF Declare
  <2>3. \A q \in Routines : \A i \in 1..(next'[q] - 1) : Program(q)'[i] \in broker'
    <3> TAKE q \in Routines
    <3> TAKE i \in 1..(next'[q] - 1)
    <3>1. CASE q = r /\ i = next[r]
      BY <2>1, <2>2, <3>1
    <3>2. CASE ~(q = r /\ i = next[r])
      <4>1. i \in 1..(next[q] - 1)
        BY <1>a, <2>2, <3>2
      <4>2. QED
        BY <1>a, <2>1, <2>2, <4>1 DEF InForce
    <3>3. QED
      BY <3>1, <3>2
  <2>4. DelayAsConfigured'
    BY <1>a, <2>2 DEF InForce, DelayAsConfigured
  <2>5. QED
    BY <1>a, <2>2, <2>3, <2>4 DEF InForce
<1>5. ASSUME NEW r \in Routines, Declared(r) PROVE InForce'
  <2>1. /\ next[r] > Len(Program(r))
        /\ UNCHANGED <<broker, config, next>>
        /\ complete' = (complete \/ r = "topology")
    BY <1>5 DEF Declared
  <2>2. \A q \in Routines : \A i \in 1..(next'[q] - 1) : Program(q)'[i] \in broker'
    BY <1>a, <2>1, ProgramsKept DEF InForce
  <2>3. CASE r = "topology"
    <3>1. next[r] > 5
      BY <1>a, <2>1, <2>3, Lengths
    <3>2. {Queue(RetryQueue, RetryArguments(config)), RetryBinding("emails"),
           RetryBinding("push"), Queue(ParkedQueue, {})} \subseteq broker
      <4>1. \A i \in 2..5 : Program(r)[i] \in broker
        BY <1>a, <3>1 DEF InForce
      <4>2. QED
        BY <1>a, <2>3, <4>1, TopologyProgram
    <3>3. \A q \in Consumers : state'[q] = "declaring"
      BY <1>5, <1>a, <1>b, <2>3 DEF Declared, Becomes
    <3>4. DelayAsConfigured'
      BY <2>1, <3>2 DEF DelayAsConfigured
    <3>5. QED
      BY <2>1, <2>2, <3>2, <3>3, <3>4 DEF InForce
  <2>4. CASE r # "topology"
    <3>1. r \in Consumers
      BY <2>4 DEF Routines
    <3>2. next[r] > 3
      BY <1>a, <2>1, <3>1, Lengths
    <3>3. {SourceQueue(r), SourceBinding(r)} \subseteq broker
      <4>1. \A i \in 2..3 : Program(r)[i] \in broker
        BY <1>a, <3>2 DEF InForce
      <4>2. QED
        BY <3>1, <4>1, ConsumerProgram
    <3>4. \A q \in Routines : q # r => state'[q] = state[q]
      BY <1>5, <1>a, <2>4 DEF Declared, Becomes
    <3>5. DelayAsConfigured'
      BY <1>a, <1>b, <2>1, <2>4, <3>4 DEF InForce, DelayAsConfigured
    <3>6. QED
      BY <1>a, <1>b, <2>1, <2>2, <2>4, <3>3, <3>4, <3>5 DEF InForce
  <2>5. QED
    BY <2>3, <2>4
<1>6. ASSUME NEW r \in Routines, NEW s \in {"refused", "cut"}, Becomes(r, s),
             UNCHANGED <<broker, config, next, complete>>
      PROVE  InForce'
  <2>1. \A q \in Routines : state'[q] \in {s, "declaring", state[q]}
    BY <1>6, <1>a DEF Becomes
  <2>2. QED
    BY <1>6, <1>a, <1>b, <2>1, InForceKept
<1>7. ASSUME Killed PROVE InForce'
  BY <1>7, <1>a, <1>b, InForceKept DEF Killed
<1>8. CASE ConnectionLost
  BY <1>8, <1>a, <1>b, InForceKept DEF ConnectionLost
<1>9. ASSUME NEW m \in Messages, NEW place, Moves(m, place) PROVE InForce'
  BY <1>9, <1>a, <1>b, InForceKept DEF Moves
<1>10. CASE UNCHANGED vars
  BY <1>10, <1>a, <1>b, InForceKept DEF vars
<1>11. CASE Startup
  <2>1. ASSUME NEW r \in Routines, Refused(r) \/ NoChannel(r) PROVE InForce'
    BY <1>6, <2>1 DEF Refused, NoChannel
  <2>2. QED
    BY <1>1, <1>2, <1>3, <1>4, <1>5, <1>11, <2>1 DEF Startup
<1>12. CASE Environment
  <2>1. ASSUME NEW r \in Routines, ChannelLost(r) PROVE InForce'
    BY <1>6, <2>1 DEF ChannelLost
  <2>2. QED
    BY <1>7, <1>8, <1>12, <2>1 DEF Environment, Exit, Redeploy
<1>13. ASSUME NEW m \in Messages, Publish(m) \/ Deliver(m) \/ Handle(m) \/ Expire(m)
       PROVE  InForce'
  BY <1>9, <1>13 DEF Publish, Deliver, Handle, Succeed, Reject, Park, Expire
<1>14. QED
  BY <1>10, <1>11, <1>12, <1>13 DEF Next

\* Every step keeps messages behind the bindings they went through.
LEMMA RoutedStep == IInv /\ [Next]_vars => Routed'
<1> SUFFICES ASSUME IInv, [Next]_vars PROVE Routed'
  OBVIOUS
<1> USE DEF processVars, messageVars, boundVars
<1>1. LifecycleTypeOK /\ Routed
  BY DEF IInv
<1>2. ASSUME broker \subseteq broker', UNCHANGED where PROVE Routed'
  BY <1>1, <1>2, RoutedKept
<1>3. ASSUME NEW R, where' = Requeued(R), UNCHANGED broker PROVE Routed'
  BY <1>1, <1>3, RequeuedType, RoutedKept
<1>4. ASSUME NEW m \in Messages, NEW place, Moves(m, place),
             where[m] # "unpublished" PROVE Routed'
  BY <1>1, <1>4, RoutedKept DEF Moves, LifecycleTypeOK
<1>5. CASE Startup
  BY <1>2, <1>5 DEF Startup, Launch, Connect, StartConsumers, Declare, Declared,
    Refused, NoChannel
<1>6. CASE Environment
  BY <1>3, <1>6 DEF Environment, Exit, Redeploy, Killed, ConnectionLost, ChannelLost
<1>7. ASSUME NEW m \in Messages, Publish(m) PROVE Routed'
  BY <1>1, <1>7 DEF Publish, Moves, Routed, LifecycleTypeOK
<1>8. ASSUME NEW m \in Messages, Deliver(m) \/ Handle(m) \/ Expire(m) PROVE Routed'
  BY <1>4, <1>8 DEF Deliver, Handle, Succeed, Reject, Park, Expire
<1>9. CASE UNCHANGED vars
  BY <1>2, <1>9 DEF vars
<1>10. QED
  BY <1>5, <1>6, <1>7, <1>8, <1>9 DEF Next

\* The invariant is inductive.
LEMMA Invariant == Spec => []IInv
<1>1. IInv /\ [Next]_vars => IInv'
  BY TypeStep, InForceStep, RoutedStep DEF IInv
<1>2. QED
  BY InvInit, <1>1, PTL DEF Spec

-----------------------------------------------------------------------------
(* Theorems.                                                               *)

(***************************************************************************)
(* Type correctness of start-up, redeployments and the messages' way; in   *)
(* particular a message is only held by a consumer that runs, and a        *)
(* consumer only runs in a process that is up and connected.               *)
(***************************************************************************)
THEOREM LifecycleTypeCorrect == Spec => []LifecycleTypeOK
<1>1. IInv => LifecycleTypeOK
  BY DEF IInv
<1>2. QED
  BY Invariant, <1>1, PTL

(***************************************************************************)
(* A retry topology that was declared without error has the delay of this  *)
(* process (topology.go 55-67), for any delays and any number of           *)
(* redeployments and half-way declarations before.                         *)
(***************************************************************************)
THEOREM DelayAsConfiguredAlways == Spec => []DelayAsConfigured
<1>1. IInv => DelayAsConfigured
  BY DEF IInv, InForce
<1>2. QED
  BY Invariant, <1>1, PTL

(***************************************************************************)
(* Once one DeclareRetryTopology returned without error no message is lost *)
(* any more, whatever becomes of the processes after it (app.go 195-205).  *)
(***************************************************************************)
THEOREM NothingLostOnceCompleteAlways == Spec => NothingLostOnceComplete
<1> DEFINE A == \A m \in Messages :
                  where[m] # "lost" /\ where'[m] = "lost" => ~complete
<1>1. IInv /\ [Next]_vars => [A]_vars
  <2> SUFFICES ASSUME IInv, Next, complete, NEW m \in Messages,
                      where[m] # "lost", where'[m] = "lost"
               PROVE  FALSE
    BY DEF vars
  <2> USE DEF processVars, messageVars, boundVars
  <2>1. LifecycleTypeOK /\ InForce /\ Routed
    BY DEF IInv
  <2>2. {RetryBinding("push"), RetryBinding("emails"), Queue(ParkedQueue, {})}
          \subseteq broker
    BY <2>1 DEF InForce
  <2>3. CASE Startup
    BY <2>3 DEF Startup, Launch, Connect, StartConsumers, Declare, Declared,
      Refused, NoChannel
  <2>4. CASE Environment
    <3>1. PICK R : where' = Requeued(R)
      BY <2>4 DEF Environment, Exit, Redeploy, Killed, ConnectionLost, ChannelLost
    <3>2. QED
      BY <2>1, <3>1, RequeuedType
  <2>5. ASSUME NEW n \in Messages, Publish(n) \/ Deliver(n) \/ Succeed(n)
        PROVE  FALSE
    BY <2>1, <2>5 DEF Publish, Deliver, Succeed, Moves, LifecycleTypeOK
  <2>6. ASSUME NEW n \in Messages, Reject(n) PROVE FALSE
    <3>1. where[n] = "held" /\ ConsumerOf[n] \in Consumers
      BY <2>6, LifecycleAssumption DEF Reject
    <3>2. SourceQueue(ConsumerOf[n]) \in broker
      BY <2>1, <3>1 DEF LifecycleTypeOK, InForce
    <3>3. DeadLetters(ConsumerOf[n]) => RetryBinding(ConsumerOf[n]) \in broker
      BY <2>2 DEF DeadLetters
    <3>4. PICK place \in {"retrying", "discarded"} : Moves(n, place)
      BY <2>6, <3>2, <3>3 DEF Reject
    <3>5. QED
      BY <2>1, <3>4 DEF Moves, LifecycleTypeOK
  <2>7. ASSUME NEW n \in Messages, Park(n) PROVE FALSE
    <3>1. \E d \in broker : d.kind = "queue" /\ d.name = ParkedQueue
      BY <2>2 DEF Queue
    <3>2. QED
      BY <2>1, <2>7, <3>1 DEF Park, Moves, LifecycleTypeOK
  <2>8. ASSUME NEW n \in Messages, Expire(n) PROVE FALSE
    <3>1. SourceBinding(ConsumerOf[n]) \in broker
      BY <2>1, <2>8 DEF Expire, Routed
    <3>2. QED
      BY <2>1, <2>8, <3>1 DEF Expire, Moves, LifecycleTypeOK
  <2>9. QED
    BY <2>3, <2>4, <2>5, <2>6, <2>7, <2>8 DEF Next, Handle
<1>2. QED
  BY Invariant, <1>1, PTL DEF Spec, NothingLostOnceComplete
=============================================================================
