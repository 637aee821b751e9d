------------------------------ MODULE Handler ------------------------------
(***************************************************************************)
(* What the push and the email handler have in common: each runs inside    *)
(* the consume loop of Consumer, in steps of its own, and calls its        *)
(* provider through the circuit breaker of its replica.                    *)
(***************************************************************************)
EXTENDS Consumer, BreakerOps

CONSTANTS
  HandlerFaultKinds, \* faults of the handler's environment
  MaxHandlerFaults   \* bound: how many of them

ASSUME HandlerAssumption ==
  /\ HandlerFaultKinds \in SUBSET STRING
  /\ MaxHandlerFaults \in Nat

VARIABLES
  step,         \* where the handler stands, "none" outside of it
  breaker,      \* the breaker of each replica
  crashes,      \* history: crashes of a replica
  handlerFaults \* history: faults of the handler's environment

handlerVars == <<step, breaker, crashes, handlerFaults>>

HandlerTypeOK(Steps) ==
  /\ TypeOK
  /\ step \in [Consumers -> Steps \union {"none"}]
  /\ breaker \in [Consumers -> BreakerStates]
  /\ crashes \in 0..faults
  /\ handlerFaults \in 0..MaxHandlerFaults
  /\ \A c \in Consumers : step[c] # "none" <=> pc[c] = "handling"

HandlerInit ==
  /\ Init
  /\ step = [c \in Consumers |-> "none"]
  /\ breaker = [c \in Consumers |-> New]
  /\ crashes = 0
  /\ handlerFaults = 0

HandlerFault(kind) ==
  /\ kind \in HandlerFaultKinds
  /\ handlerFaults < MaxHandlerFaults
  /\ handlerFaults' = handlerFaults + 1

\* The loop calls the handler; the handler goes on; it returns nil or an error.
Enter(c, d, first) ==
  /\ Receive(c, d)
  /\ step' = [step EXCEPT ![c] = first]
  /\ UNCHANGED <<breaker, crashes, handlerFaults>>

Continue(c, next) ==
  /\ step' = [step EXCEPT ![c] = next]
  /\ UNCHANGED <<vars, crashes>>

Respond(c, err) ==
  /\ HandlerReturns(c, IF err = "nil" THEN "succeeded" ELSE "failed")
  /\ step' = [step EXCEPT ![c] = "none"]
  /\ UNCHANGED crashes

\* OpenTimeout of the breaker elapses.
BreakerRests(c) ==
  /\ breaker[c].state = "open"
  /\ ~breaker[c].rested
  /\ breaker' = [breaker EXCEPT ![c].rested = TRUE]
  /\ UNCHANGED <<vars, step, crashes, handlerFaults>>

\* A crash loses the handler's state and the breaker with the process.
CrashReplica(c) ==
  /\ Crash(c)
  /\ step' = [step EXCEPT ![c] = "none"]
  /\ breaker' = [breaker EXCEPT ![c] = New]
  /\ crashes' = crashes + 1
  /\ UNCHANGED handlerFaults

\* The steps of the loop after the handler returned, and of the broker.
Settle(c) ==
  \/ AckSuccess(c) \/ Reject(c) \/ Park(c) \/ ParkFails(c) \/ AckParked(c)
  \/ ConsumerStops(c)

Around ==
  /\ \/ \E c \in Consumers :
          Settle(c) \/ Start(c) \/ ChannelLost(c) \/ ConnectionLost(c)
     \/ Queue
     \/ BrokerRestart
  /\ UNCHANGED handlerVars

=============================================================================
