------------------------- MODULE ConsumerRefinement -------------------------
(***************************************************************************)
(* The consume loop with its retry topology implements at-least-once       *)
(* processing.  A message is pending while it is in flight; the copies in  *)
(* the parked queue count as one.                                          *)
(***************************************************************************)
EXTENDS Consumer

ALO == INSTANCE AtLeastOnce
         WITH pending <- InFlight, parked <- ParkedMessages

(***************************************************************************)
(* Every step of publishers, brokers and replicas is a step of AtLeastOnce *)
(* or leaves its view unchanged (consumer.go 161-203): a message leaves    *)
(* the queues only with a success or with a copy in the parked queue.      *)
(***************************************************************************)
ImplementsAtLeastOnce == ALO!Spec

=============================================================================
