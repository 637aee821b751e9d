---------------------------- MODULE MCLifecycle ----------------------------
(* A small instance of Lifecycle for TLC.                                  *)
EXTENDS Lifecycle

CONSTANTS m1, m2

Senders == [m \in Messages |-> IF m = m1 THEN "push" ELSE "users"]

\* A new broker, and one where an earlier version of the service declared
\* the queue for pushes without a dead-letter exchange.
Brokers == {{}, {SourceExchange("push"), Queue(QueueOf("push"), {}),
                 SourceBinding("push")}}
=============================================================================
