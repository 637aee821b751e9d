---------------------------- MODULE AtLeastOnce ----------------------------
(***************************************************************************)
(* What a consumer with a dead-letter exchange promises the services that  *)
(* publish to it: a message it accepted stays pending until the handler    *)
(* succeeded on it or a copy of it was parked for triage.                  *)
(***************************************************************************)
CONSTANT Messages

VARIABLES
  pending, \* accepted, and still the consumer's responsibility
  done,    \* the handler succeeded, and that was acknowledged
  parked   \* put aside for triage

vars == <<pending, done, parked>>

Init == pending = {} /\ done = {} /\ parked = {}

Accept(m) ==
  /\ m \notin pending \union done \union parked
  /\ pending' = pending \union {m}
  /\ UNCHANGED <<done, parked>>

Complete(m) ==
  /\ m \in pending
  /\ pending' = pending \ {m}
  /\ done' = done \union {m}
  /\ UNCHANGED parked

\* A copy may be parked while the message is still pending, and by a
\* consumer that no longer owns it, after another one completed it.
PutAside(m) ==
  /\ m \in pending \union done
  /\ parked' = parked \union {m}
  /\ UNCHANGED <<pending, done>>

\* Only a parked message is let go without a success.
Retire(m) ==
  /\ m \in pending \intersect parked
  /\ pending' = pending \ {m}
  /\ UNCHANGED <<done, parked>>

Next == \E m \in Messages : Accept(m) \/ Complete(m) \/ PutAside(m) \/ Retire(m)

Spec == Init /\ [][Next]_vars

=============================================================================
