----------------------------- MODULE MCUserSync -----------------------------
(* Small instances of UserSync for TLC.                                    *)
EXTENDS UserSync, TLC

CONSTANTS c1, u1, u2, u3, e1, e2, e3, p1, MaxEvents

Numbered == 1..MaxEvents
OneKey == [m \in Messages |-> "verisafe.user"]
Renaming == Permutations(Users) \union Permutations(Emails)

\* A burst: every event is published, each by Verisafe, then every event is
\* delivered, and only then does the channel go; the container is restarted
\* when the loop has ended.
BurstNext ==
  /\ SyncNext
  /\ \A i \in DOMAIN log' : log'[i].type # "other"
  /\ \A c \in Consumers :
       /\ inbox'[c] # inbox[c] => Len(log) = MaxEvents
       /\ pc'[c] = "handling" => ready = {} \/ link[c] # "open"
       /\ faults' # faults =>
            Cardinality(inbox[c]) = MaxEvents \/ pc[c] = "stopped"

BurstSpec == SyncInit /\ [][BurstNext]_allVars
=============================================================================
