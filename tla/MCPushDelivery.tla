--------------------------- MODULE MCPushDelivery ---------------------------
(* Small instances of PushDelivery for TLC.                                *)
EXTENDS PushDelivery, TLC

CONSTANTS m1, m2, m3, c1, r1, r2

SendKeys == [m \in Messages |-> "gossip.push.send"]
BoundKeys == {"gossip.push.send"}

Plain == [targets |-> {"target_user_id"}, headings |-> "en", subtitle |-> "absent",
          contents |-> "en", data |-> "absent", buttons |-> "absent",
          ttl |-> {2592000}, send_after |-> FALSE, fits |-> TRUE]
Later == [Plain EXCEPT !.send_after = TRUE]
Oversized == [Plain EXCEPT !.fits = FALSE]
LongLived == [Plain EXCEPT !.ttl = {2592001}]

\* m1 and m2 are a push and a republished copy of it; m3 fails validation.
CopiedRequest == [m \in Messages |-> IF m = m3 THEN r2 ELSE r1]
OneInvalid == [m \in Messages |-> IF m = m3 THEN LongLived ELSE Plain]

\* Which of the two is the copy makes no difference.
Copies == Permutations({m1, m2})

\* A push with a date, a malformed message and a push its row cannot hold.
OwnRequest == [m \in Messages |-> IF m = m1 THEN r1 ELSE r2]
EveryKind == [m \in Messages |->
                CASE m = m1 -> Later [] m = m2 -> None [] m = m3 -> Oversized]
=============================================================================
