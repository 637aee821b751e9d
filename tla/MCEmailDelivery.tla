-------------------------- MODULE MCEmailDelivery --------------------------
(* Small instances of EmailDelivery for TLC.                               *)
EXTENDS EmailDelivery, TLC

CONSTANTS m1, m2, m3, c1, c2, r1, r2, s1, s2

SendKeys == [m \in Messages |-> "gossip.emails.send"]
BoundKeys == {"gossip.emails.send"}

Plain == [from |-> "allowed", to |-> "some", copies |-> FALSE, subject |-> TRUE,
          template |-> FALSE, body |-> TRUE, attachments |-> "absent",
          template_vars |-> "absent"]
Foreign == [Plain EXCEPT !.from = "foreign"]

\* m1 and m2 are an email and a republished copy of it; m3 is refused.
CopiedRequest == [m \in Messages |-> IF m = m3 THEN r2 ELSE r1]
OneInvalid == [m \in Messages |-> IF m = m3 THEN Foreign ELSE Plain]

\* Which of the two is the copy makes no difference.
Copies == Permutations({m1, m2})

\* Two services happen to use one request_id; a third message is refused.
CrossedService == [m \in Messages |-> IF m = m1 THEN s1 ELSE s2]
OneMalformed == [m \in Messages |-> IF m = m3 THEN None ELSE Plain]

OneService == [m \in Messages |-> s1]
=============================================================================
