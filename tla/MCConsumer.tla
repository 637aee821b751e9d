----------------------------- MODULE MCConsumer -----------------------------
(* Small instances of Consumer for TLC.                                    *)
EXTENDS ConsumerRefinement, TLC

CONSTANTS m1, m2, c1, c2

\* What notification producers publish with.
SendKey == "gossip.push.send"

SendKeys == [m \in Messages |-> SendKey]
BoundKeys == {SendKey}
=============================================================================
