----------------------------- MODULE MCBreaker -----------------------------
(* Small instances of Breaker for TLC.                                     *)
EXTENDS Breaker, TLC
CONSTANTS g1, g2, g3
Goroutines == Permutations(Callers)
=============================================================================
