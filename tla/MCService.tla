----------------------------- MODULE MCService -----------------------------
(* Service for TLC: two requests, and signals enough for a second one to   *)
(* meet every window the first one opens.                                  *)
EXTENDS Service, TLC

Symmetry == Permutations(Requests)
=============================================================================
