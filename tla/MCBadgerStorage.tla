-------------------------- MODULE MCBadgerStorage ---------------------------
(***************************************************************************)
(* BadgerStorage on a small instance: goroutines that share every key.     *)
(***************************************************************************)
EXTENDS BadgerStorage, TLC

Sym == Permutations(G) \cup Permutations(Keys) \cup Permutations(Values)
=============================================================================
