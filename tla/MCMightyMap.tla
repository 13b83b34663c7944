---------------------------- MODULE MCMightyMap -----------------------------
(***************************************************************************)
(* MightyMap on small instances.  Owned says which keys a goroutine names: *)
(* every key (Shared), or keys of its own (Private).                       *)
(***************************************************************************)
EXTENDS MightyMap, TLC

CONSTANTS g1, g2, k1, k2

Shared == [g \in G |-> Keys]
Private == [g \in G |-> IF g = g1 THEN {k1} ELSE {k2}]

SymValues == Permutations(Values)
=============================================================================
