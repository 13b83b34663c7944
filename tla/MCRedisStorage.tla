--------------------------- MODULE MCRedisStorage ---------------------------
(***************************************************************************)
(* RedisStorage on a small instance: two goroutines and two keys, so that  *)
(* a scan takes two pages and another call comes between them.  One of     *)
(* them scans, the other one writes; both use Next.                        *)
(***************************************************************************)
EXTENDS RedisStorage, TLC

CONSTANTS g1, g2

Roles == [g \in G |-> IF g = g1 THEN {"Range", "Keys", "Len", "Clear", "Next"}
                      ELSE {"Load", "Store", "Delete", "Next", "Close"}]

Sym == Permutations(Keys)
=============================================================================
