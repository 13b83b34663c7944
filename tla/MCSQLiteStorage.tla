-------------------------- MODULE MCSQLiteStorage ---------------------------
(***************************************************************************)
(* SQLiteStorage on a small instance.  One goroutine uses every method,    *)
(* the other those that write and Len, so that each method meets each of   *)
(* them at every step; two keys make counts differ and a Range half done.  *)
(***************************************************************************)
EXTENDS SQLiteStorage

CONSTANTS g1, g2

Roles == [g \in G |-> Ops \cap (IF g = g1 THEN OpNames ELSE Writers \cup {"Len"})]
=============================================================================
