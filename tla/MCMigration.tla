---------------------------- MODULE MCMigration -----------------------------
(***************************************************************************)
(* Migration of up to three keys: one that changes its prefix, one that    *)
(* has the new prefix already and may collide with it, and one that is     *)
(* nothing but the prefix; of two values one cannot be encoded.            *)
(***************************************************************************)
EXTENDS Migration

CONSTANT x

ThreeKeys == {<<"source", x>>, <<"target", x>>, <<"source", NoRest>>}
=============================================================================
