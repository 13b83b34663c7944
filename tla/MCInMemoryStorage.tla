------------------------- MODULE MCInMemoryStorage --------------------------
(***************************************************************************)
(* InMemoryStorage on small instances.  Two keys, one of them possibly the *)
(* zero key, are enough for a Delete that is half done and a Range that is *)
(* half way; two values tell an overwritten pair from the original.        *)
(***************************************************************************)
EXTENDS InMemoryStorage
=============================================================================
