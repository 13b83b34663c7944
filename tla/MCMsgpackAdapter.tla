-------------------------- MODULE MCMsgpackAdapter --------------------------
(***************************************************************************)
(* MsgpackAdapter with five types: a, a struct; f and m, structs of the    *)
(* same name in other packages, f with another field that cannot be        *)
(* encoded, m with one that is a map whose keys are no strings; p, a       *)
(* pointer to a; and c, which has nothing to do with them.  The values of  *)
(* the map are of type interface{}, of a, or of an interface that c and p  *)
(* implement.  Garbage does not decode at all.                             *)
(***************************************************************************)
EXTENDS MsgpackAdapter, TLC

CONSTANTS a, c, f, m, p, any, some, untyped, garbage, generic

AllTypes == {a, c, f, m, p}
EncodableTypes == {a, c, m, p}
RereadableTypes == {a, c, p}
EncodedValues == EncodableTypes \cup {untyped, garbage}
NameOf == [t \in AllTypes |-> IF t \in {f, m} THEN a ELSE t]
ElemOf == [t \in AllTypes |-> IF t = p THEN a ELSE t]
FitsIn == {<<c, c>>} \cup ({a, p} \X {a, f, m, p})
ImplementsBy == ((AllTypes \cup {generic}) \X {any}) \cup ({c, p} \X {some})
TypesOfV == {any, some, a}

Sym == Permutations(G)
=============================================================================
