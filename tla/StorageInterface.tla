-------------------------- MODULE StorageInterface --------------------------
(***************************************************************************)
(* The vocabulary of storage.IMightyMapStorage: what a store contains, the *)
(* calls a goroutine can make on it and the results it gets back.  Every   *)
(* storage module, and the contract they are compared with, uses it.       *)
(***************************************************************************)
EXTENDS Integers, FiniteSets

CONSTANTS
    G,        \* the goroutines that use the store
    Keys,     \* the keys, K
    Values,   \* the values, V (or encoded values, []byte)
    Absent,   \* no value: what a lookup of a missing key finds
    ZeroKey,  \* the zero value of the type K, which may be one of Keys
    Ops       \* the operations the goroutines use

OpNames ==
    {"Load", "Store", "Delete", "Range", "Keys", "Next", "Len", "Clear", "Close"}

ASSUME KeysFinite == IsFiniteSet(Keys)
ASSUME AbsentIsNoValue == Absent \notin Values
ASSUME OpsAreOps == Ops \subseteq OpNames

-----------------------------------------------------------------------------
\* Contents of a store: map[K]V as a total function into Values or Absent.
Contents == [Keys -> Values \cup {Absent}]
Empty == [k \in Keys |-> Absent]
Present(d) == {k \in Keys : d[k] # Absent}
Put(d, k, v) == [d EXCEPT ![k] = v]
Remove(d, S) == [k \in Keys |-> IF k \in S THEN Absent ELSE d[k]]
Pairs(d) == {<<k, d[k]>> : k \in Present(d)}

-----------------------------------------------------------------------------
\* Calls.  Delete takes any number of keys; their order and repetitions make
\* no difference to a set that is emptied of them one by one.
Calls ==
    {c \in        [op : {"Load"}, key : Keys]
            \cup [op : {"Store"}, key : Keys, val : Values]
            \cup [op : {"Delete"}, keys : SUBSET Keys]
            \cup [op : {"Range", "Keys", "Next", "Len", "Clear", "Close"}] :
        c.op \in Ops}
NoCall == [op |-> "none"]

\* Results, one shape per operation.
NoResult       == [none |-> TRUE]
LoadResult(v)  == [val |-> v]                \* Absent stands for ok = false
KeysResult(S)  == [keys |-> S]
LenResult(n)   == [len |-> n]
RangeResult(P, b) == [pairs |-> P, stopped |-> b]  \* what f was called with
NextResult(P)  == [taken |-> P]              \* {} or one pair; {}: ok = false

Results ==
           {NoResult}
    \cup [val : Values \cup {Absent}]
    \cup [keys : SUBSET Keys]
    \cup [len : Int]
    \cup [pairs : SUBSET (Keys \X Values), stopped : BOOLEAN]
    \cup [taken : SUBSET (Keys \X Values)]
=============================================================================
