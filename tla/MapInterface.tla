---------------------------- MODULE MapInterface ----------------------------
(***************************************************************************)
(* The methods of mightymap.Map and their results, shared by the model of  *)
(* the code (MightyMap) and by the map its comments describe (AtomicMap).  *)
(***************************************************************************)
EXTENDS StorageInterface

CONSTANTS
    MapOps,          \* the methods the goroutines use
    Owned            \* Owned[g]: the keys g names in its calls

MapOpNames == OpNames \cup {"Has", "Pop"}

ASSUME AllStorageOps == Ops = OpNames   \* Map uses every operation of its storage
ASSUME MapOpsAreOps == MapOps \subseteq MapOpNames
ASSUME OwnedAreKeys == Owned \in [G -> SUBSET Keys]

MapCalls(g) ==
    {m \in        [op : {"Load", "Has", "Pop"}, key : Owned[g]]
            \cup [op : {"Store"}, key : Owned[g], val : Values]
            \cup [op : {"Delete"}, keys : SUBSET Owned[g]]
            \cup [op : {"Range", "Keys", "Next", "Len", "Clear", "Close"}] :
        m.op \in MapOps}

\* Pop has the result of Load, the other methods that of the storage.
HasResult(b) == [ok |-> b]
Pending == [pending |-> TRUE]
Snapshot(P) == [snapshot |-> P]
MapResults == Results \cup [ok : BOOLEAN]
=============================================================================
