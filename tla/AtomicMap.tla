----------------------------- MODULE AtomicMap ------------------------------
(***************************************************************************)
(* The map that the comments of mightymap.go describe: every method of Map *)
(* takes effect at one instant.  In particular Store on a map that does    *)
(* not allow overwriting "will only insert if the key doesn't exist", and  *)
(* Pop "retrieves and removes a value".                                    *)
(***************************************************************************)
EXTENDS MapInterface

VARIABLES
    allowOverwrite,  \* Map.allowOverwrite, set by New
    contents,  \* what the map holds
    mcall,     \* mcall[g]: the method g is calling, NoCall when none
    mres       \* mres[g]: its result, Pending until it has taken effect

avars == <<allowOverwrite, contents, mcall, mres>>

Init ==
    /\ allowOverwrite \in BOOLEAN
    /\ contents \in Contents
    /\ mcall = [g \in G |-> NoCall]
    /\ mres = [g \in G |-> NoResult]

Invoke(g, c) ==
    /\ mcall[g] = NoCall
    /\ mcall' = [mcall EXCEPT ![g] = c]
    /\ mres' = [mres EXCEPT ![g] = Pending]
    /\ UNCHANGED contents

\* The instant at which the method op takes effect.
Effect(g, op, after, r) ==
    /\ mcall[g].op = op /\ mres[g] = Pending
    /\ contents' = after
    /\ mres' = [mres EXCEPT ![g] = r]
    /\ UNCHANGED mcall

Stored(g) ==
    IF allowOverwrite \/ contents[mcall[g].key] = Absent
    THEN Put(contents, mcall[g].key, mcall[g].val)
    ELSE contents

Method(g) ==
    \/ Effect(g, "Load", contents, LoadResult(contents[mcall[g].key]))
    \/ Effect(g, "Has", contents, HasResult(contents[mcall[g].key] # Absent))
    \/ Effect(g, "Pop", Remove(contents, {mcall[g].key}), LoadResult(contents[mcall[g].key]))
    \/ Effect(g, "Store", Stored(g), NoResult)
    \/ Effect(g, "Delete", Remove(contents, mcall[g].keys), NoResult)
    \/ Effect(g, "Clear", Empty, NoResult)
    \/ Effect(g, "Close", contents, NoResult)
    \/ Effect(g, "Keys", contents, KeysResult(Present(contents)))
    \/ Effect(g, "Len", contents, LenResult(Cardinality(Present(contents))))
    \/ Effect(g, "Range", contents, Snapshot(Pairs(contents)))
    \/ \E P \in SUBSET Pairs(contents) :
          /\ Cardinality(P) = (IF Pairs(contents) = {} THEN 0 ELSE 1)
          /\ Effect(g, "Next", Remove(contents, {p[1] : p \in P}), NextResult(P))

\* f has seen every pair of the snapshot, or stopped.
RangeDone(g) ==
    /\ mcall[g].op = "Range" /\ "snapshot" \in DOMAIN mres[g]
    /\ \/ mres' = [mres EXCEPT ![g] = RangeResult(mres[g].snapshot, FALSE)]
       \/ \E P \in (SUBSET mres[g].snapshot) \ {{}} :
             mres' = [mres EXCEPT ![g] = RangeResult(P, TRUE)]
    /\ UNCHANGED <<contents, mcall>>

Return(g) ==
    /\ mcall[g] # NoCall /\ mres[g] # Pending /\ "snapshot" \notin DOMAIN mres[g]
    /\ mcall' = [mcall EXCEPT ![g] = NoCall]
    /\ mres' = [mres EXCEPT ![g] = NoResult]
    /\ UNCHANGED contents

Next ==
    /\ \E g \in G :
          (\E c \in MapCalls(g) : Invoke(g, c)) \/ Method(g) \/ RangeDone(g) \/ Return(g)
    /\ UNCHANGED allowOverwrite

Spec == Init /\ [][Next]_avars
=============================================================================
