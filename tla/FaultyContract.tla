--------------------------- MODULE FaultyContract ---------------------------
(***************************************************************************)
(* What is left of StorageContract when the database behind a storage      *)
(* fails.  The storages print errors or drop them, so a caller is never    *)
(* told; this module says how far the silence may go.  While failing is    *)
(* TRUE a call may find or change less than it should, as listed below; it *)
(* never makes up a key or a value, never touches a key that was not named *)
(* to it, and never does another call's work.  While failing is FALSE the  *)
(* storage keeps StorageContract to the letter.                            *)
(***************************************************************************)
EXTENDS StorageContract

VARIABLE failing   \* whether calls that take effect now can fail

fvars == <<contents, phase, call, res, failing>>

-----------------------------------------------------------------------------
\* A call without effect, and with the result of an empty store.
FailAll(g) ==
    \/ Perform(g, "Load", contents, LoadResult(Absent))
    \/ Perform(g, "Store", contents, NoResult)
    \/ Perform(g, "Clear", contents, NoResult)
    \/ Perform(g, "Len", contents, LenResult(0))
    \/ Perform(g, "Next", contents, NextResult({}))

\* Some of the keys are found, and some of those named are deleted.
FailSome(g) ==
    \/ \E S \in SUBSET Present(contents) : Perform(g, "Keys", contents, KeysResult(S))
    \/ /\ call[g].op = "Delete"
       /\ \E D \in SUBSET call[g].keys :
             Perform(g, "Delete", Remove(contents, D), NoResult)

\* f is called with some of the pairs, although it did not stop.
FailRange(g) ==
    /\ phase[g] = "ranging"
    /\ phase' = [phase EXCEPT ![g] = "done"]
    /\ \E P \in SUBSET res[g].pairs : res' = [res EXCEPT ![g] = RangeResult(P, FALSE)]
    /\ UNCHANGED <<contents, call>>

\* Next returns a pair and does not remove it.
FailNext(g) ==
    \E k \in Present(contents) :
        Perform(g, "Next", contents, NextResult({<<k, contents[k]>>}))

\* The weak forms of Delete and Next give a key up after they have found it.
FailWeak(g) ==
    \/ /\ "Delete" \notin Atomic
       /\ phase[g] = "pending" /\ call[g].op = "Delete"
       /\ \E k \in call[g].keys : call' = [call EXCEPT ![g].keys = @ \ {k}]
       /\ UNCHANGED <<contents, phase, res>>
    \/ /\ phase[g] = "peeked"
       /\ phase' = [phase EXCEPT ![g] = "done"]
       /\ UNCHANGED <<contents, call, res>>

Fail(g) == FailAll(g) \/ FailSome(g) \/ FailRange(g) \/ FailNext(g) \/ FailWeak(g)

-----------------------------------------------------------------------------
FaultyInit == Init /\ failing \in BOOLEAN

\* Nothing succeeds on a closed database.
FaultyNext ==
    \/ UNCHANGED failing /\ Next
    \/ UNCHANGED failing /\ failing /\ \E g \in G : Fail(g)
    \/ failing' = TRUE /\ \E g \in G : Close(g)

FaultySpec == FaultyInit /\ [][FaultyNext]_fvars
=============================================================================
