-------------------------- MODULE StorageContract ---------------------------
(***************************************************************************)
(* What storage.IMightyMapStorage promises to goroutines that share one    *)
(* store: every call takes effect at one instant between its invocation    *)
(* and its return (linearizability).  The comments of the interface say so *)
(* of Store, Clear and Next ("atomic and thread-safe", "the key-value pair *)
(* is removed as part of retrieval").                                      *)
(*                                                                         *)
(* Atomic is the set of operations of which this holds.  The documented    *)
(* contract has Atomic = OpNames.  An operation that is not in it keeps a  *)
(* weaker promise, the one some of the storages really give:               *)
(*   Next    a pair is looked up at one instant and its key deleted at a   *)
(*           later one, and a store with the zero key may pass for empty;  *)
(*   Delete  the keys are removed one at a time;                           *)
(*   Len     some number is returned.                                      *)
(***************************************************************************)
EXTENDS StorageInterface

CONSTANT Atomic

ASSUME AtomicAreOps == Atomic \subseteq OpNames

VARIABLES
    contents,  \* what the store holds
    phase,     \* phase[g]: where g is in its call
    call,      \* call[g]: the call g is making
    res        \* res[g]: its result, once it is known

cvars == <<contents, phase, call, res>>

Phases == {"idle", "pending", "peeked", "ranging", "done"}

TypeOK ==
    /\ contents \in Contents
    /\ phase \in [G -> Phases]
    /\ call \in [G -> Calls \cup {NoCall}]
    /\ res \in [G -> Results]
    /\ \A g \in G : phase[g] = "ranging" =>
                        res[g] \in [pairs : SUBSET (Keys \X Values), stopped : BOOLEAN]

\* A store may be opened on contents that an earlier process left.
Init ==
    /\ contents \in Contents
    /\ phase = [g \in G |-> "idle"]
    /\ call = [g \in G |-> NoCall]
    /\ res = [g \in G |-> NoResult]

-----------------------------------------------------------------------------
Invoke(g, c) ==
    /\ phase[g] = "idle"
    /\ phase' = [phase EXCEPT ![g] = "pending"]
    /\ call' = [call EXCEPT ![g] = c]
    /\ UNCHANGED <<contents, res>>

\* The instant at which a pending call of operation op takes effect.
Perform(g, op, after, r) ==
    /\ phase[g] = "pending" /\ call[g].op = op
    /\ contents' = after
    /\ phase' = [phase EXCEPT ![g] = "done"]
    /\ res' = [res EXCEPT ![g] = r]
    /\ UNCHANGED call

Load(g) == Perform(g, "Load", contents, LoadResult(contents[call[g].key]))
Store(g) == Perform(g, "Store", Put(contents, call[g].key, call[g].val), NoResult)
Clear(g) == Perform(g, "Clear", Empty, NoResult)
Close(g) == Perform(g, "Close", contents, NoResult)
KeysOf(g) == Perform(g, "Keys", contents, KeysResult(Present(contents)))

LenOf(g) ==
    /\ "Len" \in Atomic
    /\ Perform(g, "Len", contents, LenResult(Cardinality(Present(contents))))

LenWeak(g) ==
    /\ "Len" \notin Atomic /\ call[g].op = "Len"
    /\ "len" \in DOMAIN res'[g] /\ res'[g].len \in Int
    /\ Perform(g, "Len", contents, LenResult(res'[g].len))

Delete(g) ==
    /\ call[g].op = "Delete" => "Delete" \in Atomic \/ call[g].keys = {}
    /\ Perform(g, "Delete", Remove(contents, call[g].keys), NoResult)

DeleteKey(g) ==
    /\ "Delete" \notin Atomic
    /\ phase[g] = "pending" /\ call[g].op = "Delete"
    /\ \E k \in call[g].keys :
          /\ contents' = Remove(contents, {k})
          /\ call' = [call EXCEPT ![g].keys = @ \ {k}]
    /\ UNCHANGED <<phase, res>>

\* Range takes a snapshot; f sees all of its pairs, or some when it stopped.
RangeSnapshot(g) ==
    /\ phase[g] = "pending" /\ call[g].op = "Range"
    /\ phase' = [phase EXCEPT ![g] = "ranging"]
    /\ res' = [res EXCEPT ![g] = RangeResult(Pairs(contents), FALSE)]
    /\ UNCHANGED <<contents, call>>

RangeDone(g) ==
    /\ phase[g] = "ranging"
    /\ phase' = [phase EXCEPT ![g] = "done"]
    /\ \/ UNCHANGED res
       \/ \E P \in (SUBSET res[g].pairs) \ {{}} :
             res' = [res EXCEPT ![g] = RangeResult(P, TRUE)]
    /\ UNCHANGED <<contents, call>>

NextItem(g) ==
    /\ "Next" \in Atomic
    /\ \/ /\ Present(contents) = {}
          /\ Perform(g, "Next", contents, NextResult({}))
       \/ \E k \in Present(contents) :
             Perform(g, "Next", Remove(contents, {k}), NextResult({<<k, contents[k]>>}))

NextPeek(g) ==
    /\ "Next" \notin Atomic
    /\ \/ /\ Present(contents) = {} \/ ZeroKey \in Present(contents)
          /\ Perform(g, "Next", contents, NextResult({}))
       \/ \E k \in Present(contents) :
             /\ phase[g] = "pending" /\ call[g].op = "Next"
             /\ phase' = [phase EXCEPT ![g] = "peeked"]
             /\ res' = [res EXCEPT ![g] = NextResult({<<k, contents[k]>>})]
             /\ UNCHANGED <<contents, call>>

NextDelete(g) ==
    /\ phase[g] = "peeked"
    /\ phase' = [phase EXCEPT ![g] = "done"]
    /\ contents' = Remove(contents, {p[1] : p \in res[g].taken})
    /\ UNCHANGED <<call, res>>

Return(g) ==
    /\ phase[g] = "done"
    /\ phase' = [phase EXCEPT ![g] = "idle"]
    /\ call' = [call EXCEPT ![g] = NoCall]
    /\ res' = [res EXCEPT ![g] = NoResult]
    /\ UNCHANGED contents

\* The effect of a call that has been made.
Effect(g) ==
    \/ Load(g) \/ Store(g) \/ Clear(g) \/ Close(g) \/ KeysOf(g)
    \/ Delete(g) \/ DeleteKey(g)
    \/ LenOf(g)
    \/ RangeSnapshot(g) \/ RangeDone(g)
    \/ NextItem(g) \/ NextPeek(g) \/ NextDelete(g)

Next ==
    \E g \in G :
        (\E c \in Calls : Invoke(g, c)) \/ Effect(g) \/ LenWeak(g) \/ Return(g)

Spec == Init /\ [][Next]_cvars
=============================================================================
