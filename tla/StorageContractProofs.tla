----------------------- MODULE StorageContractProofs ------------------------
(***************************************************************************)
(* What one step of a storage that keeps StorageContract may do: the facts *)
(* on which the proofs about its users, the map and the MessagePack        *)
(* adapter, rest.                                                          *)
(***************************************************************************)
EXTENDS StorageContract, FiniteSetTheorems, TLAPS

-----------------------------------------------------------------------------
\* The contents, calls and results of StorageInterface.

\* What Put, Remove and Empty return are contents, and the pairs of contents
\* are pairs of a key and a value.
LEMMA ContentsType ==
    /\ Empty \in Contents
    /\ \A d \in Contents, k \in Keys, v \in Values : Put(d, k, v) \in Contents
    /\ \A d \in Contents : \A S : Remove(d, S) \in Contents
    /\ \A d \in Contents : Pairs(d) \in SUBSET (Keys \X Values)
    /\ \A d \in Contents : \A k \in Present(d) : k \in Keys /\ d[k] \in Values
BY DEF Empty, Contents, Put, Remove, Pairs, Present

\* The number of keys of a store is a natural number.
LEMMA CountType == \A d \in Contents : Cardinality(Present(d)) \in Nat
<1>1. TAKE d \in Contents
<1>2. IsFiniteSet(Present(d))
  BY KeysFinite, FS_Subset, Present(d) \subseteq Keys DEF Present
<1>. QED  BY <1>2, FS_CardinalityType

\* The arguments of the calls.
LEMMA CallType ==
    \A c \in Calls :
        /\ c.op \in OpNames
        /\ c.op \in {"Load", "Store"} => c.key \in Keys
        /\ c.op = "Store" => c.val \in Values
        /\ c.op = "Delete" => /\ c.keys \in SUBSET Keys
                              /\ \A S \in SUBSET Keys : [c EXCEPT !.keys = S] \in Calls
BY DEF Calls, OpNames

\* The results of the operations are results.
LEMMA ResultType ==
    /\ NoResult \in Results
    /\ \A v \in Values \cup {Absent} : LoadResult(v) \in Results
    /\ \A S \in SUBSET Keys : KeysResult(S) \in Results
    /\ \A n \in Int : LenResult(n) \in Results
    /\ \A P \in SUBSET (Keys \X Values), b \in BOOLEAN : RangeResult(P, b) \in Results
    /\ \A P \in SUBSET (Keys \X Values) : NextResult(P) \in Results
BY DEF Results, NoResult, LoadResult, KeysResult, LenResult, RangeResult, NextResult

-----------------------------------------------------------------------------
\* The steps of the storage keep its types.
LEMMA StorageInvokeType ==
    ASSUME TypeOK, NEW g \in G, NEW c \in Calls, Invoke(g, c)
    PROVE  TypeOK'
BY DEF TypeOK, Invoke, Phases

\* So does the return from a call.
LEMMA StorageReturnType ==
    ASSUME TypeOK, NEW g \in G, Return(g)
    PROVE  TypeOK'
BY ResultType DEF TypeOK, Return, Phases

\* So does the effect of a call.
LEMMA StorageEffectType ==
    ASSUME TypeOK, NEW g \in G, Effect(g)
    PROVE  TypeOK'
<1>1. ASSUME NEW op, NEW after \in Contents, NEW r \in Results,
             Perform(g, op, after, r)
      PROVE  TypeOK'
  BY <1>1 DEF TypeOK, Perform, Phases
<1>2. ASSUME NEW op \in {"Load", "Store", "Delete"}, call[g].op = op
      PROVE  call[g] \in Calls
  BY <1>2 DEF TypeOK, NoCall
<1>3. CASE Load(g)
  <2>1. call[g] \in Calls /\ call[g].op = "Load"
    BY <1>2, <1>3 DEF Load, Perform
  <2>2. LoadResult(contents[call[g].key]) \in Results
    BY <2>1, CallType, ResultType DEF TypeOK, Contents
  <2>. QED  BY <1>1, <1>3, <2>2 DEF Load, TypeOK
<1>4. CASE Store(g)
  <2>1. call[g] \in Calls /\ call[g].op = "Store"
    BY <1>2, <1>4 DEF Store, Perform
  <2>2. Put(contents, call[g].key, call[g].val) \in Contents
    BY <2>1, CallType, ContentsType DEF TypeOK
  <2>. QED  BY <1>1, <1>4, <2>2, ResultType DEF Store
<1>5. CASE Clear(g) \/ Close(g)
  BY <1>1, <1>5, ContentsType, ResultType DEF Clear, Close, TypeOK
<1>6. CASE KeysOf(g)
  <2>1. KeysResult(Present(contents)) \in Results
    BY Present(contents) \in SUBSET Keys, ResultType DEF Present
  <2>. QED  BY <1>1, <1>6, <2>1 DEF KeysOf, TypeOK
<1>7. CASE Delete(g)
  BY <1>1, <1>7, ContentsType, ResultType DEF Delete, TypeOK
<1>8. CASE DeleteKey(g)
  <2>1. call[g] \in Calls /\ call[g].op = "Delete"
    BY <1>2, <1>8 DEF DeleteKey
  <2>2. PICK k \in call[g].keys : /\ contents' = Remove(contents, {k})
                                  /\ call' = [call EXCEPT ![g].keys = @ \ {k}]
    BY <1>8 DEF DeleteKey
  <2>3. call' \in [G -> Calls \cup {NoCall}]
    BY <2>1, <2>2, CallType DEF TypeOK
  <2>. QED  BY <1>8, <2>2, <2>3, ContentsType DEF DeleteKey, TypeOK
<1>9. CASE LenOf(g)
  <2>1. contents \in Contents /\ Cardinality(Present(contents)) \in Int
    BY CountType DEF TypeOK
  <2>2. LenResult(Cardinality(Present(contents))) \in Results
    BY <2>1, ResultType
  <2>. QED  BY <1>1, <1>9, <2>1, <2>2 DEF LenOf
<1>10. CASE RangeSnapshot(g)
  <2>1. Pairs(contents) \in SUBSET (Keys \X Values)
    BY ContentsType DEF TypeOK
  <2>2. /\ RangeResult(Pairs(contents), FALSE) \in Results
        /\ RangeResult(Pairs(contents), FALSE) \in
               [pairs : SUBSET (Keys \X Values), stopped : BOOLEAN]
    BY <2>1, ResultType DEF RangeResult
  <2>. QED  BY <1>10, <2>2 DEF RangeSnapshot, TypeOK, Phases
<1>11. CASE RangeDone(g)
  <2>1. CASE UNCHANGED res
    BY <1>11, <2>1 DEF RangeDone, TypeOK, Phases
  <2>2. ASSUME NEW P \in (SUBSET res[g].pairs) \ {{}},
               res' = [res EXCEPT ![g] = RangeResult(P, TRUE)]
        PROVE  TypeOK'
    <3>1. P \in SUBSET (Keys \X Values)
      BY <1>11, <2>2 DEF RangeDone, TypeOK
    <3>2. RangeResult(P, TRUE) \in Results
      BY <3>1, ResultType
    <3>. QED  BY <1>11, <2>2, <3>2 DEF RangeDone, TypeOK, Phases
  <2>. QED  BY <1>11, <2>1, <2>2 DEF RangeDone
<1>12. CASE NextItem(g)
  <2>1. CASE Perform(g, "Next", contents, NextResult({}))
    BY <1>1, <2>1, ResultType DEF TypeOK
  <2>2. ASSUME NEW k \in Present(contents),
               Perform(g, "Next", Remove(contents, {k}),
                               NextResult({<<k, contents[k]>>}))
        PROVE  TypeOK'
    <3>1. Remove(contents, {k}) \in Contents /\ NextResult({<<k, contents[k]>>}) \in Results
      BY <2>2, ContentsType, ResultType DEF TypeOK
    <3>. QED  BY <1>1, <2>2, <3>1
  <2>. QED  BY <1>12, <2>1, <2>2 DEF NextItem
<1>13. CASE NextPeek(g)
  <2>1. CASE Perform(g, "Next", contents, NextResult({}))
    BY <1>1, <2>1, ResultType DEF TypeOK
  <2>2. ASSUME NEW k \in Present(contents),
               phase' = [phase EXCEPT ![g] = "peeked"],
               res' = [res EXCEPT ![g] = NextResult({<<k, contents[k]>>})],
               UNCHANGED <<contents, call>>
        PROVE  TypeOK'
    <3>1. NextResult({<<k, contents[k]>>}) \in Results
      BY <2>2, ContentsType, ResultType DEF TypeOK
    <3>. QED  BY <2>2, <3>1 DEF TypeOK, Phases
  <2>. QED  BY <1>13, <2>1, <2>2 DEF NextPeek
<1>14. CASE NextDelete(g)
  BY <1>14, ContentsType DEF NextDelete, TypeOK, Phases
<1>. QED
  BY <1>3, <1>4, <1>5, <1>6, <1>7, <1>8, <1>9, <1>10, <1>11, <1>12, <1>13, <1>14
     DEF Effect

-----------------------------------------------------------------------------
\* What a step of the storage for g leaves alone, and what it may do to the
\* contents: only Store puts a value where there was another one, and Store
\* and Delete touch no keys but their own.
EffectShape(g) ==
    /\ \A h \in G \ {g} : phase'[h] = phase[h] /\ call'[h] = call[h] /\ res'[h] = res[h]
    /\ call'[g].op = call[g].op
    /\ call[g].op # "Delete" => call'[g] = call[g]
    /\ call[g].op = "Delete" => call'[g].keys \subseteq call[g].keys
    /\ phase[g] \in {"pending", "ranging", "peeked"}
    /\ \/ phase'[g] = "done"
       \/ phase'[g] = "pending" /\ call[g].op = "Delete" /\ "Delete" \notin Atomic
       \/ phase'[g] = "ranging" /\ call[g].op = "Range"
       \/ phase'[g] = "peeked" /\ call[g].op = "Next"
    /\ (call[g].op = "Load" /\ phase[g] = "pending") =>
           res'[g] = LoadResult(contents[call[g].key]) /\ contents' = contents
    /\ (call[g].op = "Store" /\ phase[g] = "pending") =>
           contents' = Put(contents, call[g].key, call[g].val)
    /\ (call[g].op = "Next" /\ phase[g] = "pending") =>
           res'[g].taken \in SUBSET (Keys \X Values)
    /\ phase[g] = "peeked" => res'[g] = res[g]
    /\ \A k \in Keys :
           \/ contents'[k] \in {contents[k], Absent}
           \/ call[g].op = "Store" /\ phase[g] = "pending" /\ k = call[g].key
    /\ \A k \in Keys : contents'[k] # contents[k] =>
           \/ call[g].op = "Store" /\ k = call[g].key
           \/ call[g].op = "Delete" /\ k \in call[g].keys
           \/ call[g].op \in {"Clear", "Next"} \/ phase[g] = "peeked"

\* Every effect of a call is of this shape.
LEMMA EffectFrame ==
    ASSUME TypeOK, NEW g \in G, Effect(g)
    PROVE  EffectShape(g)
<1>0. \A S : \A k \in Keys : /\ Remove(contents, S)[k] \in {contents[k], Absent}
                             /\ Remove(contents, S)[k] # contents[k] => k \in S
  BY DEF Remove
<1>1. ASSUME NEW op, NEW after, NEW r, Perform(g, op, after, r),
             op # "Load", op # "Store",
             op = "Next" => r.taken \in SUBSET (Keys \X Values),
             \A k \in Keys : /\ after[k] \in {contents[k], Absent}
                             /\ after[k] # contents[k] =>
                                  \/ op = "Delete" /\ k \in call[g].keys
                                  \/ op \in {"Clear", "Next"}
      PROVE  EffectShape(g)
  BY <1>1 DEF Perform, TypeOK, EffectShape
<1>3. CASE Load(g)
  BY <1>3 DEF Load, Perform, TypeOK, EffectShape
<1>4. CASE Store(g)
  BY <1>4 DEF Store, Perform, TypeOK, Put, Contents, EffectShape
<1>5. CASE Clear(g) \/ Close(g)
  BY <1>1, <1>5, \A k \in Keys : Empty[k] = Absent DEF Clear, Close, Empty
<1>6. CASE KeysOf(g)
  BY <1>1, <1>6 DEF KeysOf
<1>7. CASE Delete(g)
  BY <1>0, <1>1, <1>7 DEF Delete
<1>8. CASE DeleteKey(g)
  <2>1. call[g] \in Calls /\ call[g].op = "Delete" /\ phase[g] = "pending"
    BY <1>8 DEF DeleteKey, TypeOK, NoCall
  <2>2. PICK k \in call[g].keys : /\ contents' = Remove(contents, {k})
                                  /\ call' = [call EXCEPT ![g].keys = @ \ {k}]
    BY <1>8 DEF DeleteKey
  <2>3. call'[g].op = "Delete" /\ \A h \in G \ {g} : call'[h] = call[h]
    BY <2>1, <2>2 DEF TypeOK, Calls
  <2>4. UNCHANGED <<phase, res>>
    BY <1>8 DEF DeleteKey
  <2>5. \A j \in Keys : /\ contents'[j] \in {contents[j], Absent}
                        /\ contents'[j] # contents[j] => j \in call[g].keys
    BY <2>2 DEF Remove
  <2>6. call'[g].keys \subseteq call[g].keys /\ "Delete" \notin Atomic
    BY <1>8, <2>1, <2>2 DEF DeleteKey, TypeOK, Calls
  <2>. QED  BY <2>1, <2>3, <2>4, <2>5, <2>6 DEF EffectShape
<1>9. CASE LenOf(g)
  BY <1>1, <1>9 DEF LenOf
<1>10. CASE RangeSnapshot(g)
  BY <1>10 DEF RangeSnapshot, TypeOK, EffectShape
<1>11. CASE RangeDone(g)
  <2>1. \A h \in G \ {g} : res'[h] = res[h]
    BY <1>11 DEF RangeDone, TypeOK
  <2>. QED  BY <1>11, <2>1 DEF RangeDone, TypeOK, EffectShape
<1>12. CASE NextItem(g)
  <2>1. CASE Perform(g, "Next", contents, NextResult({}))
    BY <1>1, <2>1 DEF NextResult
  <2>2. ASSUME NEW k \in Present(contents),
               Perform(g, "Next", Remove(contents, {k}),
                               NextResult({<<k, contents[k]>>}))
        PROVE  EffectShape(g)
    <3>1. NextResult({<<k, contents[k]>>}).taken \in SUBSET (Keys \X Values)
      BY <2>2, ContentsType DEF TypeOK, NextResult
    <3>. QED  BY <1>0, <1>1, <2>2, <3>1
  <2>. QED  BY <1>12, <2>1, <2>2 DEF NextItem
<1>13. CASE NextPeek(g)
  <2>1. CASE Perform(g, "Next", contents, NextResult({}))
    BY <1>1, <2>1 DEF NextResult
  <2>2. ASSUME NEW k \in Present(contents),
               phase[g] = "pending", call[g].op = "Next",
               phase' = [phase EXCEPT ![g] = "peeked"],
               res' = [res EXCEPT ![g] = NextResult({<<k, contents[k]>>})],
               UNCHANGED <<contents, call>>
        PROVE  EffectShape(g)
    <3>1. NextResult({<<k, contents[k]>>}).taken \in SUBSET (Keys \X Values)
      BY <2>2, ContentsType DEF TypeOK, NextResult
    <3>. QED  BY <2>2, <3>1 DEF TypeOK, EffectShape
  <2>. QED  BY <1>13, <2>1, <2>2 DEF NextPeek
<1>14. CASE NextDelete(g)
  BY <1>0, <1>14 DEF NextDelete, TypeOK, EffectShape
<1>. QED
  BY <1>3, <1>4, <1>5, <1>6, <1>7, <1>8, <1>9, <1>10, <1>11, <1>12, <1>13, <1>14
     DEF Effect

-----------------------------------------------------------------------------
\* The contract is type correct, whatever the storage makes atomic: every
\* caller gets a result, and the store holds values and nothing else.
THEOREM ContractTypeCorrect == Spec => []TypeOK
<1>1. Init => TypeOK
  BY ResultType DEF Init, TypeOK, Phases
<1>2. ASSUME TypeOK, [Next]_cvars PROVE TypeOK'
  <2>1. ASSUME NEW g \in G, LenWeak(g) PROVE TypeOK'
    <3>1. LenResult(res'[g].len) \in Results
      BY <2>1, ResultType DEF LenWeak
    <3>2. PICK r \in Results : Perform(g, "Len", contents, r)
      BY <2>1, <3>1 DEF LenWeak
    <3>. QED  BY <1>2, <3>2 DEF Perform, TypeOK, Phases
  <2>2. CASE UNCHANGED cvars
    BY <1>2, <2>2 DEF cvars, TypeOK
  <2>. QED
    BY <1>2, <2>1, <2>2, StorageInvokeType, StorageEffectType, StorageReturnType DEF Next
<1>. QED  BY <1>1, <1>2, PTL DEF Spec
=============================================================================
