------------------------ MODULE BadgerStorageProofs -------------------------
(***************************************************************************)
(* Proofs about BadgerStorage, for any number of goroutines, keys and      *)
(* values: its types, that the counter beside the database is put wrong by *)
(* no interleaving but the three that Disturbance lists, and that it       *)
(* implements FaultyContract.                                              *)
(***************************************************************************)
EXTENDS BadgerStorage, FiniteSetTheorems, TLAPS

-----------------------------------------------------------------------------
\* The contents, calls and results of StorageInterface.

\* What Put, Remove and Empty return are contents, and the pairs of contents
\* are pairs of a key and a value.
LEMMA ContentsType ==
    /\ Empty \in Contents
    /\ \A d \in Contents, k \in Keys, v \in Values : Put(d, k, v) \in Contents
    /\ \A d \in Contents : \A S : Remove(d, S) \in Contents
    /\ \A d \in Contents : Pairs(d) \in SUBSET (Keys \X Values)
    /\ \A d \in Contents : \A k \in Present(d) : k \in Keys /\ d[k] \in Values
BY DEF Empty, Contents, Put, Remove, Pairs, Present

\* The number of keys of a store is a natural number.
LEMMA CountType == \A d \in Contents : Cardinality(Present(d)) \in Nat
<1>1. TAKE d \in Contents
<1>2. IsFiniteSet(Present(d))
  BY KeysFinite, FS_Subset, Present(d) \subseteq Keys DEF Present
<1>. QED  BY <1>2, FS_CardinalityType

\* The arguments of the calls.
LEMMA CallType ==
    \A c \in Calls :
        /\ c.op \in OpNames
        /\ c.op \in {"Load", "Store"} => c.key \in Keys
        /\ c.op = "Store" => c.val \in Values
        /\ c.op = "Delete" => /\ c.keys \in SUBSET Keys
                              /\ \A S \in SUBSET Keys : [c EXCEPT !.keys = S] \in Calls
BY DEF Calls, OpNames

\* The results of the operations are results.
LEMMA ResultType ==
    /\ NoResult \in Results
    /\ \A v \in Values \cup {Absent} : LoadResult(v) \in Results
    /\ \A S \in SUBSET Keys : KeysResult(S) \in Results
    /\ \A n \in Int : LenResult(n) \in Results
    /\ \A P \in SUBSET (Keys \X Values), b \in BOOLEAN : RangeResult(P, b) \in Results
    /\ \A P \in SUBSET (Keys \X Values) : NextResult(P) \in Results
BY DEF Results, NoResult, LoadResult, KeysResult, LenResult, RangeResult, NextResult

-----------------------------------------------------------------------------
\* Where a goroutine is tells which operation it is in.
OpsAt(l) ==
    CASE l = "idle" -> {"none"}
      [] l = "added" -> {"Store"}
      [] l \in {"Delete", "found", "deleted"} -> {"Delete", "Next"}
      [] l = "iterating" -> {"Range"}
      [] l \in {"leninit", "lencount", "lenstore", "lenload"} -> {"Len"}
      [] l \in {"dropping", "dropped"} -> {"Clear"}
      [] l = "panic" -> OpNames \ {"Load", "Close"}
      [] l = "done" -> OpNames
      [] OTHER -> {l}
Places == \A g \in G : call[g].op \in OpsAt(pc[g])

\* The call of a goroutine that is in one.
LEMMA CallAt ==
    ASSUME TypeOK, Places, NEW g \in G, pc[g] # "idle"
    PROVE  /\ call[g] \in Calls
           /\ pc[g] \in OpNames \ {"Delete"} => call[g].op = pc[g]
           /\ pc[g] \in {"Load", "Store"} => call[g].key \in Keys
           /\ pc[g] = "Store" => call[g].val \in Values
<1>1. call[g].op \in OpsAt(pc[g]) /\ pc[g] \in Pcs
  BY DEF TypeOK, Places
<1>2. OpsAt(pc[g]) \subseteq OpNames
  BY <1>1 DEF OpsAt, Pcs, OpNames
<1>3. call[g] \in Calls
  BY <1>1, <1>2 DEF TypeOK, NoCall, OpNames
<1>4. pc[g] \in OpNames \ {"Delete"} => call[g].op = pc[g]
  BY <1>1 DEF OpsAt, OpNames
<1>. QED  BY <1>3, <1>4, CallType DEF OpNames

\* The places are kept by every step.
LEMMA PlacesStep ==
    ASSUME TypeOK, Places, NEW g \in G,
           (\E c \in Calls : Invoke(g, c)) \/ Step(g)
    PROVE  Places'
<1>1. ASSUME NEW l, pc' = [pc EXCEPT ![g] = l], call' = call, call[g].op \in OpsAt(l)
      PROVE  Places'
  BY <1>1 DEF TypeOK, Places
<1>2. ASSUME NEW l, NEW c, pc' = [pc EXCEPT ![g] = l], call' = [call EXCEPT ![g] = c],
             c.op \in OpsAt(l)
      PROVE  Places'
  BY <1>2 DEF TypeOK, Places
<1>3. call[g].op \in OpsAt(pc[g])
  BY DEF Places
<1>4. \A o \in OpNames : o \in OpsAt(o) /\ o \in OpsAt("done")
  BY DEF OpsAt, OpNames
<1>5. pc[g] # "idle" => call[g].op \in OpsAt("done")
  BY <1>4, CallAt, CallType
<1>. USE DEF Goto, Finish
<1>6. ASSUME NEW c \in Calls, Invoke(g, c) PROVE Places'
  BY <1>2, <1>4, <1>6, CallType DEF Invoke
<1>7. CASE pc[g] # "idle" /\ call' = call /\ pc' = [pc EXCEPT ![g] = "done"]
  BY <1>1, <1>5, <1>7
<1>8. CASE UNCHANGED <<pc, call>>
  BY <1>8 DEF Places
<1>9. CASE Load(g) \/ KeysOf(g) \/ RangeEnd(g) \/ StoreAdd(g)
  BY <1>7, <1>9 DEF Load, KeysOf, RangeEnd, StoreAdd
<1>10. CASE RangeVisit(g)
  BY <1>7, <1>8, <1>10 DEF RangeVisit
<1>11. CASE DeleteEnd(g) \/ LenLoad(g) \/ ClearLen(g) \/ Close(g)
  BY <1>7, <1>11 DEF DeleteEnd, LenLoad, ClearLen, Close
<1>12. CASE RangeBegin(g) \/ StoreSet(g)
  <2>1. call[g].op = pc[g]
    BY <1>12, CallAt DEF RangeBegin, StoreSet, OpNames
  <2>2. "Range" \in OpsAt("iterating") /\ "Store" \in OpsAt("added")
    BY DEF OpsAt
  <2>. QED  BY <1>1, <1>12, <2>1, <2>2 DEF RangeBegin, StoreSet
<1>13. CASE DeleteLoad(g) \/ DeleteTxn(g) \/ DeleteSub(g)
  <2>1. OpsAt("found") = OpsAt("Delete") /\ OpsAt("deleted") = OpsAt("Delete")
    BY DEF OpsAt
  <2>2. CASE DeleteLoad(g)
    BY <1>1, <1>3, <1>8, <2>1, <2>2 DEF DeleteLoad
  <2>3. CASE DeleteTxn(g) \/ DeleteSub(g)
    BY <1>1, <1>3, <2>1, <2>3 DEF DeleteTxn, DeleteSub
  <2>. QED  BY <1>13, <2>2, <2>3
<1>14. CASE NextPeek(g)
  <2>1. pc[g] = "Next" /\ call[g].op = "Next" /\ "Next" \in OpsAt("Delete")
    BY <1>14, CallAt DEF NextPeek, OpsAt, OpNames
  <2>. QED  BY <1>1, <1>7, <1>14, <2>1 DEF NextPeek
<1>15. CASE LenCheck(g) \/ LenInit(g) \/ LenCount(g) \/ LenStore(g)
  <2>1. /\ pc[g] \in {"Len", "leninit", "lencount", "lenstore"} /\ call' = call
        /\ \E l \in {"leninit", "lencount", "lenstore", "lenload"} : pc' = [pc EXCEPT ![g] = l]
    BY <1>15 DEF LenCheck, LenInit, LenCount, LenStore
  <2>2. call[g].op = "Len"
    BY <1>3, <2>1 DEF OpsAt
  <2>3. \A l \in {"leninit", "lencount", "lenstore", "lenload"} : "Len" \in OpsAt(l)
    BY DEF OpsAt
  <2>. QED  BY <1>1, <2>1, <2>2, <2>3
<1>16. CASE DropBegin(g) \/ DropEnd(g)
  <2>1. /\ pc[g] \in {"Clear", "dropping"} /\ call' = call
        /\ \E l \in {"dropping", "dropped"} : pc' = [pc EXCEPT ![g] = l]
    BY <1>16 DEF DropBegin, DropEnd
  <2>2. call[g].op = "Clear"
    BY <1>3, <2>1 DEF OpsAt
  <2>3. "Clear" \in OpsAt("dropping") /\ "Clear" \in OpsAt("dropped")
    BY DEF OpsAt
  <2>. QED  BY <1>1, <2>1, <2>2, <2>3
<1>17. CASE Panics(g)
  <2>1. /\ pc[g] \in {"Store", "found", "Clear", "Range", "Keys", "lencount", "Next"}
        /\ pc' = [pc EXCEPT ![g] = "panic"] /\ call' = call
    BY <1>17 DEF Panics
  <2>2. call[g].op \in OpsAt("panic")
    BY <1>3, <2>1 DEF OpsAt, OpNames
  <2>. QED  BY <1>1, <2>1, <2>2
<1>18. CASE Return(g)
  <2>1. NoCall.op \in OpsAt("idle")
    BY DEF NoCall, OpsAt
  <2>. QED  BY <1>2, <1>18, <2>1 DEF Return
<1>. QED
  BY <1>6, <1>9, <1>10, <1>11, <1>12, <1>13, <1>14, <1>15, <1>16, <1>17, <1>18 DEF Step

\* The types are kept by a call and by every step of a method.
LEMMA TypeStep ==
    ASSUME TypeOK, Places, NEW g \in G, clean' \in BOOLEAN,
           (\E c \in Calls : Invoke(g, c)) \/ Step(g)
    PROVE  TypeOK'
<1>. USE DEF TypeOK, Goto, Finish, dbvars, lenvars, local, Pcs
<1>1. ASSUME NEW c \in Calls, Invoke(g, c) PROVE TypeOK'
  <2>1. c.op \in Pcs /\ (c.op = "Delete" => c.keys \in SUBSET Keys)
    BY CallType DEF OpNames
  <2>. QED  BY <1>1, <2>1 DEF Invoke
<1>2. CASE Load(g)
  <2>1. LoadResult(IF open THEN db[call[g].key] ELSE Absent) \in Results
    BY <1>2, CallAt, ResultType DEF Load, Contents
  <2>. QED  BY <1>2, <2>1 DEF Load
<1>3. CASE KeysOf(g)
  <2>1. KeysResult(Present(db)) \in Results
    BY Present(db) \in SUBSET Keys, ResultType DEF Present
  <2>. QED  BY <1>3, <2>1 DEF KeysOf
<1>4. CASE RangeBegin(g)
  BY <1>4 DEF RangeBegin
<1>5. CASE RangeVisit(g)
  <2>1. PICK p \in Pairs(snap[g]) :
            /\ visited' = [visited EXCEPT ![g] = @ \cup {p}]
            /\ \/ UNCHANGED <<pc, call, res, snap>>
               \/ /\ Finish(g, RangeResult(visited'[g], TRUE))
                  /\ snap' = [snap EXCEPT ![g] = Empty]
    BY <1>5 DEF RangeVisit
  <2>2. p \in Keys \X Values
    BY ContentsType
  <2>3. visited' \in [G -> SUBSET (Keys \X Values)]
    BY <2>1, <2>2
  <2>4. RangeResult(visited'[g], TRUE) \in Results
    BY <2>3, ResultType
  <2>5. CASE UNCHANGED <<pc, call, res, snap>>
    BY <1>5, <2>3, <2>5 DEF RangeVisit
  <2>6. CASE /\ Finish(g, RangeResult(visited'[g], TRUE))
             /\ snap' = [snap EXCEPT ![g] = Empty]
    BY <1>5, <2>3, <2>4, <2>6, ContentsType DEF RangeVisit
  <2>. QED  BY <2>1, <2>5, <2>6
<1>6. CASE RangeEnd(g)
  <2>1. RangeResult(visited[g], FALSE) \in Results
    BY ResultType
  <2>. QED  BY <1>6, <2>1, ContentsType DEF RangeEnd
<1>7. CASE StoreSet(g)
  <2>1. Put(db, call[g].key, call[g].val) \in Contents
    BY <1>7, CallAt, ContentsType DEF StoreSet
  <2>. QED  BY <1>7, <2>1 DEF StoreSet
<1>8. CASE StoreAdd(g)
  BY <1>8, ResultType DEF StoreAdd
<1>9. CASE DeleteLoad(g)
  BY <1>9 DEF DeleteLoad
<1>10. CASE DeleteTxn(g)
  BY <1>10, ContentsType DEF DeleteTxn
<1>11. CASE DeleteSub(g) \/ DeleteEnd(g)
  BY <1>11 DEF DeleteSub, DeleteEnd
<1>12. CASE NextPeek(g)
  <2>1. CASE Finish(g, NextResult({})) /\ UNCHANGED todo
    BY <1>12, <2>1, ResultType DEF NextPeek
  <2>2. ASSUME NEW k \in Present(db),
               res' = [res EXCEPT ![g] = NextResult({<<k, db[k]>>})],
               todo' = [todo EXCEPT ![g] = {k}], Goto(g, "Delete"), UNCHANGED call
        PROVE  TypeOK'
    <3>1. k \in Keys /\ NextResult({<<k, db[k]>>}) \in Results
      BY ContentsType, ResultType
    <3>. QED  BY <1>12, <2>2, <3>1 DEF NextPeek
  <2>. QED  BY <1>12, <2>1, <2>2 DEF NextPeek
<1>13. CASE LenCheck(g) \/ LenInit(g)
  BY <1>13 DEF LenCheck, LenInit
<1>14. CASE LenCount(g)
  BY <1>14, CountType DEF LenCount
<1>15. CASE LenStore(g)
  BY <1>15 DEF LenStore
<1>16. CASE LenLoad(g)
  BY <1>16, ResultType DEF LenLoad
<1>17. CASE DropBegin(g) \/ DropEnd(g)
  BY <1>17, ContentsType DEF DropBegin, DropEnd
<1>18. CASE ClearLen(g)
  BY <1>18, ResultType DEF ClearLen
<1>21. CASE Close(g)
  <2>1. open' \in BOOLEAN
    BY <1>21 DEF Close
  <2>. QED  BY <1>21, <2>1, ResultType DEF Close
<1>19. CASE Panics(g)
  BY <1>19 DEF Panics
<1>20. CASE Return(g)
  BY <1>20, ResultType DEF Return
<1>. QED
  BY <1>1, <1>2, <1>3, <1>4, <1>5, <1>6, <1>7, <1>8, <1>9, <1>10, <1>11, <1>12, <1>13,
     <1>14, <1>15, <1>16, <1>17, <1>18, <1>19, <1>20, <1>21 DEF Step

\* The store starts in its types and places.
LEMMA TypeInit == Init => TypeOK /\ Places
<1>. SUFFICES ASSUME Init PROVE TypeOK /\ Places
  OBVIOUS
<1>1. Places
  BY DEF Init, Places, OpsAt, NoCall
<1>2. res \in [G -> Results] /\ snap \in [G -> Contents]
  BY ContentsType, ResultType DEF Init
<1>3. pc \in [G -> Pcs] /\ call \in [G -> Calls \cup {NoCall}]
  BY DEF Init, Pcs
<1>4. /\ visited \in [G -> SUBSET (Keys \X Values)] /\ todo \in [G -> SUBSET Keys]
      /\ cur \in [G -> SUBSET Keys] /\ cnt \in [G -> Nat]
  BY DEF Init
<1>5. open \in BOOLEAN /\ blocked \in BOOLEAN /\ initLenCall \in BOOLEAN /\ clean \in BOOLEAN
  BY DEF Init
<1>6. db \in Contents /\ len \in Int
  BY DEF Init
<1>. QED  BY <1>1, <1>2, <1>3, <1>4, <1>5, <1>6 DEF TypeOK

\* What is common to the steps of the invariants: a step is a goroutine's, or
\* nothing changes.
LEMMA TypePlacesStep ==
    ASSUME TypeOK, Places, [Next]_vars
    PROVE  TypeOK' /\ Places'
<1>1. CASE Next
  BY <1>1, TypeStep, PlacesStep DEF Next
<1>2. CASE UNCHANGED vars
  BY <1>2 DEF vars, TypeOK, Places
<1>. QED  BY <1>1, <1>2

\* Every state has the types that the declarations of the store promise.
THEOREM TypeCorrect == Spec => []TypeOK
BY TypeInit, TypePlacesStep, PTL DEF Spec

-----------------------------------------------------------------------------
\* The counter.

\* The key that a Delete has found.
FoundOne == \A g \in G : pc[g] = "found" => \E k \in Keys : cur[g] = {k}

\* What a Len or a Clear is going to set the counter to is right, because no
\* write is being made meanwhile.
SettingRight ==
    clean => /\ ~Overlap
             /\ \A g \in G : /\ pc[g] = "lenstore" => cnt[g] = Cardinality(Present(db))
                             /\ pc[g] = "dropped" => Present(db) = {}

CountInv ==
    /\ TypeOK /\ Places /\ FoundOne
    /\ IsFiniteSet(Adding) /\ IsFiniteSet(Subtracting)
    /\ SettingRight /\ LenCountsKeys

\* What a step of g may do to the database and to the counter.
StepShape(g) ==
    /\ pc' = [pc EXCEPT ![g] = pc'[g]]
    /\ \A h \in G \ {g} : call'[h] = call[h] /\ cur'[h] = cur[h] /\ cnt'[h] = cnt[h]
    /\ pc'[g] = "found" => \E k \in Keys : cur'[g] = {k}
    /\ \/ /\ UNCHANGED <<db, len, initLenCall>>
          /\ pc[g] \notin {"added", "deleted", "dropped", "lenstore"}
          /\ pc'[g] \notin {"added", "deleted", "dropped"}
          /\ pc'[g] = "lenstore" => cnt'[g] = Cardinality(Present(db))
          /\ Unsettled(g) => Unsettled(g)'
       \/ StoreSet(g) \/ StoreAdd(g) \/ DeleteTxn(g) \/ DeleteSub(g)
       \/ LenInit(g) \/ LenStore(g) \/ DropEnd(g) \/ ClearLen(g)

\* Every step of a goroutine is of this shape.
LEMMA StepsShape ==
    ASSUME TypeOK, Places, FoundOne, NEW g \in G,
           (\E c \in Calls : Invoke(g, c)) \/ Step(g)
    PROVE  StepShape(g)
<1>. USE DEF TypeOK, Goto, Finish, dbvars, lenvars, local, StepShape, Unsettled
<1>1. ASSUME NEW c \in Calls, Invoke(g, c) PROVE StepShape(g)
  <2>1. c.op \in OpNames
    BY CallType
  <2>. QED  BY <1>1, <2>1 DEF Invoke, OpNames
<1>2. CASE Load(g) \/ KeysOf(g) \/ RangeBegin(g)
  BY <1>2 DEF Load, KeysOf, RangeBegin
<1>3. CASE RangeVisit(g) \/ RangeEnd(g)
  BY <1>3 DEF RangeVisit, RangeEnd
<1>4. CASE StoreSet(g) \/ StoreAdd(g)
  BY <1>4 DEF StoreSet, StoreAdd
<1>5. CASE DeleteLoad(g)
  BY <1>5 DEF DeleteLoad
<1>6. CASE DeleteTxn(g) \/ DeleteSub(g)
  BY <1>6 DEF DeleteTxn, DeleteSub
<1>7. CASE DeleteEnd(g)
  BY <1>7 DEF DeleteEnd
<1>8. CASE NextPeek(g)
  BY <1>8 DEF NextPeek
<1>9. CASE LenCheck(g) \/ LenCount(g) \/ LenLoad(g)
  BY <1>9 DEF LenCheck, LenCount, LenLoad
<1>10. CASE LenInit(g) \/ LenStore(g)
  BY <1>10 DEF LenInit, LenStore
<1>11. CASE DropBegin(g) \/ Close(g)
  BY <1>11 DEF DropBegin, Close
<1>12. CASE DropEnd(g) \/ ClearLen(g)
  BY <1>12 DEF DropEnd, ClearLen
<1>13. CASE Panics(g)
  <2>1. pc[g] = "lencount" => call[g].op = "Len"
    BY DEF Places, OpsAt
  <2>. QED  BY <1>13, <2>1 DEF Panics
<1>14. CASE Return(g)
  BY <1>14 DEF Return
<1>. QED
  BY <1>1, <1>2, <1>3, <1>4, <1>5, <1>6, <1>7, <1>8, <1>9, <1>10, <1>11, <1>12, <1>13,
     <1>14 DEF Step

\* The numbers of writes that are on their way follow the goroutines.
LEMMA OnTheirWay ==
    ASSUME TypeOK, IsFiniteSet(Adding), IsFiniteSet(Subtracting),
           NEW g \in G, NEW l, pc' = [pc EXCEPT ![g] = l]
    PROVE  /\ IsFiniteSet(Adding') /\ IsFiniteSet(Subtracting')
           /\ Cardinality(Adding) \in Nat /\ Cardinality(Subtracting) \in Nat
           /\ pc[g] # "added" /\ l # "added" => Adding' = Adding
           /\ pc[g] # "added" /\ l = "added" => Cardinality(Adding') = Cardinality(Adding) + 1
           /\ pc[g] = "added" /\ l # "added" => Cardinality(Adding') = Cardinality(Adding) - 1
           /\ pc[g] # "deleted" /\ l # "deleted" => Subtracting' = Subtracting
           /\ pc[g] # "deleted" /\ l = "deleted" =>
                  Cardinality(Subtracting') = Cardinality(Subtracting) + 1
           /\ pc[g] = "deleted" /\ l # "deleted" =>
                  Cardinality(Subtracting') = Cardinality(Subtracting) - 1
<1>1. /\ Adding' = IF l = "added" THEN Adding \cup {g} ELSE Adding \ {g}
      /\ (g \in Adding) <=> (pc[g] = "added")
  BY DEF Adding, TypeOK
<1>2. /\ Subtracting' = IF l = "deleted" THEN Subtracting \cup {g} ELSE Subtracting \ {g}
      /\ (g \in Subtracting) <=> (pc[g] = "deleted")
  BY DEF Subtracting, TypeOK
<1>3. ASSUME NEW S, IsFiniteSet(S)
      PROVE  /\ Cardinality(S) \in Nat
             /\ IsFiniteSet(S \cup {g}) /\ IsFiniteSet(S \ {g})
             /\ g \notin S => Cardinality(S \cup {g}) = Cardinality(S) + 1 /\ S \ {g} = S
             /\ g \in S => Cardinality(S \ {g}) = Cardinality(S) - 1 /\ S \cup {g} = S
  BY <1>3, FS_CardinalityType, FS_AddElement, FS_RemoveElement
<1>4. /\ IsFiniteSet(Adding') /\ Cardinality(Adding) \in Nat
      /\ pc[g] # "added" /\ l # "added" => Adding' = Adding
      /\ pc[g] # "added" /\ l = "added" => Cardinality(Adding') = Cardinality(Adding) + 1
      /\ pc[g] = "added" /\ l # "added" => Cardinality(Adding') = Cardinality(Adding) - 1
  BY <1>1, <1>3
<1>5. /\ IsFiniteSet(Subtracting') /\ Cardinality(Subtracting) \in Nat
      /\ pc[g] # "deleted" /\ l # "deleted" => Subtracting' = Subtracting
      /\ pc[g] # "deleted" /\ l = "deleted" =>
             Cardinality(Subtracting') = Cardinality(Subtracting) + 1
      /\ pc[g] = "deleted" /\ l # "deleted" =>
             Cardinality(Subtracting') = Cardinality(Subtracting) - 1
  BY <1>2, <1>3
<1>. QED  BY <1>4, <1>5

\* A Store of a key that was absent makes one more key, a Delete of one that
\* was present makes one less.
LEMMA KeyCounts ==
    ASSUME NEW d \in Contents, NEW k \in Keys
    PROVE  /\ Cardinality(Present(d)) \in Nat
           /\ \A v \in Values : d[k] = Absent =>
                  Cardinality(Present(Put(d, k, v))) = Cardinality(Present(d)) + 1
           /\ d[k] # Absent =>
                  Cardinality(Present(Remove(d, {k}))) = Cardinality(Present(d)) - 1
<1>1. IsFiniteSet(Present(d))
  BY KeysFinite, FS_Subset, Present(d) \subseteq Keys DEF Present
<1>2. ASSUME NEW v \in Values, d[k] = Absent
      PROVE  Cardinality(Present(Put(d, k, v))) = Cardinality(Present(d)) + 1
  <2>1. Present(Put(d, k, v)) = Present(d) \cup {k} /\ k \notin Present(d)
    BY <1>2, AbsentIsNoValue DEF Present, Put, Contents
  <2>. QED  BY <1>1, <2>1, FS_AddElement
<1>3. ASSUME d[k] # Absent
      PROVE  Cardinality(Present(Remove(d, {k}))) = Cardinality(Present(d)) - 1
  <2>1. Present(Remove(d, {k})) = Present(d) \ {k} /\ k \in Present(d)
    BY <1>3 DEF Present, Remove, Contents
  <2>. QED  BY <1>1, <2>1, FS_RemoveElement
<1>. QED  BY <1>1, <1>2, <1>3, FS_CardinalityType

\* Where the database has changed, the goroutine that changed it is on its way
\* to the counter, or has emptied the database.
LEMMA SettingRightStep ==
    ASSUME CountInv, NEW g \in G, StepShape(g), TypeOK', clean' => clean /\ ~Overlap'
    PROVE  SettingRight'
<1>. SUFFICES ASSUME clean'
              PROVE  \A h \in G :
                        /\ pc'[h] = "lenstore" => cnt'[h] = Cardinality(Present(db'))
                        /\ pc'[h] = "dropped" => Present(db') = {}
  BY DEF SettingRight
<1>1. \A h \in G : /\ pc[h] = "lenstore" => cnt[h] = Cardinality(Present(db))
                   /\ pc[h] = "dropped" => Present(db) = {}
  BY DEF CountInv, SettingRight
<1>2. \A h \in G \ {g} : pc'[h] = pc[h] /\ cnt'[h] = cnt[h]
  BY DEF StepShape, CountInv, TypeOK
<1>3. \A h \in G \ {g} : pc'[h] \in {"lenstore", "dropped"} =>
          /\ pc'[g] \notin {"added", "deleted"}
          /\ pc'[g] = "dropped" => pc'[h] = "dropped"
  BY DEF Overlap, Setting
<1>4. CASE db' = db
  <2>1. pc'[g] = "lenstore" => cnt'[g] = Cardinality(Present(db))
    BY DEF StepShape, StoreSet, StoreAdd, DeleteTxn, DeleteSub, LenInit, LenStore, DropEnd,
           ClearLen, Goto, Finish, CountInv, TypeOK
  <2>2. pc'[g] = "dropped" => Present(db') = {}
    <3>1. pc'[g] = "dropped" => DropEnd(g)
      BY DEF StepShape, StoreSet, StoreAdd, DeleteTxn, DeleteSub, LenInit, LenStore,
             ClearLen, Goto, Finish, CountInv, TypeOK
    <3>. QED  BY <3>1 DEF DropEnd, Empty, Present
  <2>. QED  BY <1>1, <1>2, <1>4, <2>1, <2>2
<1>5. CASE db' # db
  <2>1. pc'[g] \in {"added", "deleted"} \/ (pc'[g] = "dropped" /\ db' = Empty)
    BY <1>5 DEF StepShape, StoreSet, StoreAdd, DeleteTxn, DeleteSub, LenInit, LenStore,
                DropEnd, ClearLen, Goto, Finish, dbvars, CountInv, TypeOK
  <2>2. Present(Empty) = {}
    BY DEF Present, Empty
  <2>. QED  BY <1>3, <2>1, <2>2
<1>. QED  BY <1>4, <1>5

\* The counter follows the database.
LEMMA LenCountsKeysStep ==
    ASSUME CountInv, NEW g \in G, StepShape(g), TypeOK', SettingRight',
           clean' => /\ clean /\ ~Overlap'
                     /\ StoreSet(g) => db[call[g].key] = Absent
                     /\ DeleteTxn(g) => cur[g] \cap Present(db) # {}
    PROVE  LenCountsKeys'
<1>. DEFINE D == Cardinality(Present(db))
            A == Cardinality(Adding)
            S == Cardinality(Subtracting)
<1>. SUFFICES ASSUME clean', initLenCall', \A h \in G : ~Unsettled(h)'
              PROVE  len' = D' - A' + S'
  BY DEF LenCountsKeys
<1>1. pc' = [pc EXCEPT ![g] = pc'[g]] /\ \A h \in G \ {g} : Unsettled(h)' = Unsettled(h)
  BY DEF StepShape, CountInv, TypeOK, Unsettled
<1>2. D \in Nat /\ A \in Nat /\ S \in Nat /\ len \in Int
  BY CountType, FS_CardinalityType DEF CountInv, TypeOK
<1>3. (initLenCall /\ ~Unsettled(g)) => len = D - A + S
  BY <1>1 DEF CountInv, LenCountsKeys
<1>4. /\ pc[g] # "added" /\ pc'[g] # "added" => A' = A
      /\ pc[g] # "added" /\ pc'[g] = "added" => A' = A + 1
      /\ pc[g] = "added" /\ pc'[g] # "added" => A' = A - 1
      /\ pc[g] # "deleted" /\ pc'[g] # "deleted" => S' = S
      /\ pc[g] # "deleted" /\ pc'[g] = "deleted" => S' = S + 1
      /\ pc[g] = "deleted" /\ pc'[g] # "deleted" => S' = S - 1
  BY <1>1, OnTheirWay DEF CountInv
<1>. HIDE DEF D, A, S
<1>5. CASE /\ UNCHANGED <<db, len, initLenCall>>
           /\ pc[g] \notin {"added", "deleted", "dropped", "lenstore"}
           /\ pc'[g] \notin {"added", "deleted", "dropped"}
           /\ Unsettled(g) => Unsettled(g)'
  <2>1. D' = D /\ A' = A /\ S' = S /\ len' = len
    BY <1>4, <1>5 DEF D
  <2>2. len = D - A + S
    BY <1>3, <1>5
  <2>. QED  BY <2>1, <2>2
<1>6. CASE StoreSet(g)
  <2>1. pc[g] = "Store" /\ pc'[g] = "added" /\ len' = len /\ initLenCall' = initLenCall
    BY <1>6 DEF StoreSet, Goto, lenvars, CountInv, TypeOK
  <2>2. call[g].key \in Keys /\ call[g].val \in Values
    BY <2>1, CallAt DEF CountInv
  <2>3. D' = D + 1
    BY <1>6, <2>2, KeyCounts DEF D, StoreSet, CountInv, TypeOK
  <2>4. len = D - A + S
    BY <1>3, <2>1 DEF Unsettled
  <2>. QED  BY <1>2, <1>4, <2>1, <2>3, <2>4
<1>7. CASE StoreAdd(g)
  <2>1. /\ pc[g] = "added" /\ pc'[g] = "done" /\ len' = len + 1
        /\ initLenCall' = initLenCall /\ db' = db
    BY <1>7 DEF StoreAdd, Finish, Goto, dbvars, CountInv, TypeOK
  <2>2. len = D - A + S
    BY <1>3, <2>1 DEF Unsettled
  <2>3. D' = D
    BY <2>1 DEF D
  <2>. QED  BY <1>2, <1>4, <2>1, <2>2, <2>3
<1>8. CASE DeleteTxn(g)
  <2>1. pc[g] = "found" /\ pc'[g] = "deleted" /\ len' = len /\ initLenCall' = initLenCall
    BY <1>8 DEF DeleteTxn, Goto, lenvars, CountInv, TypeOK
  <2>2. PICK k \in Keys : cur[g] = {k}
    BY <2>1 DEF CountInv, FoundOne
  <2>3. db[k] # Absent /\ db' = Remove(db, {k})
    BY <1>8, <2>2 DEF DeleteTxn, Present
  <2>4. D' = D - 1
    BY <2>3, KeyCounts DEF D, CountInv, TypeOK
  <2>5. len = D - A + S
    BY <1>3, <2>1 DEF Unsettled
  <2>. QED  BY <1>2, <1>4, <2>1, <2>4, <2>5
<1>9. CASE DeleteSub(g)
  <2>1. /\ pc[g] = "deleted" /\ pc'[g] = "Delete" /\ len' = len - 1
        /\ initLenCall' = initLenCall /\ db' = db
    BY <1>9 DEF DeleteSub, Goto, dbvars, CountInv, TypeOK
  <2>2. len = D - A + S
    BY <1>3, <2>1 DEF Unsettled
  <2>3. D' = D
    BY <2>1 DEF D
  <2>. QED  BY <1>2, <1>4, <2>1, <2>2, <2>3
<1>10. CASE LenInit(g) \/ DropEnd(g)
  <2>1. pc'[g] \in {"lencount", "dropped"}
    BY <1>10 DEF LenInit, DropEnd, Goto, CountInv, TypeOK
  <2>. QED  BY <2>1 DEF Unsettled
<1>11. CASE LenStore(g) \/ ClearLen(g)
  <2>1. Setting(g) /\ ~Overlap
    BY <1>11 DEF LenStore, ClearLen, Setting, CountInv, SettingRight
  <2>2. \A h \in G \ {g} : pc[h] \notin {"added", "deleted"}
    BY <2>1 DEF Overlap, Setting
  <2>3. Adding = {} /\ Subtracting = {} /\ pc[g] \in {"lenstore", "dropped"}
    BY <2>1, <2>2 DEF Adding, Subtracting, Setting
  <2>4. A = 0 /\ S = 0
    BY <2>3, FS_EmptySet DEF A, S
  <2>5. pc'[g] \in {"lenload", "done"} /\ db' = db
    BY <1>11 DEF LenStore, ClearLen, Finish, Goto, dbvars, CountInv, TypeOK
  <2>6. len' = D
    <3>1. CASE LenStore(g)
      BY <3>1 DEF LenStore, CountInv, SettingRight, D
    <3>2. CASE ClearLen(g)
      <4>1. Present(db) = {} /\ len' = 0
        BY <3>2 DEF ClearLen, CountInv, SettingRight
      <4>. QED  BY <4>1, FS_EmptySet DEF D
    <3>. QED  BY <1>11, <3>1, <3>2
  <2>7. D' = D
    BY <2>5 DEF D
  <2>. QED  BY <1>2, <1>4, <2>3, <2>4, <2>5, <2>6, <2>7
<1>. QED
  BY <1>5, <1>6, <1>7, <1>8, <1>9, <1>10, <1>11 DEF StepShape

\* The invariant of the counter is kept by every step.
LEMMA CountInvStep ==
    ASSUME CountInv, [Next]_vars
    PROVE  CountInv'
<1>1. ASSUME NEW g \in G, (\E c \in Calls : Invoke(g, c)) \/ Step(g),
             clean' = (clean /\ ~Disturbance), TypeOK', Places'
      PROVE  CountInv'
  <2>1. StepShape(g)
    BY <1>1, StepsShape DEF CountInv
  <2>2. FoundOne'
    BY <2>1 DEF FoundOne, StepShape, CountInv, TypeOK
  <2>3. IsFiniteSet(Adding)' /\ IsFiniteSet(Subtracting)'
    BY <2>1, OnTheirWay DEF StepShape, CountInv
  <2>4. clean' => /\ clean /\ ~Overlap'
                  /\ StoreSet(g) => db[call[g].key] = Absent
                  /\ DeleteTxn(g) => cur[g] \cap Present(db) # {}
    BY <1>1 DEF Disturbance
  <2>5. SettingRight'
    BY <1>1, <2>1, <2>4, SettingRightStep
  <2>6. LenCountsKeys'
    BY <1>1, <2>1, <2>4, <2>5, LenCountsKeysStep
  <2>. QED  BY <1>1, <2>2, <2>3, <2>5, <2>6 DEF CountInv
<1>2. TypeOK' /\ Places'
  BY TypePlacesStep DEF CountInv
<1>3. CASE UNCHANGED vars
  BY <1>3 DEF vars, CountInv, TypeOK, Places, FoundOne, Adding, Subtracting, SettingRight,
              Overlap, Setting, LenCountsKeys, Unsettled
<1>. QED  BY <1>1, <1>2, <1>3 DEF Next

\* c.len is the number of keys of the database, up to the updates that are on
\* their way, once the first Len has set it and as long as none of the three
\* Disturbances has happened: whatever else goroutines interleave, panics and
\* Close included, no update is lost and none is made twice.
THEOREM LenIsRight == Spec => []LenCountsKeys
<1>1. Init => CountInv
  <2>. SUFFICES ASSUME Init PROVE CountInv
    OBVIOUS
  <2>1. Adding = {} /\ Subtracting = {}
    BY DEF Init, Adding, Subtracting
  <2>2. FoundOne /\ SettingRight /\ LenCountsKeys
    BY DEF Init, FoundOne, SettingRight, Overlap, Setting, LenCountsKeys
  <2>. QED  BY <2>1, <2>2, TypeInit, FS_EmptySet DEF CountInv
<1>2. CountInv => LenCountsKeys
  BY DEF CountInv
<1>. QED  BY <1>1, <1>2, CountInvStep, PTL DEF Spec

-----------------------------------------------------------------------------
\* The Badger storage implements FaultyContract.

\* The contract is about the same contents, calls and results.
LEMMA ContractWords ==
    /\ Contract!Contents = Contents /\ Contract!Empty = Empty
    /\ Contract!Calls = Calls /\ Contract!NoCall = NoCall /\ Contract!NoResult = NoResult
    /\ \A d : Contract!Present(d) = Present(d) /\ Contract!Pairs(d) = Pairs(d)
    /\ \A d, k, v : Contract!Put(d, k, v) = Put(d, k, v)
    /\ \A d, S : Contract!Remove(d, S) = Remove(d, S)
    /\ \A v : Contract!LoadResult(v) = LoadResult(v) /\ Contract!KeysResult(v) = KeysResult(v)
    /\ \A v : Contract!LenResult(v) = LenResult(v) /\ Contract!NextResult(v) = NextResult(v)
    /\ \A P, b : Contract!RangeResult(P, b) = RangeResult(P, b)
    /\ \A S : Contract!Cardinality(S) = Cardinality(S)
BY DEF Contract!Contents, Contents, Contract!Empty, Empty, Contract!Calls, Calls,
       Contract!NoCall, NoCall, Contract!NoResult, NoResult, Contract!Present, Present,
       Contract!Pairs, Pairs, Contract!Put, Put, Contract!Remove, Remove,
       Contract!LoadResult, LoadResult, Contract!KeysResult, KeysResult,
       Contract!LenResult, LenResult, Contract!NextResult, NextResult,
       Contract!RangeResult, RangeResult, Contract!Cardinality, Cardinality

\* What a Delete, or the Delete in a Next, has yet to remove: the keys it will
\* look at and the one it has found, which for Next is the key it returns.
Doomed(g) ==
    /\ pc[g] \notin {"Delete", "found", "deleted", "panic"} => todo[g] = {}
    /\ pc[g] \notin {"found", "panic"} => cur[g] = {}
    /\ pc[g] = "found" => \E k \in Keys \ todo[g] : cur[g] = {k}
    /\ (pc[g] \in {"Delete", "found", "deleted"} /\ call[g].op = "Next") =>
           \E p \in Keys \X Values : res[g] = NextResult({p}) /\ ToRemove(g) \subseteq {p[1]}

\* There is a result only at the end, or when Next has found a pair.
Unanswered(g) ==
    \/ pc[g] \in {"done", "panic"} \/ res[g] = NoResult
    \/ pc[g] \in {"Delete", "found", "deleted"} /\ call[g].op = "Next"

\* What a Range has shown are pairs of its snapshot.
Shown(g) ==
    /\ pc[g] \notin {"iterating", "done"} => visited[g] = {}
    /\ pc[g] = "iterating" => visited[g] \subseteq Pairs(snap[g])

RefinementInv ==
    /\ TypeOK /\ Places
    /\ \A g \in G : Doomed(g) /\ Unanswered(g) /\ Shown(g)

\* A step of g moves no other goroutine.
OthersStay(g) ==
    \A h \in G \ {g} :
        /\ pc'[h] = pc[h] /\ call'[h] = call[h] /\ res'[h] = res[h] /\ visited'[h] = visited[h]
        /\ todo'[h] = todo[h] /\ cur'[h] = cur[h] /\ snap'[h] = snap[h]

\* That is so of every step.
LEMMA StepsStay ==
    ASSUME TypeOK, NEW g \in G, (\E c \in Calls : Invoke(g, c)) \/ Step(g)
    PROVE  OthersStay(g)
<1>. USE DEF TypeOK, Goto, Finish, local, OthersStay
<1>1. ASSUME NEW c \in Calls, Invoke(g, c) PROVE OthersStay(g)
  BY <1>1 DEF Invoke
<1>2. CASE Load(g) \/ KeysOf(g) \/ RangeBegin(g)
  BY <1>2 DEF Load, KeysOf, RangeBegin
<1>3. CASE RangeVisit(g) \/ RangeEnd(g)
  BY <1>3 DEF RangeVisit, RangeEnd
<1>4. CASE StoreSet(g) \/ StoreAdd(g)
  BY <1>4 DEF StoreSet, StoreAdd
<1>5. CASE DeleteLoad(g) \/ DeleteTxn(g)
  BY <1>5 DEF DeleteLoad, DeleteTxn
<1>6. CASE DeleteSub(g) \/ DeleteEnd(g)
  BY <1>6 DEF DeleteSub, DeleteEnd
<1>7. CASE NextPeek(g)
  BY <1>7 DEF NextPeek
<1>8. CASE LenCheck(g) \/ LenInit(g) \/ LenCount(g)
  BY <1>8 DEF LenCheck, LenInit, LenCount
<1>9. CASE LenStore(g) \/ LenLoad(g)
  BY <1>9 DEF LenStore, LenLoad
<1>10. CASE DropBegin(g) \/ DropEnd(g)
  BY <1>10 DEF DropBegin, DropEnd
<1>11. CASE ClearLen(g) \/ Close(g)
  BY <1>11 DEF ClearLen, Close
<1>12. CASE Panics(g) \/ Return(g)
  BY <1>12 DEF Panics, Return
<1>. QED
  BY <1>1, <1>2, <1>3, <1>4, <1>5, <1>6, <1>7, <1>8, <1>9, <1>10, <1>11, <1>12 DEF Step

\* What the contract sees of a step of g, and what the others keep.
LEMMA SeenStep ==
    ASSUME RefinementInv, NEW g \in G, OthersStay(g)
    PROVE  /\ absPhase' = [absPhase EXCEPT ![g] = PhaseOf(g)']
           /\ absCall' = [absCall EXCEPT ![g] = CallOf(g)']
           /\ absRes' = [absRes EXCEPT ![g] = ResOf(g)']
           /\ absPhase[g] = PhaseOf(g) /\ absCall[g] = CallOf(g) /\ absRes[g] = ResOf(g)
           /\ \A h \in G \ {g} : (Doomed(h) /\ Unanswered(h) /\ Shown(h))'
<1>1. \A h \in G \ {g} : ToRemove(h)' = ToRemove(h)
  BY DEF OthersStay, ToRemove
<1>2. \A h \in G \ {g} : Removing(h)' = Removing(h)
  BY <1>1 DEF OthersStay, Removing
<1>3. \A h \in G \ {g} : PhaseOf(h)' = PhaseOf(h)
  BY <1>1, <1>2 DEF OthersStay, PhaseOf
<1>4. \A h \in G \ {g} : CallOf(h)' = CallOf(h)
  BY <1>1 DEF OthersStay, CallOf
<1>5. \A h \in G \ {g} : ResOf(h)' = ResOf(h)
  BY DEF OthersStay, ResOf
<1>6. ASSUME NEW h \in G \ {g} PROVE Doomed(h)'
  <2>1. Doomed(h) /\ ToRemove(h)' = ToRemove(h)
    BY <1>1 DEF RefinementInv
  <2>2. /\ pc'[h] = pc[h] /\ call'[h] = call[h] /\ res'[h] = res[h]
        /\ todo'[h] = todo[h] /\ cur'[h] = cur[h]
    BY DEF OthersStay
  <2>. QED  BY <2>1, <2>2 DEF Doomed
<1>7. \A h \in G \ {g} : Unanswered(h)' /\ Shown(h)'
  BY DEF OthersStay, RefinementInv, Unanswered, Shown
<1>8. absPhase' = [absPhase EXCEPT ![g] = PhaseOf(g)']
  BY <1>3 DEF absPhase
<1>9. absCall' = [absCall EXCEPT ![g] = CallOf(g)']
  BY <1>4 DEF absCall
<1>10. absRes' = [absRes EXCEPT ![g] = ResOf(g)']
  BY <1>5 DEF absRes
<1>. QED  BY <1>6, <1>7, <1>8, <1>9, <1>10 DEF absPhase, absCall, absRes

\* Every step keeps what is known of the goroutine that takes it.
LEMMA OwnPart ==
    ASSUME RefinementInv, NEW g \in G, (\E c \in Calls : Invoke(g, c)) \/ Step(g)
    PROVE  (Doomed(g) /\ Unanswered(g) /\ Shown(g))'
<1>. DEFINE Own == Doomed(g) /\ Unanswered(g) /\ Shown(g)
<1>0. TypeOK /\ Places /\ Own
  BY DEF RefinementInv
<1>. USE <1>0 DEF TypeOK, Goto, Finish, local
<1>1. ASSUME NEW c \in Calls, Invoke(g, c) PROVE Own'
  <2>1. /\ pc[g] = "idle" /\ pc'[g] = c.op /\ call'[g] = c /\ res'[g] = res[g] /\ cur'[g] = cur[g]
        /\ todo'[g] = IF c.op = "Delete" THEN c.keys ELSE {}
        /\ visited'[g] = visited[g]
    BY <1>1 DEF Invoke
  <2>2. c.op \in OpNames
    BY CallType
  <2>. QED  BY <2>1, <2>2 DEF Doomed, Unanswered, Shown, ToRemove, OpNames
<1>2. CASE Load(g) \/ KeysOf(g) \/ LenLoad(g) \/ StoreAdd(g) \/ ClearLen(g) \/ Close(g)
  BY <1>2 DEF Load, KeysOf, LenLoad, StoreAdd, ClearLen, Close, Doomed, Unanswered, Shown
<1>3. CASE RangeBegin(g)
  BY <1>3 DEF RangeBegin, Doomed, Unanswered, Shown
<1>4. CASE RangeVisit(g)
  <2>1. PICK p \in Pairs(snap[g]) :
            /\ visited'[g] = visited[g] \cup {p}
            /\ \/ pc'[g] = pc[g] /\ res'[g] = res[g] /\ snap'[g] = snap[g]
               \/ pc'[g] = "done"
    BY <1>4 DEF RangeVisit
  <2>2. pc[g] = "iterating" /\ todo'[g] = todo[g] /\ cur'[g] = cur[g]
    BY <1>4 DEF RangeVisit
  <2>. QED  BY <2>1, <2>2 DEF Doomed, Unanswered, Shown
<1>5. CASE RangeEnd(g)
  BY <1>5 DEF RangeEnd, Doomed, Unanswered, Shown
<1>6. CASE StoreSet(g) \/ DropBegin(g) \/ DropEnd(g)
  BY <1>6 DEF StoreSet, DropBegin, DropEnd, Doomed, Unanswered, Shown
<1>7. CASE LenCheck(g) \/ LenInit(g)
  BY <1>7 DEF LenCheck, LenInit, Doomed, Unanswered, Shown
<1>8. CASE LenCount(g) \/ LenStore(g)
  BY <1>8 DEF LenCount, LenStore, Doomed, Unanswered, Shown
<1>9. CASE DeleteLoad(g)
  <2>1. PICK k \in todo[g] :
           /\ todo'[g] = todo[g] \ {k}
           /\ \/ pc'[g] = "found" /\ cur'[g] = {k}
              \/ pc'[g] = "Delete" /\ cur'[g] = cur[g]
    BY <1>9 DEF DeleteLoad
  <2>2. /\ pc[g] = "Delete" /\ call'[g] = call[g] /\ res'[g] = res[g] /\ visited'[g] = visited[g]
        /\ k \in Keys
    BY <1>9, <2>1 DEF DeleteLoad
  <2>3. ToRemove(g)' \subseteq ToRemove(g)
    BY <2>1, <2>2 DEF ToRemove
  <2>. QED  BY <2>1, <2>2, <2>3 DEF Doomed, Unanswered, Shown
<1>10. CASE DeleteTxn(g) \/ DeleteSub(g)
  <2>1. /\ pc[g] \in {"found", "deleted"} /\ pc'[g] \in {"deleted", "Delete"} /\ cur'[g] = {}
        /\ call'[g] = call[g] /\ res'[g] = res[g] /\ visited'[g] = visited[g]
        /\ todo'[g] = todo[g]
    BY <1>10 DEF DeleteTxn, DeleteSub, Doomed
  <2>2. ToRemove(g)' \subseteq ToRemove(g)
    BY <2>1 DEF ToRemove
  <2>. QED  BY <2>1, <2>2 DEF Doomed, Unanswered, Shown
<1>11. CASE DeleteEnd(g)
  BY <1>11 DEF DeleteEnd, Doomed, Unanswered, Shown
<1>12. CASE NextPeek(g)
  <2>1. pc[g] = "Next" /\ cur'[g] = cur[g] /\ cur[g] = {} /\ visited'[g] = visited[g]
    BY <1>12 DEF NextPeek, Doomed
  <2>2. CASE pc'[g] = "done" /\ todo'[g] = todo[g]
    BY <2>1, <2>2 DEF Doomed, Unanswered, Shown
  <2>3. ASSUME NEW k \in Present(db), pc'[g] = "Delete", todo'[g] = {k}, call' = call,
               res'[g] = NextResult({<<k, db[k]>>})
        PROVE  Own'
    <3>1. <<k, db[k]>> \in Keys \X Values
      BY ContentsType
    <3>2. ToRemove(g)' = {k} /\ call[g].op = "Next"
      BY <2>1, <2>3, CallAt DEF ToRemove, OpNames
    <3>. QED  BY <2>1, <2>3, <3>1, <3>2 DEF Doomed, Unanswered, Shown
  <2>. QED  BY <1>12, <2>2, <2>3 DEF NextPeek
<1>13. CASE Panics(g)
  BY <1>13 DEF Panics, Doomed, Unanswered, Shown
<1>14. CASE Return(g)
  BY <1>14 DEF Return, Doomed, Unanswered, Shown
<1>. QED
  BY <1>1, <1>2, <1>3, <1>4, <1>5, <1>6, <1>7, <1>8, <1>9, <1>10, <1>11, <1>12, <1>13,
     <1>14 DEF Step

\* The invariant of the refinement is kept by every step.
LEMMA RefinementInvStep ==
    ASSUME RefinementInv, [Next]_vars
    PROVE  RefinementInv'
<1>1. TypeOK' /\ Places'
  BY TypePlacesStep DEF RefinementInv
<1>2. ASSUME NEW g \in G, (\E c \in Calls : Invoke(g, c)) \/ Step(g)
      PROVE  \A h \in G : (Doomed(h) /\ Unanswered(h) /\ Shown(h))'
  <2>1. OthersStay(g)
    BY <1>2, StepsStay DEF RefinementInv
  <2>2. \A h \in G \ {g} : (Doomed(h) /\ Unanswered(h) /\ Shown(h))'
    BY <2>1, SeenStep
  <2>3. (Doomed(g) /\ Unanswered(g) /\ Shown(g))'
    BY <1>2, OwnPart
  <2>. QED  BY <2>2, <2>3
<1>3. CASE UNCHANGED vars
  <2>1. \A h \in G : Doomed(h)' /\ Unanswered(h)' /\ Shown(h)'
    BY <1>3 DEF vars, RefinementInv, Doomed, Unanswered, Shown, ToRemove
  <2>. QED  BY <1>1, <2>1 DEF RefinementInv
<1>. QED  BY <1>1, <1>2, <1>3 DEF Next, RefinementInv

\* A Delete is its keys.
LEMMA DeleteCall ==
    \A c \in Calls : c.op = "Delete" =>
        /\ c = [op |-> "Delete", keys |-> c.keys]
        /\ \A S : [c EXCEPT !.keys = S] = [op |-> "Delete", keys |-> S]
BY DEF Calls

\* What the contract sees of the call of g.
LEMMA CallSeen ==
    ASSUME TypeOK, Places, NEW g \in G
    PROVE  /\ call[g].op # "Delete" => CallOf(g) = call[g]
           /\ call[g].op = "Delete" => CallOf(g) = [op |-> "Delete", keys |-> ToRemove(g)]
           /\ CallOf(g).op = call[g].op
<1>1. call[g].op = "Delete" => call[g] \in Calls
  BY DEF TypeOK, NoCall
<1>2. call[g].op = "Delete" => CallOf(g) = [op |-> "Delete", keys |-> ToRemove(g)]
  BY <1>1, DeleteCall DEF CallOf
<1>. QED  BY <1>2 DEF CallOf

\* A call of the store is a call of the contract.
LEMMA InvokeRefines ==
    ASSUME RefinementInv, RefinementInv', NEW g \in G, NEW c \in Calls, Invoke(g, c)
    PROVE  Contract!FaultyNext
<1>1. OthersStay(g)
  BY StepsStay DEF RefinementInv
<1>2. /\ pc[g] = "idle" /\ pc'[g] = c.op /\ call'[g] = c /\ res'[g] = res[g] /\ cur'[g] = {}
      /\ todo'[g] = (IF c.op = "Delete" THEN c.keys ELSE {}) /\ db' = db /\ open' = open
  BY DEF Invoke, Goto, dbvars, RefinementInv, TypeOK, Doomed
<1>3. c.op \in OpNames
  BY CallType
<1>4. PhaseOf(g) = "idle" /\ PhaseOf(g)' = "pending"
  <2>1. ~Removing(g)'
    BY <1>2 DEF Removing
  <2>2. PhaseOf(g)' = "pending"
    BY <1>2, <1>3, <2>1 DEF PhaseOf, Removing, OpNames
  <2>. QED  BY <1>2, <2>2 DEF PhaseOf, Removing
<1>5. CallOf(g)' = c
  <2>1. c.op = "Delete" => ToRemove(g)' = c.keys /\ c = [op |-> "Delete", keys |-> c.keys]
    BY <1>2, DeleteCall DEF ToRemove
  <2>. QED  BY <1>2, <2>1, DeleteCall DEF CallOf
<1>6. ResOf(g) = res[g] /\ ResOf(g)' = res[g]
  BY <1>2, <1>3 DEF ResOf, OpNames
<1>7. absRes' = absRes
  BY <1>1, <1>6, SeenStep DEF absRes
<1>8. Contract!Invoke(g, c)
  BY <1>1, <1>2, <1>4, <1>5, <1>7, SeenStep DEF Contract!Invoke
<1>. QED  BY <1>2, <1>8, ContractWords DEF Contract!FaultyNext, Contract!Next

\* A step of g is what the contract lets its call do, or nothing to it.
LEMMA StepRefines ==
    ASSUME RefinementInv, RefinementInv', NEW g \in G, Step(g)
    PROVE  [Contract!FaultyNext]_(Contract!fvars)
<1>1. OthersStay(g) /\ TypeOK /\ Places /\ Doomed(g) /\ Unanswered(g) /\ Shown(g)
  BY StepsStay DEF RefinementInv
<1>2. /\ absPhase' = [absPhase EXCEPT ![g] = PhaseOf(g)']
      /\ absCall' = [absCall EXCEPT ![g] = CallOf(g)']
      /\ absRes' = [absRes EXCEPT ![g] = ResOf(g)']
      /\ absPhase[g] = PhaseOf(g) /\ absCall[g] = CallOf(g) /\ absRes[g] = ResOf(g)
  BY <1>1, SeenStep
<1>3. /\ call[g].op # "Delete" => CallOf(g) = call[g]
      /\ call[g].op = "Delete" => CallOf(g) = [op |-> "Delete", keys |-> ToRemove(g)]
      /\ CallOf(g).op = call[g].op
  BY <1>1, CallSeen
<1>4. ASSUME call' = call, ToRemove(g)' = ToRemove(g)
      PROVE  CallOf(g)' = CallOf(g) /\ absCall' = absCall
  <2>1. CallOf(g)' = CallOf(g)
    BY <1>4 DEF CallOf
  <2>. QED  BY <1>2, <2>1 DEF absCall
<1>5. ASSUME db' = db, open' = open, PhaseOf(g)' = PhaseOf(g), absCall' = absCall,
             ResOf(g)' = ResOf(g)
      PROVE  UNCHANGED Contract!fvars
  <2>1. absPhase' = absPhase /\ absRes' = absRes
    BY <1>2, <1>5 DEF absPhase, absRes
  <2>. QED  BY <1>5, <2>1 DEF Contract!fvars
<1>6. ASSUME NEW op, NEW after, NEW r, PhaseOf(g) = "pending", PhaseOf(g)' = "done",
             call[g].op = op, absCall' = absCall, db' = after, ResOf(g)' = r
      PROVE  Contract!Perform(g, op, after, r)
  BY <1>2, <1>3, <1>6 DEF Contract!Perform
<1>7. ASSUME open' = open, Contract!Effect(g) \/ Contract!LenWeak(g) \/ Contract!Return(g)
      PROVE  Contract!FaultyNext
  BY <1>7 DEF Contract!FaultyNext, Contract!Next
<1>8. ASSUME open' = open, ~open, Contract!Fail(g) PROVE Contract!FaultyNext
  BY <1>8 DEF Contract!FaultyNext
<1>9. ASSUME NEW k, call' = call, call[g].op = "Delete", ToRemove(g)' = ToRemove(g) \ {k}
      PROVE  CallOf(g)' = [CallOf(g) EXCEPT !.keys = @ \ {k}]
  <2>1. CallOf(g)' = [op |-> "Delete", keys |-> ToRemove(g)']
    <3>1. call[g] \in Calls
      BY <1>1, <1>9 DEF TypeOK, NoCall
    <3>2. CallOf(g)' = [call[g] EXCEPT !.keys = ToRemove(g)']
      BY <1>9 DEF CallOf
    <3>. QED  BY <1>9, <3>1, <3>2, DeleteCall
  <2>. QED  BY <1>3, <1>9, <2>1
<1>. USE <1>1 DEF TypeOK, Goto, Finish, dbvars, lenvars, local
<1>10. CASE Load(g)
  <2>1. /\ pc[g] = "Load" /\ pc'[g] = "done" /\ call' = call /\ UNCHANGED <<db, open, todo, cur>>
        /\ res'[g] = LoadResult(IF open THEN db[call[g].key] ELSE Absent)
    BY <1>10 DEF Load
  <2>2. call[g].op = "Load" /\ absCall' = absCall
    BY <1>4, <2>1, CallAt DEF OpNames, ToRemove
  <2>3. PhaseOf(g) = "pending" /\ PhaseOf(g)' = "done" /\ ResOf(g)' = res'[g]
    BY <2>1, <2>2 DEF PhaseOf, Removing, ResOf
  <2>4. Contract!Perform(g, "Load", db, res'[g])
    BY <1>6, <2>1, <2>2, <2>3
  <2>5. CASE open
    <3>1. Contract!Load(g)
      BY <1>2, <1>3, <2>1, <2>2, <2>4, <2>5, ContractWords DEF Contract!Load
    <3>. QED  BY <1>7, <2>1, <3>1 DEF Contract!Effect
  <2>6. CASE ~open
    <3>1. Contract!FailAll(g)
      BY <2>1, <2>4, <2>6, ContractWords DEF Contract!FailAll
    <3>. QED  BY <1>8, <2>1, <2>6, <3>1 DEF Contract!Fail
  <2>. QED  BY <2>5, <2>6
<1>11. CASE KeysOf(g)
  <2>1. /\ pc[g] = "Keys" /\ pc'[g] = "done" /\ call' = call /\ UNCHANGED <<db, open, todo, cur>>
        /\ res'[g] = KeysResult(Present(db))
    BY <1>11 DEF KeysOf
  <2>2. call[g].op = "Keys" /\ absCall' = absCall
    BY <1>4, <2>1, CallAt DEF OpNames, ToRemove
  <2>3. PhaseOf(g) = "pending" /\ PhaseOf(g)' = "done" /\ ResOf(g)' = res'[g]
    BY <2>1, <2>2 DEF PhaseOf, Removing, ResOf
  <2>4. Contract!KeysOf(g)
    BY <1>6, <2>1, <2>2, <2>3, ContractWords DEF Contract!KeysOf
  <2>. QED  BY <1>7, <2>1, <2>4 DEF Contract!Effect
<1>12. CASE RangeBegin(g)
  <2>1. /\ pc[g] = "Range" /\ pc'[g] = "iterating" /\ call' = call
        /\ UNCHANGED <<db, open, todo, cur>> /\ snap'[g] = db
    BY <1>12 DEF RangeBegin
  <2>2. call[g].op = "Range" /\ absCall' = absCall
    BY <1>4, <2>1, CallAt DEF OpNames, ToRemove
  <2>3. PhaseOf(g) = "pending" /\ PhaseOf(g)' = "ranging"
    BY <2>1, <2>2 DEF PhaseOf, Removing
  <2>4. ResOf(g)' = RangeResult(Pairs(db), FALSE)
    BY <2>1 DEF ResOf
  <2>5. Contract!RangeSnapshot(g)
    BY <1>2, <1>3, <2>1, <2>2, <2>3, <2>4, ContractWords DEF Contract!RangeSnapshot
  <2>. QED  BY <1>7, <2>1, <2>5 DEF Contract!Effect
<1>13. CASE RangeVisit(g)
  <2>1. PICK p \in Pairs(snap[g]) :
            /\ visited'[g] = visited[g] \cup {p}
            /\ \/ UNCHANGED <<pc, call, res, snap>>
               \/ /\ pc'[g] = "done" /\ call' = call
                  /\ res'[g] = RangeResult(visited[g] \cup {p}, TRUE)
    <3>1. PICK p \in Pairs(snap[g]) :
             /\ visited' = [visited EXCEPT ![g] = @ \cup {p}]
             /\ \/ UNCHANGED <<pc, call, res, snap>>
                \/ Finish(g, RangeResult(visited'[g], TRUE))
      BY <1>13 DEF RangeVisit
    <3>2. visited'[g] = visited[g] \cup {p}
      BY <3>1
    <3>. QED  BY <3>1, <3>2
  <2>2. pc[g] = "iterating" /\ UNCHANGED <<db, open, todo, cur>>
    BY <1>13 DEF RangeVisit
  <2>3. absCall' = absCall
    BY <1>4, <2>1, <2>2 DEF ToRemove
  <2>4. PhaseOf(g) = "ranging" /\ ResOf(g) = RangeResult(Pairs(snap[g]), FALSE)
    BY <2>2 DEF PhaseOf, Removing, ResOf
  <2>5. CASE UNCHANGED <<pc, call, res, snap>>
    <3>1. PhaseOf(g)' = PhaseOf(g) /\ ResOf(g)' = ResOf(g)
      BY <2>2, <2>4, <2>5 DEF PhaseOf, Removing, ResOf
    <3>. QED  BY <1>5, <2>2, <2>3, <3>1
  <2>6. CASE pc'[g] = "done" /\ res'[g] = RangeResult(visited[g] \cup {p}, TRUE)
    <3>. DEFINE P == visited[g] \cup {p}
    <3>1. PhaseOf(g)' = "done" /\ ResOf(g)' = RangeResult(P, TRUE)
      BY <2>6 DEF PhaseOf, Removing, ResOf
    <3>2. absRes[g].pairs = Pairs(snap[g])
      BY <1>2, <2>4 DEF RangeResult
    <3>3. P \in (SUBSET absRes[g].pairs) \ {{}}
      BY <2>2, <3>2 DEF Shown
    <3>. HIDE DEF P
    <3>4. Contract!RangeDone(g)
      BY <1>2, <2>2, <2>3, <2>4, <3>1, <3>3, ContractWords DEF Contract!RangeDone
    <3>. QED  BY <1>7, <2>2, <3>4 DEF Contract!Effect
  <2>. QED  BY <2>1, <2>5, <2>6
<1>14. CASE RangeEnd(g)
  <2>1. /\ pc[g] = "iterating" /\ pc'[g] = "done" /\ call' = call
        /\ UNCHANGED <<db, open, todo, cur>> /\ Pairs(snap[g]) \subseteq visited[g]
        /\ res'[g] = RangeResult(visited[g], FALSE)
    BY <1>14 DEF RangeEnd
  <2>2. absCall' = absCall
    BY <1>4, <2>1 DEF ToRemove
  <2>3. visited[g] = Pairs(snap[g])
    BY <2>1 DEF Shown
  <2>4. PhaseOf(g) = "ranging" /\ PhaseOf(g)' = "done" /\ ResOf(g)' = ResOf(g)
    BY <2>1, <2>3 DEF PhaseOf, Removing, ResOf
  <2>5. absRes' = absRes
    BY <1>2, <2>4 DEF absRes
  <2>6. Contract!RangeDone(g)
    BY <1>2, <2>1, <2>2, <2>4, <2>5 DEF Contract!RangeDone
  <2>. QED  BY <1>7, <2>1, <2>6 DEF Contract!Effect
<1>15. CASE StoreSet(g)
  <2>1. /\ pc[g] = "Store" /\ pc'[g] = "added" /\ UNCHANGED <<call, res, open, todo, cur>>
        /\ db' = Put(db, call[g].key, call[g].val)
    BY <1>15 DEF StoreSet
  <2>2. call[g].op = "Store" /\ absCall' = absCall
    BY <1>4, <2>1, CallAt DEF OpNames, ToRemove
  <2>3. PhaseOf(g) = "pending" /\ PhaseOf(g)' = "done" /\ ResOf(g)' = NoResult
    BY <2>1, <2>2 DEF PhaseOf, Removing, ResOf, Unanswered
  <2>4. Contract!Perform(g, "Store", db', NoResult)
    BY <1>6, <2>2, <2>3
  <2>5. Contract!Store(g)
    BY <1>2, <1>3, <2>1, <2>2, <2>4, ContractWords DEF Contract!Store
  <2>. QED  BY <1>7, <2>1, <2>5 DEF Contract!Effect
<1>16. CASE DropEnd(g)
  <2>1. /\ pc[g] = "dropping" /\ pc'[g] = "dropped" /\ UNCHANGED <<call, res, open, todo, cur>>
        /\ db' = Empty
    BY <1>16 DEF DropEnd
  <2>2. call[g].op = "Clear" /\ absCall' = absCall
    BY <1>4, <2>1 DEF Places, OpsAt, ToRemove
  <2>3. PhaseOf(g) = "pending" /\ PhaseOf(g)' = "done" /\ ResOf(g)' = NoResult
    BY <2>1, <2>2 DEF PhaseOf, Removing, ResOf, Unanswered
  <2>4. Contract!Clear(g)
    BY <1>6, <2>1, <2>2, <2>3, ContractWords DEF Contract!Clear
  <2>. QED  BY <1>7, <2>1, <2>4 DEF Contract!Effect
<1>17. CASE StoreAdd(g) \/ ClearLen(g)
  <2>1. /\ pc[g] \in {"added", "dropped"} /\ pc'[g] = "done" /\ res'[g] = NoResult
        /\ UNCHANGED <<db, call, open, todo, cur>>
    BY <1>17 DEF StoreAdd, ClearLen
  <2>2. PhaseOf(g)' = PhaseOf(g) /\ ResOf(g)' = ResOf(g)
    BY <2>1 DEF PhaseOf, Removing, ResOf, Unanswered
  <2>. QED  BY <1>4, <1>5, <2>1, <2>2 DEF ToRemove
<1>18. CASE LenCheck(g) \/ LenInit(g) \/ LenCount(g) \/ LenStore(g) \/ DropBegin(g)
  <2>1. /\ pc[g] \in {"Len", "leninit", "lencount", "lenstore", "Clear"}
        /\ pc'[g] \in {"leninit", "lencount", "lenstore", "lenload", "dropping"}
        /\ UNCHANGED <<db, call, res, open, todo, cur>>
    BY <1>18 DEF LenCheck, LenInit, LenCount, LenStore, DropBegin
  <2>2. call[g].op # "Next"
    BY <2>1 DEF Places, OpsAt
  <2>3. PhaseOf(g)' = PhaseOf(g) /\ ResOf(g)' = ResOf(g)
    BY <2>1, <2>2 DEF PhaseOf, Removing, ResOf
  <2>. QED  BY <1>4, <1>5, <2>1, <2>3 DEF ToRemove
<1>19. CASE LenLoad(g)
  <2>1. /\ pc[g] = "lenload" /\ pc'[g] = "done" /\ call' = call /\ UNCHANGED <<db, open, todo, cur>>
        /\ res'[g] = LenResult(len)
    BY <1>19 DEF LenLoad
  <2>2. call[g].op = "Len" /\ absCall' = absCall
    BY <1>4, <2>1 DEF Places, OpsAt, ToRemove
  <2>3. PhaseOf(g) = "pending" /\ PhaseOf(g)' = "done" /\ ResOf(g)' = LenResult(len)
    BY <2>1, <2>2 DEF PhaseOf, Removing, ResOf
  <2>4. absRes'[g] = LenResult(len)
    BY <1>2, <2>3 DEF absRes
  <2>5. "len" \in DOMAIN absRes'[g] /\ absRes'[g].len = len
    BY <2>4 DEF LenResult
  <2>6. Contract!Perform(g, "Len", db, LenResult(absRes'[g].len))
    BY <1>6, <2>1, <2>2, <2>3, <2>5
  <2>7. Contract!LenWeak(g)
    BY <1>2, <1>3, <2>2, <2>5, <2>6, ContractWords DEF Contract!LenWeak
  <2>. QED  BY <1>7, <2>1, <2>7
<1>20. CASE Close(g)
  <2>1. /\ pc[g] = "Close" /\ pc'[g] = "done" /\ call' = call /\ UNCHANGED <<db, todo, cur>>
        /\ res'[g] = NoResult /\ open' = FALSE
    BY <1>20 DEF Close
  <2>2. call[g].op = "Close" /\ absCall' = absCall
    BY <1>4, <2>1, CallAt DEF OpNames, ToRemove
  <2>3. PhaseOf(g) = "pending" /\ PhaseOf(g)' = "done" /\ ResOf(g)' = NoResult
    BY <2>1, <2>2 DEF PhaseOf, Removing, ResOf
  <2>4. Contract!Close(g)
    BY <1>6, <2>1, <2>2, <2>3, ContractWords DEF Contract!Close
  <2>. QED  BY <2>1, <2>4 DEF Contract!FaultyNext
<1>21. CASE Return(g)
  <2>1. /\ pc[g] = "done" /\ pc'[g] = "idle" /\ call'[g] = NoCall /\ res'[g] = NoResult
        /\ UNCHANGED <<db, open>>
    BY <1>21 DEF Return
  <2>2. PhaseOf(g) = "done" /\ PhaseOf(g)' = "idle" /\ ResOf(g)' = NoResult
    BY <2>1 DEF PhaseOf, Removing, ResOf
  <2>3. CallOf(g)' = NoCall
    BY <2>1 DEF CallOf, NoCall
  <2>4. Contract!Return(g)
    BY <1>2, <2>1, <2>2, <2>3, ContractWords DEF Contract!Return
  <2>. QED  BY <1>7, <2>1, <2>4
<1>22. CASE DeleteLoad(g)
  <2>1. PICK k \in todo[g] :
          /\ todo'[g] = todo[g] \ {k}
          /\ \/ open /\ pc'[g] = "found" /\ cur'[g] = {k}
             \/ (~open \/ db[k] = Absent) /\ pc'[g] = pc[g] /\ cur'[g] = {}
    BY <1>22 DEF DeleteLoad, Doomed
  <2>2. /\ pc[g] = "Delete" /\ UNCHANGED <<db, open, call, res>> /\ cur[g] = {}
        /\ call[g].op \in {"Delete", "Next"}
    BY <1>22 DEF DeleteLoad, Doomed, Places, OpsAt
  <2>3. ResOf(g)' = ResOf(g) /\ absRes' = absRes
    <3>1. ResOf(g)' = ResOf(g)
      BY <2>1, <2>2 DEF ResOf
    <3>. QED  BY <1>2, <3>1 DEF absRes
  <2>4. CASE pc'[g] = "found" /\ cur'[g] = {k}
    <3>1. ToRemove(g)' = ToRemove(g)
      BY <2>1, <2>2, <2>4 DEF ToRemove
    <3>2. PhaseOf(g)' = PhaseOf(g)
      BY <2>2, <2>4, <3>1 DEF PhaseOf, Removing
    <3>. QED  BY <1>4, <1>5, <2>2, <2>3, <3>1, <3>2
  <2>5. CASE (~open \/ db[k] = Absent) /\ pc'[g] = pc[g] /\ cur'[g] = {}
    <3>1. ToRemove(g) = todo[g] /\ ToRemove(g)' = ToRemove(g) \ {k} /\ k \in ToRemove(g)
      BY <2>1, <2>2, <2>5 DEF ToRemove
    <3>2. open => Remove(db, {k}) = db
      BY <2>5 DEF Remove, Contents
    <3>3. CASE call[g].op = "Delete"
      <4>1. PhaseOf(g) = "pending" /\ PhaseOf(g)' = "pending" /\ absPhase' = absPhase
        <5>1. PhaseOf(g) = "pending" /\ PhaseOf(g)' = "pending"
          BY <2>2, <2>5, <3>3 DEF PhaseOf, Removing
        <5>. QED  BY <1>2, <5>1 DEF absPhase
      <4>2. k \in absCall[g].keys /\ absCall' = [absCall EXCEPT ![g].keys = @ \ {k}]
        <5>1. CallOf(g)' = [CallOf(g) EXCEPT !.keys = @ \ {k}] /\ CallOf(g).keys = ToRemove(g)
          BY <1>3, <1>9, <2>2, <3>1, <3>3
        <5>. QED  BY <1>2, <3>1, <5>1 DEF absCall
      <4>3. CASE open
        <5>1. Contract!DeleteKey(g)
          BY <1>2, <1>3, <2>2, <2>3, <3>2, <3>3, <4>1, <4>2, <4>3, ContractWords
             DEF Contract!DeleteKey
        <5>. QED  BY <1>7, <2>2, <5>1 DEF Contract!Effect
      <4>4. CASE ~open
        <5>1. Contract!FailWeak(g)
          BY <1>2, <1>3, <2>2, <2>3, <3>3, <4>1, <4>2 DEF Contract!FailWeak
        <5>. QED  BY <1>8, <2>2, <4>4, <5>1 DEF Contract!Fail
      <4>. QED  BY <4>3, <4>4
    <3>4. CASE call[g].op = "Next"
      <4>1. PICK p \in Keys \X Values : res[g] = NextResult({p}) /\ ToRemove(g) \subseteq {p[1]}
        BY <2>2, <3>4 DEF Doomed
      <4>2. ToRemove(g) = {k} /\ p[1] = k /\ ToRemove(g)' = {}
        BY <3>1, <4>1
      <4>3. PhaseOf(g) = "peeked" /\ PhaseOf(g)' = "done" /\ absCall' = absCall
        <5>1. PhaseOf(g) = "peeked" /\ PhaseOf(g)' = "done"
          BY <2>2, <2>5, <3>4, <4>2 DEF PhaseOf, Removing
        <5>2. CallOf(g)' = CallOf(g)
          BY <2>2, <3>4 DEF CallOf
        <5>. QED  BY <1>2, <5>1, <5>2 DEF absCall
      <4>4. absRes[g] = NextResult({p})
        BY <1>2, <2>2, <4>1 DEF ResOf
      <4>5. {q[1] : q \in absRes[g].taken} = {k}
        BY <4>2, <4>4 DEF NextResult
      <4>6. CASE open
        <5>1. Contract!NextDelete(g)
          BY <1>2, <2>2, <2>3, <3>2, <4>3, <4>5, <4>6, ContractWords DEF Contract!NextDelete
        <5>. QED  BY <1>7, <2>2, <5>1 DEF Contract!Effect
      <4>7. CASE ~open
        <5>1. Contract!FailWeak(g)
          BY <1>2, <2>2, <2>3, <4>3 DEF Contract!FailWeak
        <5>. QED  BY <1>8, <2>2, <4>7, <5>1 DEF Contract!Fail
      <4>. QED  BY <4>6, <4>7
    <3>. QED  BY <2>2, <3>3, <3>4
  <2>. QED  BY <2>1, <2>4, <2>5
<1>23. CASE DeleteTxn(g)
  <2>1. /\ pc[g] = "found" /\ pc'[g] = "deleted" /\ UNCHANGED <<open, call, res>>
        /\ todo'[g] = todo[g] /\ cur'[g] = {} /\ db' = Remove(db, cur[g])
        /\ call[g].op \in {"Delete", "Next"}
    BY <1>23 DEF DeleteTxn, Places, OpsAt
  <2>2. PICK k \in Keys \ todo[g] : cur[g] = {k}
    BY <2>1 DEF Doomed
  <2>3. /\ ToRemove(g)' = ToRemove(g) \ {k} /\ k \in ToRemove(g)
        /\ db' = Remove(db, {k})
    BY <2>1, <2>2 DEF ToRemove
  <2>4. ResOf(g)' = ResOf(g) /\ absRes' = absRes
    <3>1. ResOf(g)' = ResOf(g)
      BY <2>1 DEF ResOf
    <3>. QED  BY <1>2, <3>1 DEF absRes
  <2>5. CASE call[g].op = "Delete"
    <3>1. PhaseOf(g) = "pending" /\ PhaseOf(g)' = "pending" /\ absPhase' = absPhase
      <4>1. PhaseOf(g) = "pending" /\ PhaseOf(g)' = "pending"
        BY <2>1, <2>5 DEF PhaseOf, Removing
      <4>. QED  BY <1>2, <4>1 DEF absPhase
    <3>2. k \in absCall[g].keys /\ absCall' = [absCall EXCEPT ![g].keys = @ \ {k}]
      <4>1. CallOf(g)' = [CallOf(g) EXCEPT !.keys = @ \ {k}] /\ CallOf(g).keys = ToRemove(g)
        BY <1>3, <1>9, <2>1, <2>3, <2>5
      <4>. QED  BY <1>2, <2>3, <4>1 DEF absCall
    <3>3. Contract!DeleteKey(g)
      BY <1>2, <1>3, <2>3, <2>4, <2>5, <3>1, <3>2, ContractWords DEF Contract!DeleteKey
    <3>. QED  BY <1>7, <2>1, <3>3 DEF Contract!Effect
  <2>6. CASE call[g].op = "Next"
    <3>1. PICK p \in Keys \X Values : res[g] = NextResult({p}) /\ ToRemove(g) \subseteq {p[1]}
      BY <2>1, <2>6 DEF Doomed
    <3>2. ToRemove(g) = {k} /\ p[1] = k /\ ToRemove(g)' = {}
      BY <2>3, <3>1
    <3>3. PhaseOf(g) = "peeked" /\ PhaseOf(g)' = "done" /\ absCall' = absCall
      <4>1. PhaseOf(g) = "peeked" /\ PhaseOf(g)' = "done"
        BY <2>1, <2>6, <3>2 DEF PhaseOf, Removing
      <4>2. CallOf(g)' = CallOf(g)
        BY <2>1, <2>6 DEF CallOf
      <4>. QED  BY <1>2, <4>1, <4>2 DEF absCall
    <3>4. absRes[g] = NextResult({p})
      BY <1>2, <2>1, <3>1 DEF ResOf
    <3>5. {q[1] : q \in absRes[g].taken} = {k}
      BY <3>2, <3>4 DEF NextResult
    <3>6. Contract!NextDelete(g)
      BY <1>2, <2>3, <2>4, <3>3, <3>5, ContractWords DEF Contract!NextDelete
    <3>. QED  BY <1>7, <2>1, <3>6 DEF Contract!Effect
  <2>. QED  BY <2>1, <2>5, <2>6
<1>24. CASE DeleteSub(g)
  <2>1. /\ pc[g] = "deleted" /\ pc'[g] = "Delete"
        /\ UNCHANGED <<db, open, call, res, todo, cur>>
    BY <1>24 DEF DeleteSub
  <2>2. ToRemove(g)' = ToRemove(g) /\ ResOf(g)' = ResOf(g)
    BY <2>1 DEF ToRemove, ResOf
  <2>3. PhaseOf(g)' = PhaseOf(g)
    BY <2>1, <2>2 DEF PhaseOf, Removing
  <2>. QED  BY <1>4, <1>5, <2>1, <2>2, <2>3
<1>25. CASE DeleteEnd(g)
  <2>1. /\ pc[g] = "Delete" /\ pc'[g] = "done" /\ todo[g] = {} /\ cur[g] = {}
        /\ UNCHANGED <<db, open, call, res, todo, cur>>
        /\ call[g].op \in {"Delete", "Next"}
    BY <1>25 DEF DeleteEnd, Doomed, Places, OpsAt
  <2>2. ToRemove(g) = {} /\ ToRemove(g)' = {} /\ ResOf(g)' = ResOf(g) /\ ResOf(g) = res[g]
    BY <2>1 DEF ToRemove, ResOf
  <2>3. absCall' = absCall
    BY <1>4, <2>1, <2>2
  <2>4. CASE call[g].op = "Next"
    <3>1. PhaseOf(g) = "done" /\ PhaseOf(g)' = "done"
      BY <2>1, <2>2, <2>4 DEF PhaseOf, Removing
    <3>. QED  BY <1>5, <2>1, <2>2, <2>3, <3>1
  <2>5. CASE call[g].op = "Delete"
    <3>1. PhaseOf(g) = "pending" /\ PhaseOf(g)' = "done"
      BY <2>1, <2>5 DEF PhaseOf, Removing
    <3>2. ResOf(g)' = NoResult
      BY <2>1, <2>2, <2>5 DEF Unanswered
    <3>3. Contract!Perform(g, "Delete", db, NoResult)
      BY <1>6, <2>1, <2>3, <2>5, <3>1, <3>2
    <3>4. Remove(db, {}) = db /\ absCall[g].keys = {}
      BY <1>2, <1>3, <2>2, <2>5 DEF Remove, Contents
    <3>5. Contract!Delete(g)
      BY <3>3, <3>4, ContractWords DEF Contract!Delete
    <3>. QED  BY <1>7, <2>1, <3>5 DEF Contract!Effect
  <2>. QED  BY <2>1, <2>4, <2>5
<1>26. CASE NextPeek(g)
  <2>1. /\ pc[g] = "Next" /\ UNCHANGED <<db, open, call, cur>> /\ call[g].op = "Next"
    BY <1>26, CallAt DEF NextPeek, OpNames
  <2>2. absCall' = absCall /\ PhaseOf(g) = "pending"
    <3>1. CallOf(g)' = CallOf(g)
      BY <2>1 DEF CallOf
    <3>2. PhaseOf(g) = "pending"
      BY <2>1 DEF PhaseOf, Removing
    <3>. QED  BY <1>2, <3>1, <3>2 DEF absCall
  <2>3. CASE Present(db) = {} /\ pc'[g] = "done" /\ res'[g] = NextResult({})
    <3>1. PhaseOf(g)' = "done" /\ ResOf(g)' = NextResult({})
      BY <2>3 DEF PhaseOf, Removing, ResOf
    <3>2. Contract!Perform(g, "Next", db, NextResult({}))
      BY <1>6, <2>1, <2>2, <3>1
    <3>3. Contract!NextPeek(g)
      BY <2>3, <3>2, ContractWords DEF Contract!NextPeek
    <3>. QED  BY <1>7, <2>1, <3>3 DEF Contract!Effect
  <2>4. ASSUME NEW k \in Present(db), pc'[g] = "Delete", todo'[g] = {k},
               res'[g] = NextResult({<<k, db[k]>>})
        PROVE  Contract!FaultyNext
    <3>1. ToRemove(g)' # {}
      BY <2>4 DEF ToRemove
    <3>2. PhaseOf(g)' = "peeked" /\ ResOf(g)' = NextResult({<<k, db[k]>>})
      BY <2>1, <2>4, <3>1 DEF PhaseOf, Removing, ResOf
    <3>3. Contract!NextPeek(g)
      BY <1>2, <1>3, <2>1, <2>2, <2>4, <3>2, ContractWords DEF Contract!NextPeek
    <3>. QED  BY <1>7, <2>1, <3>3 DEF Contract!Effect
  <2>. QED  BY <1>26, <2>3, <2>4 DEF NextPeek
<1>27. CASE Panics(g)
  <2>1. /\ pc[g] \in {"Store", "found", "Clear", "Range", "Keys", "lencount", "Next"}
        /\ pc'[g] = "panic" /\ UNCHANGED <<db, open, call, res, todo, cur>>
    BY <1>27 DEF Panics
  <2>2. ToRemove(g)' = ToRemove(g) /\ ResOf(g)' = ResOf(g)
    BY <2>1 DEF ToRemove, ResOf
  <2>3. pc[g] = "found" => ToRemove(g) # {}
    BY DEF Doomed, ToRemove
  <2>4. pc[g] = "Next" => ToRemove(g) = {}
    BY DEF Doomed, ToRemove
  <2>5. pc[g] \notin {"found", "Next"} => call[g].op # "Next"
    BY <2>1 DEF Places, OpsAt
  <2>6. PhaseOf(g)' = PhaseOf(g)
    BY <2>1, <2>2, <2>3, <2>4, <2>5 DEF PhaseOf, Removing
  <2>. QED  BY <1>4, <1>5, <2>1, <2>2, <2>6
<1>. QED
  BY <1>10, <1>11, <1>12, <1>13, <1>14, <1>15, <1>16, <1>17, <1>18, <1>19, <1>20, <1>21,
     <1>22, <1>23, <1>24, <1>25, <1>26, <1>27 DEF Step

\* The initial states of the store are initial states of the contract.
LEMMA RefinementInit == Init => RefinementInv /\ Contract!FaultyInit
<1>. SUFFICES ASSUME Init PROVE RefinementInv /\ Contract!FaultyInit
  OBVIOUS
<1>1. TypeOK /\ Places
  BY TypeInit
<1>2. \A g \in G : Doomed(g) /\ Unanswered(g) /\ Shown(g)
  BY DEF Init, Doomed, Unanswered, Shown
<1>3. \A g \in G : PhaseOf(g) = "idle" /\ CallOf(g) = NoCall /\ ResOf(g) = NoResult
  BY DEF Init, PhaseOf, Removing, CallOf, NoCall, ResOf
<1>4. db \in Contents
  BY DEF Init
<1>. QED
  BY <1>1, <1>2, <1>3, <1>4, ContractWords
  DEF RefinementInv, Contract!FaultyInit, Contract!Init, absPhase, absCall, absRes, TypeOK

\* Every step of the store is a step of the contract or nothing to it.
LEMMA RefinementStep ==
    ASSUME RefinementInv, RefinementInv', [Next]_vars
    PROVE  [Contract!FaultyNext]_(Contract!fvars)
<1>1. CASE UNCHANGED vars
  BY <1>1 DEF vars, Contract!fvars, absPhase, absCall, absRes, PhaseOf, Removing, ToRemove,
              CallOf, ResOf
<1>. QED  BY <1>1, InvokeRefines, StepRefines DEF Next

\* Any number of goroutines that call the store at the same time see what
\* FaultyContract allows: every call takes effect in its own transaction, a
\* Delete key by key and a Next as a lookup and a later deletion, and
\* after Close a call panics or gives up.  A panic leaves the call where it was.
THEOREM Linearizable == Spec => ImplementsContract
BY RefinementInit, RefinementInvStep, RefinementStep, PTL
   DEF Spec, ImplementsContract, Contract!FaultySpec
=============================================================================
