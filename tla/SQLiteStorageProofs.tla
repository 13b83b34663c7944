------------------------ MODULE SQLiteStorageProofs -------------------------
(***************************************************************************)
(* Proofs about SQLiteStorage, for any number of goroutines, keys and      *)
(* values, with failing statements and with Close: its types, that the     *)
(* cached count is the number of rows that readers can see, and that every *)
(* call takes effect at one moment as FaultyContract says.                 *)
(***************************************************************************)
EXTENDS SQLiteStorage, FiniteSetTheorems, TLAPS

-----------------------------------------------------------------------------
\* The contents, calls and results of StorageInterface.

\* What Put, Remove and Empty return are contents, and the pairs of contents
\* are pairs of a key and a value.
LEMMA ContentsType ==
    /\ Empty \in Contents
    /\ \A d \in Contents, k \in Keys, v \in Values : Put(d, k, v) \in Contents
    /\ \A d \in Contents : \A S : Remove(d, S) \in Contents
    /\ \A d \in Contents : Pairs(d) \in SUBSET (Keys \X Values)
    /\ \A d \in Contents : \A k \in Present(d) : k \in Keys /\ d[k] \in Values
BY DEF Empty, Contents, Put, Remove, Pairs, Present

\* The number of keys of a store is a natural number.
LEMMA CountType == \A d \in Contents : Cardinality(Present(d)) \in Nat
<1>1. TAKE d \in Contents
<1>2. IsFiniteSet(Present(d))
  BY KeysFinite, FS_Subset, Present(d) \subseteq Keys DEF Present
<1>. QED  BY <1>2, FS_CardinalityType

\* The arguments of the calls.
LEMMA CallType ==
    \A c \in Calls :
        /\ c.op \in OpNames
        /\ c.op \in {"Load", "Store"} => c.key \in Keys
        /\ c.op = "Store" => c.val \in Values
        /\ c.op = "Delete" => /\ c.keys \in SUBSET Keys
                              /\ \A S \in SUBSET Keys : [c EXCEPT !.keys = S] \in Calls
BY DEF Calls, OpNames

\* The results of the operations are results.
LEMMA ResultType ==
    /\ NoResult \in Results
    /\ \A v \in Values \cup {Absent} : LoadResult(v) \in Results
    /\ \A S \in SUBSET Keys : KeysResult(S) \in Results
    /\ \A n \in Int : LenResult(n) \in Results
    /\ \A P \in SUBSET (Keys \X Values), b \in BOOLEAN : RangeResult(P, b) \in Results
    /\ \A P \in SUBSET (Keys \X Values) : NextResult(P) \in Results
BY DEF Results, NoResult, LoadResult, KeysResult, LenResult, RangeResult, NextResult

-----------------------------------------------------------------------------
\* Every state has the types that the declarations of the store promise.
THEOREM TypeCorrect == Spec => []TypeOK
<1>1. Init => TypeOK
  BY ResultType DEF Init, TypeOK, Unlocked, RWMutexes
<1>2. TypeOK /\ [Next]_vars => TypeOK'
  <2> SUFFICES ASSUME TypeOK, [Next]_vars PROVE TypeOK'
    OBVIOUS
  <2> USE DEF Goto, SetRes, shared
  <2>1. ASSUME NEW g \in G, NEW c \in Calls, Invoke(g, c) PROVE TypeOK'
    BY <2>1 DEF TypeOK, Invoke, FirstPc, Writers
  <2>2. ASSUME NEW g \in G, MarshalFails(g) PROVE TypeOK'
    BY <2>2, ResultType DEF TypeOK, MarshalFails
  <2>3. ASSUME NEW g \in G, DeleteNothing(g) PROVE TypeOK'
    BY <2>3 DEF TypeOK, DeleteNothing
  <2>4. ASSUME NEW g \in G, Lock(g) PROVE TypeOK'
    BY <2>4 DEF TypeOK, Lock, Acquire, ReadLock, WriteLock, CacheReadLock, CacheWriteLock,
                RLock, Announce, RWMutexes
  <2>5. ASSUME NEW g \in G, Granted(g) PROVE TypeOK'
    BY <2>5 DEF TypeOK, Granted
  <2>6. ASSUME NEW g \in G, NEW r \in Results, Answer(g, r),
               visited' \in [G -> SUBSET (Keys \X Values)]
        PROVE  TypeOK'
    BY <2>6 DEF TypeOK, Answer, RUnlock, RWMutexes
  <2>7. ASSUME NEW g \in G, Load(g) PROVE TypeOK'
    <3>1. call[g] \in Calls /\ call[g].op = "Load"
      BY <2>7 DEF Load, Reading, TypeOK, NoCall
    <3>2. LoadResult(table[call[g].key]) \in Results /\ LoadResult(Absent) \in Results
      BY <3>1, CallType, ResultType DEF TypeOK, Contents
    <3>. QED  BY <2>6, <2>7, <3>2 DEF Load, TypeOK
  <2>8. ASSUME NEW g \in G, KeysOf(g) PROVE TypeOK'
    <3>1. PICK S \in SUBSET Present(table) : Answer(g, KeysResult(S)) /\ UNCHANGED visited
      BY <2>8 DEF KeysOf
    <3>2. KeysResult(S) \in Results
      BY <3>1, S \in SUBSET Keys, ResultType DEF Present
    <3>. QED  BY <2>6, <3>1, <3>2 DEF TypeOK
  <2>9. ASSUME NEW g \in G, RangeVisit(g) PROVE TypeOK'
    <3>1. visited' \in [G -> SUBSET (Keys \X Values)]
      BY <2>9, ContentsType DEF RangeVisit, TypeOK
    <3>2. CASE UNCHANGED <<shared, mutex, cachingMutex, pc, call, res>>
      BY <3>1, <3>2 DEF TypeOK
    <3>3. CASE Answer(g, RangeResult(visited'[g], TRUE))
      BY <2>6, <3>1, <3>3, ResultType
    <3>. QED  BY <2>9, <3>2, <3>3 DEF RangeVisit
  <2>10. ASSUME NEW g \in G, RangeEnd(g) PROVE TypeOK'
    <3>1. RangeResult(visited[g], FALSE) \in Results
      BY ResultType DEF TypeOK
    <3>. QED  BY <2>6, <2>10, <3>1 DEF RangeEnd, TypeOK
  <2>11. ASSUME NEW g \in G, NEW t \in Contents, NEW l \in {"inval", "unlock"},
                Executed(g, t, l), res' \in [G -> Results]
         PROVE  TypeOK'
    BY <2>11 DEF Executed, TypeOK
  <2>12. ASSUME NEW g \in G, Store(g) PROVE TypeOK'
    <3>1. call[g] \in Calls /\ call[g].op = "Store"
      BY <2>12 DEF Store, Writing, TypeOK, NoCall
    <3>2. Put(table, call[g].key, call[g].val) \in Contents
      BY <3>1, CallType, ContentsType DEF TypeOK
    <3>. QED  BY <2>11, <2>12, <3>2 DEF Store, TypeOK
  <2>13. ASSUME NEW g \in G, Delete(g) PROVE TypeOK'
    BY <2>11, <2>13, ContentsType DEF Delete, TypeOK
  <2>14. ASSUME NEW g \in G, Clear(g) PROVE TypeOK'
    BY <2>11, <2>14, ContentsType DEF Clear, TypeOK
  <2>15. ASSUME NEW g \in G, NextItem(g) PROVE TypeOK'
    <3>1. \E P \in SUBSET (Keys \X Values) : SetRes(g, NextResult(P))
      <4>1. ASSUME NEW k \in Present(table) PROVE {<<k, table[k]>>} \in SUBSET (Keys \X Values)
        BY <4>1, ContentsType DEF TypeOK
      <4>. QED  BY <2>15, <4>1 DEF NextItem
    <3>2. res' \in [G -> Results]
      BY <3>1, ResultType DEF TypeOK
    <3>. QED  BY <2>11, <2>15, <3>2, ContentsType DEF NextItem, TypeOK
  <2>16. ASSUME NEW g \in G, Close(g) PROVE TypeOK'
    BY <2>16 DEF Close, TypeOK
  <2>17. ASSUME NEW g \in G, Invalidate(g) PROVE TypeOK'
    BY <2>17 DEF Invalidate, TypeOK, Unlock, RWMutexes
  <2>18. ASSUME NEW g \in G, ReleaseLock(g) PROVE TypeOK'
    BY <2>18 DEF ReleaseLock, TypeOK, Unlock, RWMutexes
  <2>19. ASSUME NEW g \in G, LenFast(g) PROVE TypeOK'
    BY <2>19, ResultType DEF LenFast, TypeOK, RUnlock, RWMutexes
  <2>20. ASSUME NEW g \in G, LenRecheck(g) PROVE TypeOK'
    BY <2>20, ResultType DEF LenRecheck, TypeOK, Unlock, RWMutexes
  <2>21. ASSUME NEW g \in G, LenCount(g) PROVE TypeOK'
    <3>1. countCache' \in Int /\ res' \in [G -> Results]
      BY <2>21, CountType, ResultType DEF LenCount, TypeOK
    <3>. QED  BY <2>21, <3>1 DEF LenCount, TypeOK, RUnlock, Unlock, RWMutexes
  <2>22. ASSUME NEW g \in G, Return(g) PROVE TypeOK'
    BY <2>22, ResultType DEF Return, TypeOK
  <2>23. CASE CacheExpires
    BY <2>23 DEF CacheExpires, TypeOK
  <2>24. CASE UNCHANGED vars
    BY <2>24 DEF vars, TypeOK
  <2>. QED
    BY <2>1, <2>2, <2>3, <2>4, <2>5, <2>7, <2>8, <2>9, <2>10, <2>12, <2>13, <2>14, <2>15,
       <2>16, <2>17, <2>18, <2>19, <2>20, <2>21, <2>22, <2>23, <2>24 DEF Next, Step
<1>. QED  BY <1>1, <1>2, PTL DEF Spec

-----------------------------------------------------------------------------
\* s.mutex and the positions of the goroutines: a goroutine that counts or
\* reads rows holds the read lock, and while a writer is between its statement
\* and s.mutex.Unlock() nobody does.
WritePcs == {"wwait", "writing", "inval", "iwait", "unlock"}
ReadPcs == {"rwait", "reading", "nrwait", "counting"}

MutexInv ==
    /\ \A g \in G : pc[g] \in WritePcs <=> g \in mutex.writer
    /\ \A g, h \in mutex.writer : g = h
    /\ \A g \in G : pc[g] \in {"reading", "counting"} => g \in mutex.readers
    /\ \A g \in mutex.readers \cup mutex.parked : pc[g] \in ReadPcs
    /\ mutex.readers \cap mutex.parked = {}
    /\ \A g \in G : pc[g] \in WritePcs \ {"wwait"} => mutex.readers = {}

\* Steps that do not touch s.mutex and do not enter or leave its sections.
LEMMA MutexInvFrame ==
    ASSUME TypeOK, MutexInv, NEW g \in G, mutex' = mutex,
           NEW l, pc' = [pc EXCEPT ![g] = l],
           \/ l = pc[g]
           \/ pc[g] \notin WritePcs \cup ReadPcs /\ l \notin WritePcs \cup ReadPcs
           \/ pc[g] \in WritePcs \ {"wwait"} /\ l \in WritePcs \ {"wwait"}
    PROVE  MutexInv'
BY DEF TypeOK, RWMutexes, MutexInv, WritePcs, ReadPcs

\* A goroutine with the read lock gives it back.
LEMMA MutexInvLeave ==
    ASSUME TypeOK, MutexInv, NEW g \in G, pc[g] \in {"reading", "counting"},
           mutex' = RUnlock(mutex, g), pc' = [pc EXCEPT ![g] = "done"]
    PROVE  MutexInv'
BY DEF TypeOK, RWMutexes, MutexInv, RUnlock, WritePcs, ReadPcs

\* Every step keeps MutexInv.
LEMMA MutexInvStep == TypeOK /\ MutexInv /\ [Next]_vars => MutexInv'
<1> SUFFICES ASSUME TypeOK, MutexInv, [Next]_vars PROVE MutexInv'
  OBVIOUS
<1> USE DEF Goto, shared
<1>1. ASSUME NEW g \in G, NEW c \in Calls, Invoke(g, c) PROVE MutexInv'
  <2>1. FirstPc(c) \in {"lock", "crlock", "rlock"}
    BY DEF FirstPc
  <2>. QED  BY <1>1, <2>1, MutexInvFrame DEF Invoke, WritePcs, ReadPcs
<1>2. ASSUME NEW g \in G, MarshalFails(g) \/ DeleteNothing(g) \/ Return(g) PROVE MutexInv'
  BY <1>2, MutexInvFrame DEF MarshalFails, DeleteNothing, Return, WritePcs, ReadPcs
<1>3. ASSUME NEW g \in G, ReadLock(g, "rlock", "rwait") \/ ReadLock(g, "nrlock", "nrwait")
      PROVE  MutexInv'
  BY <1>3 DEF ReadLock, RLock, TypeOK, RWMutexes, MutexInv, WritePcs, ReadPcs
<1>4. ASSUME NEW g \in G, WriteLock(g) PROVE MutexInv'
  BY <1>4 DEF WriteLock, CanAnnounce, Announce, TypeOK, RWMutexes, MutexInv, WritePcs, ReadPcs
<1>5. ASSUME NEW g \in G, CacheReadLock(g) \/ CacheWriteLock(g, "clock", "cwait")
      PROVE  MutexInv'
  BY <1>5, MutexInvFrame DEF CacheReadLock, CacheWriteLock, WritePcs, ReadPcs
<1>6. ASSUME NEW g \in G, CacheWriteLock(g, "inval", "iwait") PROVE MutexInv'
  BY <1>6, MutexInvFrame DEF CacheWriteLock, WritePcs
<1>7. ASSUME NEW g \in G, Granted(g) PROVE MutexInv'
  <2>1. CASE pc[g] \in {"crwait", "cwait"}
    BY <1>7, <2>1, MutexInvFrame DEF Granted, WritePcs, ReadPcs
  <2>2. CASE pc[g] \in {"rwait", "nrwait", "wwait"}
    BY <1>7, <2>2 DEF Granted, Drained, TypeOK, RWMutexes, MutexInv, WritePcs, ReadPcs
  <2>. QED  BY <1>7, <2>1, <2>2 DEF Granted
<1>8. ASSUME NEW g \in G, pc[g] = "reading", NEW r, Answer(g, r) PROVE MutexInv'
  BY <1>8, MutexInvLeave DEF Answer
<1>9. ASSUME NEW g \in G, Load(g) \/ KeysOf(g) \/ RangeEnd(g) PROVE MutexInv'
  BY <1>8, <1>9 DEF Load, KeysOf, RangeEnd, Reading
<1>10. ASSUME NEW g \in G, RangeVisit(g) PROVE MutexInv'
  <2>1. ASSUME UNCHANGED <<mutex, pc>> PROVE MutexInv'
    BY <2>1 DEF MutexInv
  <2>. QED  BY <1>8, <1>10, <2>1 DEF RangeVisit, Reading
<1>11. ASSUME NEW g \in G, pc[g] = "writing", NEW t, NEW l \in {"inval", "unlock"},
              Executed(g, t, l)
       PROVE  MutexInv'
  BY <1>11, MutexInvFrame DEF Executed, WritePcs
<1>12. ASSUME NEW g \in G, Store(g) \/ Delete(g) \/ Clear(g) \/ NextItem(g) PROVE MutexInv'
  BY <1>11, <1>12 DEF Store, Delete, Clear, NextItem, Writing
<1>13. ASSUME NEW g \in G, Close(g) \/ Invalidate(g) PROVE MutexInv'
  BY <1>13, MutexInvFrame DEF Close, Invalidate, Writing, WritePcs
<1>14. ASSUME NEW g \in G, ReleaseLock(g) PROVE MutexInv'
  BY <1>14 DEF ReleaseLock, Unlock, TypeOK, RWMutexes, MutexInv, WritePcs, ReadPcs
<1>15. ASSUME NEW g \in G, LenFast(g) \/ LenRecheck(g) PROVE MutexInv'
  BY <1>15, MutexInvFrame DEF LenFast, LenRecheck, WritePcs, ReadPcs
<1>16. ASSUME NEW g \in G, LenCount(g) PROVE MutexInv'
  BY <1>16, MutexInvLeave DEF LenCount
<1>17. CASE CacheExpires \/ UNCHANGED vars
  BY <1>17 DEF CacheExpires, vars, MutexInv
<1>. QED
  BY <1>1, <1>2, <1>3, <1>4, <1>5, <1>6, <1>7, <1>9, <1>10, <1>12, <1>13, <1>14, <1>15,
     <1>16, <1>17 DEF Next, Step, Lock, Acquire

-----------------------------------------------------------------------------
\* A step that leaves the rows and the cache alone, and takes no writer past
\* its invalidation, keeps the cache coherent.
LEMMA CoherentFrame ==
    ASSUME TypeOK, CountCacheCoherent, NEW g \in G,
           UNCHANGED shared,
           NEW l, pc' = [pc EXCEPT ![g] = l],
           ~Invalidating(g) \/ l \in {"inval", "iwait"}
    PROVE  CountCacheCoherent'
<1>1. \A h \in G : Invalidating(h) => Invalidating(h)'
  BY DEF TypeOK, Invalidating
<1>. QED  BY <1>1 DEF CountCacheCoherent, shared

\* The cached row count is the number of rows that readers can see, whatever
\* interleaving of Len, writes, failing statements, expiry and Close led here.
THEOREM CacheCoherence == Spec => []CountCacheCoherent
<1>1. Init => MutexInv /\ CountCacheCoherent
  BY DEF Init, MutexInv, Unlocked, CountCacheCoherent, WritePcs, ReadPcs
<1>2. TypeOK /\ TypeOK' /\ MutexInv /\ CountCacheCoherent /\ [Next]_vars => CountCacheCoherent'
  <2> SUFFICES ASSUME TypeOK, TypeOK', MutexInv, CountCacheCoherent, [Next]_vars
               PROVE  CountCacheCoherent'
    OBVIOUS
  <2> USE DEF Goto
  <2>1. ASSUME NEW g \in G, NEW c \in Calls, Invoke(g, c) PROVE CountCacheCoherent'
    BY <2>1, CoherentFrame DEF Invoke, Invalidating
  <2>2. ASSUME NEW g \in G, MarshalFails(g) \/ DeleteNothing(g) \/ Return(g) \/ ReleaseLock(g)
        PROVE  CountCacheCoherent'
    BY <2>2, CoherentFrame DEF MarshalFails, DeleteNothing, Return, ReleaseLock, Invalidating
  <2>3. ASSUME NEW g \in G, Lock(g) PROVE CountCacheCoherent'
    BY <2>3, CoherentFrame
       DEF Lock, Acquire, ReadLock, WriteLock, CacheReadLock, CacheWriteLock, Invalidating
  <2>4. ASSUME NEW g \in G, Granted(g) PROVE CountCacheCoherent'
    BY <2>4, CoherentFrame DEF Granted, Invalidating
  <2>5. ASSUME NEW g \in G, pc[g] = "reading", NEW r, Answer(g, r) PROVE CountCacheCoherent'
    BY <2>5, CoherentFrame DEF Answer, Invalidating
  <2>6. ASSUME NEW g \in G, Load(g) \/ KeysOf(g) \/ RangeEnd(g) PROVE CountCacheCoherent'
    BY <2>5, <2>6 DEF Load, KeysOf, RangeEnd, Reading
  <2>7. ASSUME NEW g \in G, RangeVisit(g) PROVE CountCacheCoherent'
    <3>1. ASSUME UNCHANGED <<shared, pc>> PROVE CountCacheCoherent'
      BY <3>1 DEF CountCacheCoherent, shared, Invalidating
    <3>. QED  BY <2>5, <2>7, <3>1 DEF RangeVisit, Reading
  <2>8. ASSUME NEW g \in G, pc[g] = "writing", NEW t, Executed(g, t, "inval")
        PROVE  CountCacheCoherent'
    <3>1. Invalidating(g)'
      BY <2>8 DEF Executed, Invalidating, TypeOK
    <3>. QED  BY <2>8, <3>1 DEF Executed, CountCacheCoherent
  <2>9. ASSUME NEW g \in G, pc[g] = "writing", Executed(g, table, "unlock")
        PROVE  CountCacheCoherent'
    BY <2>9, CoherentFrame DEF Executed, Invalidating, shared
  <2>10. ASSUME NEW g \in G, Store(g) \/ Delete(g) \/ Clear(g) \/ NextItem(g)
         PROVE  CountCacheCoherent'
    BY <2>8, <2>9, <2>10 DEF Store, Delete, Clear, NextItem, Writing
  <2>11. ASSUME NEW g \in G, Close(g) PROVE CountCacheCoherent'
    <3>1. \A h \in G : Invalidating(h) => Invalidating(h)'
      BY <2>11 DEF Close, Writing, Invalidating, TypeOK
    <3>. QED  BY <2>11, <3>1 DEF Close, CountCacheCoherent
  <2>12. ASSUME NEW g \in G, Invalidate(g) PROVE CountCacheCoherent'
    BY <2>12 DEF Invalidate, CountCacheCoherent
  <2>13. ASSUME NEW g \in G, LenFast(g) \/ LenRecheck(g) PROVE CountCacheCoherent'
    BY <2>13, CoherentFrame DEF LenFast, LenRecheck, Invalidating
  <2>14. ASSUME NEW g \in G, LenCount(g) PROVE CountCacheCoherent'
    \* g holds s.mutex for reading, so that no writer is past its statement.
    <3>1. \A h \in G : ~Invalidating(h)
      BY <2>14 DEF LenCount, MutexInv, Invalidating, WritePcs
    <3>2. table = committed
      BY <3>1 DEF CountCacheCoherent
    <3>. QED  BY <2>14, <3>2 DEF LenCount, CountCacheCoherent
  <2>15. CASE CacheExpires
    BY <2>15 DEF CacheExpires, CountCacheCoherent, Invalidating
  <2>16. CASE UNCHANGED vars
    BY <2>16 DEF vars, CountCacheCoherent, Invalidating
  <2>. QED
    BY <2>1, <2>2, <2>3, <2>4, <2>6, <2>7, <2>10, <2>11, <2>12, <2>13, <2>14, <2>15, <2>16
       DEF Next, Step
<1>. QED  BY <1>1, <1>2, TypeCorrect, MutexInvStep, PTL DEF Spec

-----------------------------------------------------------------------------
\* The SQLite storage implements FaultyContract.

\* The contract is about the same contents, calls and results.
LEMMA ContractWords ==
    /\ Contract!Contents = Contents /\ Contract!Empty = Empty
    /\ Contract!Calls = Calls /\ Contract!NoCall = NoCall /\ Contract!NoResult = NoResult
    /\ \A d : Contract!Present(d) = Present(d) /\ Contract!Pairs(d) = Pairs(d)
    /\ \A d, k, v : Contract!Put(d, k, v) = Put(d, k, v)
    /\ \A d, S : Contract!Remove(d, S) = Remove(d, S)
    /\ \A v : Contract!LoadResult(v) = LoadResult(v) /\ Contract!KeysResult(v) = KeysResult(v)
    /\ \A v : Contract!LenResult(v) = LenResult(v) /\ Contract!NextResult(v) = NextResult(v)
    /\ \A P, b : Contract!RangeResult(P, b) = RangeResult(P, b)
    /\ \A S : Contract!Cardinality(S) = Cardinality(S)
BY DEF Contract!Contents, Contents, Contract!Empty, Empty, Contract!Calls, Calls,
       Contract!NoCall, NoCall, Contract!NoResult, NoResult, Contract!Present, Present,
       Contract!Pairs, Pairs, Contract!Put, Put, Contract!Remove, Remove,
       Contract!LoadResult, LoadResult, Contract!KeysResult, KeysResult,
       Contract!LenResult, LenResult, Contract!NextResult, NextResult,
       Contract!RangeResult, RangeResult, Contract!Cardinality, Cardinality

\* Where the methods are: who reads, writes and counts, and that there is a
\* result only at the end or when Next has found a row.
Method(g) ==
    /\ pc[g] \in {"rlock", "rwait", "reading"} => call[g].op \in {"Load", "Range", "Keys"}
    /\ pc[g] \in {"lock", "wwait", "writing", "inval", "iwait"} => call[g].op \in Writers
    /\ pc[g] \in {"crlock", "crwait", "cached", "clock", "cwait", "recheck", "nrlock",
                  "nrwait", "counting"} => call[g].op = "Len"
    /\ pc[g] \notin {"unlock", "done"} =>
           res[g] = NoResult \/ (Invalidating(g) /\ call[g].op = "Next")

\* What a Range has shown are rows that the table has had since it began.
Shown(g) ==
    /\ pc[g] \in {"idle", "rlock", "rwait"} => visited[g] = {}
    /\ Reading(g, "Range") => visited[g] \subseteq Pairs(committed)

\* What the statement of a writer has done to the rows, or has failed to do.
Written(g) ==
    Invalidating(g) =>
        \/ /\ call[g].op = "Store"
           /\ \/ table = Put(committed, call[g].key, call[g].val)
              \/ CanFail /\ table = committed
        \/ /\ call[g].op = "Clear"
           /\ table = Empty \/ (CanFail /\ table = committed)
        \/ /\ call[g].op = "Delete"
           /\ \E D \in SUBSET call[g].keys :
                 (CanFail \/ D = call[g].keys) /\ table = Remove(committed, D)
        \/ /\ call[g].op = "Next"
           /\ \E k \in Present(committed) :
                 /\ res[g] = NextResult({<<k, committed[k]>>})
                 /\ table = Remove(committed, {k}) \/ (CanFail /\ table = committed)

RefinementInv == \A g \in G : Method(g) /\ Shown(g) /\ Written(g)

\* It holds at the start.
LEMMA RefinementInit == Init => RefinementInv /\ Contract!FaultyInit
<1>. SUFFICES ASSUME Init PROVE RefinementInv /\ Contract!FaultyInit
  OBVIOUS
<1>1. ASSUME NEW g \in G
      PROVE  pc[g] = "idle" /\ call[g] = NoCall /\ visited[g] = {} /\ res[g] = NoResult
  BY <1>1 DEF Init
<1>2. RefinementInv
  BY <1>1 DEF RefinementInv, Method, Shown, Written, Invalidating, Reading
<1>3. ASSUME NEW g \in G PROVE PhaseOf(g) = "idle" /\ ResOf(g) = NoResult
  BY <1>1, <1>3 DEF PhaseOf, ResOf, Reading
<1>4. absPhase = [g \in G |-> "idle"] /\ absRes = [g \in G |-> NoResult]
  BY <1>3 DEF absPhase, absRes
<1>5. CanFail \in BOOLEAN
  BY DEF Init, CanFail
<1>. QED  BY <1>2, <1>4, <1>5, ContractWords DEF Init, Contract!FaultyInit, Contract!Init

\* A step of g moves no other goroutine, and changes the rows, or what is
\* committed, or closes the database only as a writer.
Local(g) ==
    /\ \A h \in G \ {g} : /\ pc'[h] = pc[h] /\ call'[h] = call[h] /\ res'[h] = res[h]
                          /\ visited'[h] = visited[h]
    /\ UNCHANGED <<table, committed, open>> \/ pc[g] \in {"writing", "iwait"}

\* Every step of a goroutine is local.
LEMMA StepsLocal ==
    ASSUME TypeOK, NEW g \in G, (\E c \in Calls : Invoke(g, c)) \/ Step(g)
    PROVE  Local(g)
<1>. USE DEF Local, TypeOK, Goto, SetRes, shared
<1>1. ASSUME NEW c \in Calls, Invoke(g, c) PROVE Local(g)
  BY <1>1 DEF Invoke
<1>2. CASE Lock(g)
  BY <1>2 DEF Lock, Acquire, ReadLock, WriteLock, CacheReadLock, CacheWriteLock
<1>3. CASE Granted(g) \/ MarshalFails(g) \/ DeleteNothing(g)
  BY <1>3 DEF Granted, MarshalFails, DeleteNothing
<1>4. CASE Load(g) \/ KeysOf(g) \/ RangeEnd(g)
  BY <1>4 DEF Load, KeysOf, RangeEnd, Answer
<1>5. CASE RangeVisit(g)
  BY <1>5 DEF RangeVisit, Answer
<1>6. CASE Store(g) \/ Delete(g) \/ Clear(g)
  BY <1>6 DEF Store, Delete, Clear, Executed, Writing
<1>7. CASE NextItem(g)
  BY <1>7 DEF NextItem, Executed, Writing
<1>8. CASE Close(g) \/ Invalidate(g) \/ ReleaseLock(g)
  BY <1>8 DEF Close, Invalidate, ReleaseLock, Writing
<1>9. CASE LenFast(g) \/ LenRecheck(g) \/ LenCount(g)
  BY <1>9 DEF LenFast, LenRecheck, LenCount
<1>10. CASE Return(g)
  BY <1>10 DEF Return
<1>. QED  BY <1>1, <1>2, <1>3, <1>4, <1>5, <1>6, <1>7, <1>8, <1>9, <1>10 DEF Step

\* Only Close changes whether the database can fail, and it cannot recover.
LEMMA FailuresStay ==
    ASSUME TypeOK, NEW g \in G, (\E c \in Calls : Invoke(g, c)) \/ Step(g)
    PROVE  /\ CanFail => CanFail'
           /\ CanFail' = CanFail \/ Close(g)
<1>. USE DEF CanFail, TypeOK, shared
<1>1. ASSUME NEW c \in Calls, Invoke(g, c) PROVE UNCHANGED <<statementsFail, open>>
  BY <1>1 DEF Invoke
<1>2. ASSUME Step(g), ~Close(g) PROVE UNCHANGED <<statementsFail, open>>
  <2>1. CASE Lock(g)
    BY <2>1 DEF Lock, Acquire, ReadLock, WriteLock, CacheReadLock, CacheWriteLock
  <2>2. CASE Granted(g) \/ MarshalFails(g) \/ DeleteNothing(g)
    BY <2>2 DEF Granted, MarshalFails, DeleteNothing
  <2>3. CASE Load(g) \/ KeysOf(g) \/ RangeVisit(g) \/ RangeEnd(g)
    BY <2>3 DEF Load, KeysOf, RangeVisit, RangeEnd, Answer
  <2>4. CASE Store(g) \/ Delete(g) \/ Clear(g) \/ NextItem(g)
    BY <2>4 DEF Store, Delete, Clear, NextItem, Executed
  <2>5. CASE Invalidate(g) \/ ReleaseLock(g) \/ Return(g)
    BY <2>5 DEF Invalidate, ReleaseLock, Return
  <2>6. CASE LenFast(g) \/ LenRecheck(g) \/ LenCount(g)
    BY <2>6 DEF LenFast, LenRecheck, LenCount
  <2>. QED  BY <1>2, <2>1, <2>2, <2>3, <2>4, <2>5, <2>6 DEF Step
<1>3. ASSUME Close(g) PROVE statementsFail' = statementsFail /\ open' = FALSE
  BY <1>3 DEF Close
<1>4. CASE Close(g)
  BY <1>3, <1>4
<1>5. CASE ~Close(g)
  <2>1. UNCHANGED <<statementsFail, open>>
    BY <1>1, <1>2, <1>5
  <2>. QED  BY <2>1
<1>. QED  BY <1>4, <1>5

\* The others are where they were, in the contract too: while g writes nobody
\* else is in a section of s.mutex.
LEMMA OthersStay ==
    ASSUME TypeOK, MutexInv, RefinementInv, NEW g \in G, Local(g), CanFail => CanFail',
           NEW h \in G \ {g}
    PROVE  /\ Method(h)' /\ Shown(h)' /\ Written(h)'
           /\ PhaseOf(h)' = PhaseOf(h) /\ ResOf(h)' = ResOf(h)
<1>1. Method(h) /\ Shown(h) /\ Written(h)
  BY DEF RefinementInv
<1>2. \/ UNCHANGED <<table, committed>>
      \/ pc[h] \notin {"reading", "inval", "iwait"}
  BY DEF Local, MutexInv, WritePcs
<1>3. Invalidating(h)' = Invalidating(h)
  BY DEF Invalidating, Local
<1>4. Method(h)'
  BY <1>1, <1>3 DEF Method, Local
<1>5. Reading(h, "Range")' = Reading(h, "Range")
  BY DEF Reading, Local
<1>6. Shown(h)'
  BY <1>1, <1>2, <1>5 DEF Shown, Local, Reading
<1>7. Written(h)'
  BY <1>1, <1>2, <1>3 DEF Written, Local, Invalidating
<1>8. PhaseOf(h)' = PhaseOf(h)
  BY <1>5 DEF PhaseOf, Local
<1>9. ResOf(h)' = ResOf(h)
  BY <1>2, <1>5 DEF ResOf, Local, Reading
<1>. QED  BY <1>4, <1>6, <1>7, <1>8, <1>9

\* So the contract sees a step of g as a change of g's entries.
LEMMA SeenStep ==
    ASSUME TypeOK, MutexInv, RefinementInv, NEW g \in G, Local(g), CanFail => CanFail'
    PROVE  /\ absPhase[g] = PhaseOf(g) /\ absRes[g] = ResOf(g)
           /\ absPhase' = [absPhase EXCEPT ![g] = PhaseOf(g)']
           /\ absRes' = [absRes EXCEPT ![g] = ResOf(g)']
<1>1. absPhase' = [h \in G |-> PhaseOf(h)'] /\ absRes' = [h \in G |-> ResOf(h)']
  BY DEF absPhase, absRes
<1>2. \A h \in G \ {g} : PhaseOf(h)' = PhaseOf(h) /\ ResOf(h)' = ResOf(h)
  BY OthersStay
<1>. QED  BY <1>1, <1>2 DEF absPhase, absRes

\* Whoever is about to read, to count or to execute a statement finds in the
\* table what is committed.
LEMMA TableCommitted ==
    ASSUME MutexInv, CountCacheCoherent, NEW g \in G, pc[g] \in {"reading", "counting", "writing"}
    PROVE  table = committed
<1>1. \A h \in G : ~Invalidating(h)
  BY DEF MutexInv, Invalidating, WritePcs
<1>. QED  BY <1>1 DEF CountCacheCoherent

\* Every step keeps RefinementInv.
LEMMA RefinementInvStep ==
    ASSUME TypeOK, MutexInv, CountCacheCoherent, RefinementInv, [Next]_vars
    PROVE  RefinementInv'
<1>. USE DEF Goto, SetRes, shared
<1>0. ASSUME NEW g \in G
      PROVE  Method(g) /\ Shown(g) /\ Written(g)
  BY <1>0 DEF RefinementInv
<1>1. ASSUME NEW g \in G, (\E c \in Calls : Invoke(g, c)) \/ Step(g),
             Method(g)', Shown(g)', Written(g)'
      PROVE  RefinementInv'
  <2>1. Local(g) /\ (CanFail => CanFail')
    BY <1>1, StepsLocal, FailuresStay
  <2>2. \A h \in G \ {g} : Method(h)' /\ Shown(h)' /\ Written(h)'
    BY <2>1, OthersStay
  <2>. QED  BY <1>1, <2>2 DEF RefinementInv
<1>2. ASSUME NEW g \in G, pc'[g] \in {"unlock", "done"} PROVE Method(g)' /\ Shown(g)' /\ Written(g)'
  BY <1>2 DEF Method, Shown, Written, Invalidating, Reading
<1>3. ASSUME NEW g \in G, NEW c \in Calls, Invoke(g, c) PROVE RefinementInv'
  <2>1. /\ pc[g] = "idle" /\ pc'[g] = FirstPc(c) /\ call'[g] = c
        /\ res'[g] = NoResult /\ visited'[g] = {}
    BY <1>0, <1>3 DEF Invoke, TypeOK, Method, Shown, Invalidating
  <2>2. \/ c.op \in Writers /\ pc'[g] = "lock"
        \/ c.op = "Len" /\ pc'[g] = "crlock"
        \/ c.op \in {"Load", "Range", "Keys"} /\ pc'[g] = "rlock"
    BY <2>1, CallType DEF FirstPc, OpNames, Writers
  <2>3. Method(g)' /\ Shown(g)' /\ Written(g)'
    BY <2>1, <2>2 DEF Method, Shown, Written, Invalidating, Reading
  <2>. QED  BY <1>1, <1>3, <2>3
<1>4. ASSUME NEW g \in G, Lock(g) \/ Granted(g) PROVE RefinementInv'
  <2>1. /\ call'[g] = call[g] /\ res'[g] = res[g] /\ visited'[g] = visited[g]
        /\ UNCHANGED <<table, committed, open, statementsFail>>
    BY <1>4 DEF Lock, Acquire, ReadLock, WriteLock, CacheReadLock, CacheWriteLock, Granted
  <2>2. \/ pc[g] = "rlock" /\ pc'[g] = "rwait"
        \/ pc[g] = "rwait" /\ pc'[g] = "reading"
        \/ pc[g] = "lock" /\ pc'[g] = "wwait"
        \/ pc[g] = "wwait" /\ pc'[g] = "writing"
        \/ pc[g] = "inval" /\ pc'[g] = "iwait"
        \/ /\ pc[g] \in {"nrlock", "nrwait", "crlock", "crwait", "clock", "cwait"}
           /\ pc'[g] \in {"nrwait", "counting", "crwait", "cached", "cwait", "recheck"}
    BY <1>4 DEF Lock, Acquire, ReadLock, WriteLock, CacheReadLock, CacheWriteLock, Granted, TypeOK
  <2>3. Method(g)'
    BY <1>0, <2>1, <2>2 DEF Method, Invalidating
  <2>4. Shown(g)'
    BY <1>0, <2>1, <2>2 DEF Shown, Reading
  <2>5. Written(g)'
    BY <1>0, <2>1, <2>2 DEF Written, Invalidating, CanFail
  <2>. QED  BY <1>1, <1>4, <2>3, <2>4, <2>5 DEF Step
<1>5. ASSUME NEW g \in G, MarshalFails(g) \/ DeleteNothing(g) \/ Load(g) \/ KeysOf(g)
                          \/ RangeEnd(g) \/ Close(g) \/ Invalidate(g) \/ ReleaseLock(g)
                          \/ LenCount(g)
      PROVE  RefinementInv'
  <2>1. pc'[g] \in {"unlock", "done"}
    BY <1>5 DEF MarshalFails, DeleteNothing, Load, KeysOf, RangeEnd, Answer, Close, Invalidate,
                ReleaseLock, LenCount, TypeOK
  <2>. QED  BY <1>1, <1>2, <1>5, <2>1 DEF Step
<1>6. ASSUME NEW g \in G, RangeVisit(g) PROVE RefinementInv'
  <2>1. PICK p \in Pairs(table) :
             /\ visited' = [visited EXCEPT ![g] = @ \cup {p}]
             /\ \/ UNCHANGED <<shared, mutex, cachingMutex, pc, call, res>>
                \/ Answer(g, RangeResult(visited'[g], TRUE))
    BY <1>6 DEF RangeVisit
  <2>2. CASE UNCHANGED <<shared, mutex, cachingMutex, pc, call, res>>
    <3>1. Reading(g, "Range") /\ table = committed
      BY <1>6, TableCommitted DEF RangeVisit, Reading
    <3>2. visited'[g] \subseteq Pairs(committed)
      BY <1>0, <2>1, <3>1 DEF TypeOK, Shown
    <3>3. Method(g)' /\ Shown(g)' /\ Written(g)'
      BY <1>0, <2>2, <3>1, <3>2 DEF Method, Shown, Written, Reading, Invalidating
    <3>. QED  BY <1>1, <1>6, <3>3 DEF Step
  <2>3. CASE Answer(g, RangeResult(visited'[g], TRUE))
    <3>1. pc'[g] = "done"
      BY <2>3 DEF Answer, TypeOK
    <3>. QED  BY <1>1, <1>2, <1>6, <3>1 DEF Step
  <2>. QED  BY <2>1, <2>2, <2>3
<1>7. ASSUME NEW g \in G, Store(g) \/ Delete(g) \/ Clear(g) \/ NextItem(g) PROVE RefinementInv'
  <2>1. /\ pc[g] = "writing" /\ table = committed
        /\ UNCHANGED <<call, visited, committed, statementsFail, open>>
        /\ pc'[g] \in {"inval", "unlock"}
    BY <1>7, TableCommitted DEF Store, Delete, Clear, NextItem, Executed, Writing, TypeOK
  <2>2. CASE pc'[g] = "unlock"
    BY <1>1, <1>2, <1>7, <2>2 DEF Step
  <2>3. CASE pc'[g] = "inval"
    <3>1. Shown(g)'
      BY <2>3 DEF Shown, Reading
    <3>2. Method(g)'
      BY <1>0, <1>7, <2>1, <2>3 DEF Method, Invalidating, Store, Delete, Clear, NextItem, Writing
    <3>3. CanFail' = CanFail
      BY <2>1 DEF CanFail
    <3>4. Written(g)'
      <4>1. CASE Store(g)
        BY <2>1, <3>3, <4>1 DEF Written, Store, Executed, Writing
      <4>2. CASE Clear(g)
        BY <2>1, <3>3, <4>2 DEF Written, Clear, Executed, Writing
      <4>3. CASE Delete(g)
        <5>1. \E D \in SUBSET call[g].keys :
                 (CanFail \/ D = call[g].keys) /\ table' = Remove(committed, D)
          BY <2>1, <2>3, <4>3 DEF Delete, Executed, TypeOK
        <5>. QED  BY <2>1, <3>3, <4>3, <5>1 DEF Written, Delete, Writing
      <4>4. CASE NextItem(g)
        <5>1. \E k \in Present(committed) :
                 /\ res'[g] = NextResult({<<k, committed[k]>>})
                 /\ table' = Remove(committed, {k}) \/ (CanFail /\ table' = committed)
          BY <2>1, <2>3, <4>4 DEF NextItem, Executed, TypeOK
        <5>. QED  BY <2>1, <3>3, <4>4, <5>1 DEF Written, NextItem, Writing
      <4>. QED  BY <1>7, <4>1, <4>2, <4>3, <4>4
    <3>. QED  BY <1>1, <1>7, <3>1, <3>2, <3>4 DEF Step
  <2>. QED  BY <2>1, <2>2, <2>3
<1>8. ASSUME NEW g \in G, LenFast(g) \/ LenRecheck(g) PROVE RefinementInv'
  <2>1. \/ pc'[g] = "done"
        \/ /\ pc[g] \in {"cached", "recheck"} /\ pc'[g] \in {"clock", "nrlock"}
           /\ call' = call /\ res' = res
    BY <1>8 DEF LenFast, LenRecheck, TypeOK
  <2>2. CASE pc'[g] # "done"
    <3>1. Method(g)' /\ Shown(g)' /\ Written(g)'
      BY <1>0, <2>1, <2>2 DEF Method, Shown, Written, Invalidating, Reading
    <3>. QED  BY <1>1, <1>8, <3>1 DEF Step
  <2>. QED  BY <1>1, <1>2, <1>8, <2>2 DEF Step
<1>9. ASSUME NEW g \in G, Return(g) PROVE RefinementInv'
  <2>1. pc'[g] = "idle" /\ visited'[g] = {} /\ res'[g] = NoResult
    BY <1>9 DEF Return, TypeOK
  <2>2. Method(g)' /\ Shown(g)' /\ Written(g)'
    BY <2>1 DEF Method, Shown, Written, Invalidating, Reading
  <2>. QED  BY <1>1, <1>9, <2>2 DEF Step
<1>10. CASE CacheExpires \/ UNCHANGED vars
  <2>1. UNCHANGED <<pc, call, res, visited, table, committed, statementsFail, open>>
    BY <1>10 DEF CacheExpires, vars
  <2>2. CanFail' = CanFail
    BY <2>1 DEF CanFail
  <2>3. ASSUME NEW g \in G PROVE Method(g)' /\ Shown(g)' /\ Written(g)'
    BY <1>0, <2>1, <2>2 DEF Method, Shown, Written, Invalidating, Reading
  <2>. QED  BY <2>3 DEF RefinementInv
<1>. QED
  BY <1>3, <1>4, <1>5, <1>6, <1>7, <1>8, <1>9, <1>10 DEF Next, Step

\* Every step is a step of the contract, or one that it does not see.
LEMMA RefinementStep ==
    ASSUME TypeOK, MutexInv, CountCacheCoherent, RefinementInv, [Next]_vars
    PROVE  [Contract!FaultyNext]_(Contract!fvars)
<1>. USE DEF Goto, SetRes, shared
<1>0. ASSUME NEW g \in G
      PROVE  Method(g) /\ Shown(g) /\ Written(g)
  BY <1>0 DEF RefinementInv
<1>1. ASSUME NEW g \in G, Step(g)
      PROVE  Local(g) /\ (CanFail => CanFail') /\ (CanFail' = CanFail \/ Close(g))
  BY <1>1, StepsLocal, FailuresStay
<1>2. ASSUME NEW g \in G, Step(g), call' = call, committed' = committed, ~Close(g),
             PhaseOf(g)' = PhaseOf(g), ResOf(g)' = ResOf(g)
      PROVE  UNCHANGED Contract!fvars
  <2>1. absPhase' = absPhase /\ absRes' = absRes
    BY <1>1, <1>2, SeenStep DEF absPhase, absRes
  <2>. QED  BY <1>1, <1>2, <2>1 DEF Contract!fvars
<1>3. ASSUME NEW g \in G, CanFail' = CanFail, Contract!Effect(g) \/ Contract!Return(g)
      PROVE  Contract!FaultyNext
  BY <1>3 DEF Contract!FaultyNext, Contract!Next
<1>4. ASSUME NEW g \in G, CanFail' = CanFail, CanFail, Contract!Fail(g)
      PROVE  Contract!FaultyNext
  BY <1>4 DEF Contract!FaultyNext
<1>5. ASSUME NEW g \in G, Step(g), call' = call, NEW op, NEW r,
             PhaseOf(g) = "pending", PhaseOf(g)' = "done", ResOf(g)' = r, call[g].op = op
      PROVE  Contract!Perform(g, op, committed', r)
  BY <1>1, <1>5, SeenStep DEF Contract!Perform
<1>6. ASSUME NEW g \in G, NEW c \in Calls, Invoke(g, c)
      PROVE  Contract!FaultyNext
  <2>1. Local(g) /\ CanFail' = CanFail
    <3>1. UNCHANGED <<statementsFail, open>>
      BY <1>6 DEF Invoke
    <3>. QED  BY <1>6, <3>1, StepsLocal DEF CanFail
  <2>2. /\ pc[g] = "idle" /\ pc'[g] \in {"lock", "crlock", "rlock"}
        /\ call' = [call EXCEPT ![g] = c] /\ committed' = committed
    BY <1>6 DEF Invoke, TypeOK, FirstPc
  <2>3. /\ PhaseOf(g) = "idle" /\ PhaseOf(g)' = "pending"
        /\ ResOf(g) = NoResult /\ ResOf(g)' = NoResult
    BY <2>2 DEF PhaseOf, ResOf, Reading
  <2>4. absRes' = absRes
    BY <2>1, <2>3, SeenStep DEF absRes
  <2>5. Contract!Invoke(g, c)
    BY <2>1, <2>2, <2>3, <2>4, SeenStep DEF Contract!Invoke
  <2>. QED  BY <2>1, <2>5, ContractWords DEF Contract!FaultyNext, Contract!Next
<1>7. ASSUME NEW g \in G, Lock(g) PROVE UNCHANGED Contract!fvars
  <2>1. /\ call' = call /\ committed' = committed
        /\ pc[g] \in {"rlock", "nrlock", "lock", "crlock", "clock", "inval"}
        /\ pc'[g] \in {"rwait", "nrwait", "wwait", "crwait", "cwait", "iwait"}
    BY <1>7 DEF Lock, Acquire, ReadLock, WriteLock, CacheReadLock, CacheWriteLock, TypeOK
  <2>2. /\ PhaseOf(g)' = "pending" /\ PhaseOf(g) = "pending"
        /\ ResOf(g)' = NoResult /\ ResOf(g) = NoResult
    BY <2>1 DEF PhaseOf, ResOf, Reading
  <2>3. ~Close(g)
    BY <2>1 DEF Close, Writing
  <2>. QED  BY <1>2, <1>7, <2>1, <2>2, <2>3 DEF Step
<1>8. ASSUME NEW g \in G, Granted(g) PROVE [Contract!FaultyNext]_(Contract!fvars)
  <2>1. /\ call' = call /\ committed' = committed /\ Step(g) /\ ~Close(g)
        /\ \/ pc[g] = "rwait" /\ pc'[g] = "reading"
           \/ /\ pc[g] \in {"nrwait", "wwait", "crwait", "cwait"}
              /\ pc'[g] \in {"counting", "writing", "cached", "recheck"}
    BY <1>8 DEF Granted, TypeOK, Step, Close, Writing
  <2>2. CASE pc[g] = "rwait" /\ call[g].op = "Range"
    <3>1. /\ PhaseOf(g) = "pending" /\ PhaseOf(g)' = "ranging"
          /\ ResOf(g)' = RangeResult(Pairs(committed), FALSE)
      BY <2>1, <2>2 DEF PhaseOf, ResOf, Reading
    <3>2. Contract!RangeSnapshot(g)
      BY <1>1, <2>1, <2>2, <3>1, SeenStep, ContractWords DEF Contract!RangeSnapshot
    <3>. QED  BY <1>1, <1>3, <2>1, <3>2 DEF Contract!Effect
  <2>3. CASE ~(pc[g] = "rwait" /\ call[g].op = "Range")
    <3>1. /\ PhaseOf(g)' = "pending" /\ PhaseOf(g) = "pending"
          /\ ResOf(g)' = NoResult /\ ResOf(g) = NoResult
      BY <2>1, <2>3 DEF PhaseOf, ResOf, Reading
    <3>. QED  BY <1>2, <2>1, <3>1
  <2>. QED  BY <2>2, <2>3
<1>9. ASSUME NEW g \in G, Step(g), call' = call, pc[g] \notin {"idle", "unlock", "done"},
             ~Reading(g, "Range"), pc'[g] \in {"unlock", "done"}, NEW r, res'[g] = r
      PROVE  Contract!Perform(g, call[g].op, committed', r)
  <2>1. PhaseOf(g) = "pending" /\ PhaseOf(g)' = "done" /\ ResOf(g)' = r
    BY <1>9 DEF PhaseOf, ResOf, Reading
  <2>. QED  BY <1>5, <1>9, <2>1
<1>10. ASSUME NEW g \in G, MarshalFails(g) PROVE Contract!FaultyNext
  <2>1. /\ Step(g) /\ call' = call /\ committed' = committed /\ CanFail /\ CanFail' = CanFail
        /\ pc[g] \in {"rlock", "lock"} /\ pc'[g] = "done" /\ call[g].op \in {"Load", "Store"}
        /\ res'[g] = IF call[g].op = "Load" THEN LoadResult(Absent) ELSE NoResult
    <3>1. UNCHANGED <<statementsFail, open>> /\ CanFail
      BY <1>10 DEF MarshalFails, CanFail
    <3>2. CanFail' = CanFail
      BY <3>1 DEF CanFail
    <3>. QED  BY <1>10, <3>1, <3>2 DEF MarshalFails, TypeOK, Step
  <2>2. Contract!FailAll(g)
    BY <1>9, <2>1, ContractWords DEF Contract!FailAll, Reading
  <2>. QED  BY <1>4, <2>1, <2>2 DEF Contract!Fail
<1>11. ASSUME NEW g \in G, DeleteNothing(g) PROVE Contract!FaultyNext
  <2>1. /\ Step(g) /\ call' = call /\ committed' = committed /\ ~Close(g)
        /\ pc[g] = "lock" /\ pc'[g] = "done" /\ call[g].op = "Delete" /\ call[g].keys = {}
        /\ res'[g] = NoResult
    BY <1>0, <1>11 DEF DeleteNothing, TypeOK, Step, Close, Writing, Method, Invalidating
  <2>2. Remove(committed, {}) = committed
    BY DEF Remove, TypeOK, Contents
  <2>3. Contract!Delete(g)
    BY <1>9, <2>1, <2>2, ContractWords DEF Contract!Delete, Reading
  <2>. QED  BY <1>1, <1>3, <2>1, <2>3 DEF Contract!Effect
<1>12. ASSUME NEW g \in G, pc[g] = "reading", call[g].op # "Range", Step(g), NEW r, Answer(g, r)
       PROVE  Contract!Perform(g, call[g].op, committed, r) /\ CanFail' = CanFail
  <2>1. call' = call /\ committed' = committed /\ pc'[g] = "done" /\ res'[g] = r
    BY <1>12 DEF Answer, TypeOK
  <2>. QED  BY <1>1, <1>9, <1>12, <2>1 DEF Reading, Close, Writing
<1>13. ASSUME NEW g \in G, Load(g) PROVE Contract!FaultyNext
  <2>1. pc[g] = "reading" /\ call[g].op = "Load" /\ Step(g) /\ table = committed
    BY <1>13, TableCommitted DEF Load, Reading, Step
  <2>2. CASE Answer(g, LoadResult(table[call[g].key]))
    <3>1. Contract!Load(g)
      BY <1>12, <2>1, <2>2, ContractWords DEF Contract!Load
    <3>. QED  BY <1>3, <1>12, <2>1, <2>2, <3>1 DEF Contract!Effect
  <2>3. CASE CanFail /\ Answer(g, LoadResult(Absent))
    <3>1. Contract!FailAll(g)
      BY <1>12, <2>1, <2>3, ContractWords DEF Contract!FailAll
    <3>. QED  BY <1>4, <1>12, <2>1, <2>3, <3>1 DEF Contract!Fail
  <2>. QED  BY <1>13, <2>2, <2>3 DEF Load
<1>14. ASSUME NEW g \in G, KeysOf(g) PROVE Contract!FaultyNext
  <2>1. pc[g] = "reading" /\ call[g].op = "Keys" /\ Step(g) /\ table = committed
    BY <1>14, TableCommitted DEF KeysOf, Reading, Step
  <2>2. PICK S \in SUBSET Present(committed) :
             (CanFail \/ S = Present(committed)) /\ Answer(g, KeysResult(S))
    BY <1>14, <2>1 DEF KeysOf
  <2>3. Contract!Perform(g, "Keys", committed, KeysResult(S)) /\ CanFail' = CanFail
    BY <1>12, <2>1, <2>2
  <2>4. CASE CanFail
    <3>1. Contract!FailSome(g)
      BY <2>3, ContractWords DEF Contract!FailSome
    <3>. QED  BY <1>4, <2>3, <2>4, <3>1 DEF Contract!Fail
  <2>5. CASE S = Present(committed)
    <3>1. Contract!KeysOf(g)
      BY <2>3, <2>5, ContractWords DEF Contract!KeysOf
    <3>. QED  BY <1>3, <2>3, <3>1 DEF Contract!Effect
  <2>. QED  BY <2>2, <2>4, <2>5
<1>15. ASSUME NEW g \in G, Reading(g, "Range"), Step(g), NEW P, NEW b, Answer(g, RangeResult(P, b))
       PROVE  /\ absPhase[g] = "ranging" /\ absPhase' = [absPhase EXCEPT ![g] = "done"]
              /\ absRes[g] = RangeResult(Pairs(committed), FALSE)
              /\ absRes[g].pairs = Pairs(committed)
              /\ absRes' = [absRes EXCEPT ![g] = RangeResult(P, b)]
              /\ call' = call /\ committed' = committed /\ CanFail' = CanFail
  <2>1. /\ PhaseOf(g) = "ranging" /\ ResOf(g) = RangeResult(Pairs(committed), FALSE)
        /\ PhaseOf(g)' = "done" /\ ResOf(g)' = RangeResult(P, b)
        /\ call' = call /\ committed' = committed /\ ~Close(g)
    BY <1>15 DEF Answer, Reading, PhaseOf, ResOf, TypeOK, Close, Writing
  <2>2. RangeResult(Pairs(committed), FALSE).pairs = Pairs(committed)
    BY DEF RangeResult
  <2>. QED  BY <1>1, <1>15, <2>1, <2>2, SeenStep
<1>16. ASSUME NEW g \in G, RangeVisit(g) PROVE [Contract!FaultyNext]_(Contract!fvars)
  <2>1. Reading(g, "Range") /\ Step(g) /\ table = committed /\ ~Close(g)
    BY <1>16, TableCommitted DEF RangeVisit, Reading, Step, Close, Writing
  <2>2. PICK p \in Pairs(table) :
             /\ visited' = [visited EXCEPT ![g] = @ \cup {p}]
             /\ \/ UNCHANGED <<shared, mutex, cachingMutex, pc, call, res>>
                \/ Answer(g, RangeResult(visited'[g], TRUE))
    BY <1>16 DEF RangeVisit
  <2>3. CASE UNCHANGED <<shared, mutex, cachingMutex, pc, call, res>>
    <3>1. PhaseOf(g)' = PhaseOf(g) /\ ResOf(g)' = ResOf(g)
      BY <2>3 DEF PhaseOf, ResOf, Reading
    <3>. QED  BY <1>2, <2>1, <2>3, <3>1
  <2>4. CASE Answer(g, RangeResult(visited'[g], TRUE))
    <3>1. visited'[g] \in (SUBSET Pairs(committed)) \ {{}}
      BY <1>0, <2>1, <2>2 DEF Shown, TypeOK
    <3>2. /\ absPhase[g] = "ranging" /\ absPhase' = [absPhase EXCEPT ![g] = "done"]
          /\ absRes[g] = RangeResult(Pairs(committed), FALSE)
          /\ absRes[g].pairs = Pairs(committed)
          /\ absRes' = [absRes EXCEPT ![g] = RangeResult(visited'[g], TRUE)]
          /\ call' = call /\ committed' = committed /\ CanFail' = CanFail
      BY <1>15, <2>1, <2>4
    <3>3. Contract!RangeDone(g)
      BY <3>1, <3>2, ContractWords DEF Contract!RangeDone
    <3>. QED  BY <1>3, <3>2, <3>3 DEF Contract!Effect
  <2>. QED  BY <2>2, <2>3, <2>4
<1>17. ASSUME NEW g \in G, RangeEnd(g) PROVE Contract!FaultyNext
  <2>1. /\ Reading(g, "Range") /\ Step(g) /\ table = committed
        /\ Answer(g, RangeResult(visited[g], FALSE)) /\ visited[g] \subseteq Pairs(committed)
        /\ CanFail \/ Pairs(table) \subseteq visited[g]
    BY <1>0, <1>17, TableCommitted DEF RangeEnd, Reading, Step, Shown
  <2>0. /\ absPhase[g] = "ranging" /\ absPhase' = [absPhase EXCEPT ![g] = "done"]
        /\ absRes[g] = RangeResult(Pairs(committed), FALSE)
        /\ absRes[g].pairs = Pairs(committed)
        /\ absRes' = [absRes EXCEPT ![g] = RangeResult(visited[g], FALSE)]
        /\ call' = call /\ committed' = committed /\ CanFail' = CanFail
    BY <1>15, <2>1
  <2>2. CASE CanFail
    <3>1. Contract!FailRange(g)
      BY <2>0, <2>1, ContractWords DEF Contract!FailRange
    <3>. QED  BY <1>4, <2>0, <2>2, <3>1 DEF Contract!Fail
  <2>3. CASE Pairs(table) \subseteq visited[g]
    <3>1. visited[g] = Pairs(committed)
      BY <2>1, <2>3
    <3>2. absRes' = absRes
      BY <2>0, <3>1 DEF absRes
    <3>3. Contract!RangeDone(g)
      BY <2>0, <3>2 DEF Contract!RangeDone
    <3>. QED  BY <1>3, <2>0, <3>3 DEF Contract!Effect
  <2>. QED  BY <2>1, <2>2, <2>3
<1>18. ASSUME NEW g \in G, pc[g] = "writing", Step(g), call' = call, committed' = committed,
              pc'[g] = "inval", ~Close(g)
       PROVE  UNCHANGED Contract!fvars
  <2>1. /\ PhaseOf(g)' = "pending" /\ PhaseOf(g) = "pending"
        /\ ResOf(g)' = NoResult /\ ResOf(g) = NoResult
    BY <1>18 DEF PhaseOf, ResOf, Reading
  <2>. QED  BY <1>2, <1>18, <2>1
<1>19. ASSUME NEW g \in G, Store(g) \/ Clear(g) PROVE UNCHANGED Contract!fvars
  <2>1. /\ pc[g] = "writing" /\ Step(g) /\ call' = call /\ committed' = committed
        /\ pc'[g] = "inval" /\ ~Close(g)
    BY <1>19 DEF Store, Clear, Executed, Writing, Step, Close, TypeOK
  <2>. QED  BY <1>18, <2>1
<1>20. ASSUME NEW g \in G, Delete(g) PROVE [Contract!FaultyNext]_(Contract!fvars)
  <2>1. /\ pc[g] = "writing" /\ Step(g) /\ call' = call /\ committed' = committed
        /\ call[g].op = "Delete" /\ ~Close(g) /\ res' = res /\ res[g] = NoResult
    BY <1>0, <1>20 DEF Delete, Executed, Writing, Step, Close, Method, Invalidating
  <2>2. pc'[g] = "inval" \/ (CanFail /\ pc'[g] = "unlock")
    BY <1>20 DEF Delete, Executed, TypeOK
  <2>3. CASE CanFail /\ pc'[g] = "unlock"
    <3>1. Remove(committed, {}) = committed
      BY DEF Remove, TypeOK, Contents
    <3>2. Contract!Perform(g, "Delete", Remove(committed, {}), NoResult)
      BY <1>9, <2>1, <2>3, <3>1 DEF Reading
    <3>3. Contract!FailSome(g)
      BY <2>1, <3>2, ContractWords DEF Contract!FailSome
    <3>. QED  BY <1>1, <1>4, <2>1, <2>3, <3>3 DEF Contract!Fail
  <2>. QED  BY <1>18, <2>1, <2>2, <2>3
<1>21. ASSUME NEW g \in G, NextItem(g) PROVE [Contract!FaultyNext]_(Contract!fvars)
  <2>1. /\ pc[g] = "writing" /\ Step(g) /\ call' = call /\ committed' = committed
        /\ call[g].op = "Next" /\ ~Close(g) /\ table = committed
    BY <1>21, TableCommitted DEF NextItem, Executed, Writing, Step, Close
  <2>2. \/ pc'[g] = "inval"
        \/ /\ CanFail \/ Present(committed) = {}
           /\ pc'[g] = "unlock" /\ res'[g] = NextResult({})
    BY <1>21, <2>1 DEF NextItem, Executed, TypeOK
  <2>3. CASE /\ CanFail \/ Present(committed) = {}
             /\ pc'[g] = "unlock" /\ res'[g] = NextResult({})
    <3>1. Contract!Perform(g, "Next", committed, NextResult({}))
      BY <1>9, <2>1, <2>3 DEF Reading
    <3>2. CASE CanFail
      <4>1. Contract!FailAll(g)
        BY <3>1, ContractWords DEF Contract!FailAll
      <4>. QED  BY <1>1, <1>4, <2>1, <3>2, <4>1 DEF Contract!Fail
    <3>3. CASE Present(committed) = {}
      <4>1. "Next" \in OpNames
        BY DEF OpNames
      <4>2. Contract!NextItem(g)
        BY <3>1, <3>3, <4>1, ContractWords DEF Contract!NextItem
      <4>. QED  BY <1>1, <1>3, <2>1, <4>2 DEF Contract!Effect
    <3>. QED  BY <2>3, <3>2, <3>3
  <2>. QED  BY <1>18, <2>1, <2>2, <2>3
<1>22. ASSUME NEW g \in G, Close(g) PROVE Contract!FaultyNext
  <2>1. /\ pc[g] = "writing" /\ Step(g) /\ call' = call /\ committed' = committed
        /\ call[g].op = "Close" /\ pc'[g] = "unlock" /\ res'[g] = NoResult
    BY <1>0, <1>22 DEF Close, Writing, Step, Method, Invalidating, TypeOK
  <2>2. CanFail' = TRUE
    BY <1>22 DEF Close, CanFail
  <2>3. Contract!Close(g)
    BY <1>9, <2>1, ContractWords DEF Contract!Close, Reading
  <2>. QED  BY <2>2, <2>3 DEF Contract!FaultyNext
<1>23. ASSUME NEW g \in G, Invalidate(g) PROVE Contract!FaultyNext
  <2>1. /\ pc[g] = "iwait" /\ Step(g) /\ call' = call /\ committed' = table
        /\ pc'[g] = "unlock" /\ res' = res /\ ~Close(g)
    BY <1>23 DEF Invalidate, Step, Close, Writing, TypeOK
  <2>2. Contract!Perform(g, call[g].op, table, res[g])
    BY <1>9, <2>1 DEF Reading
  <2>3. CanFail' = CanFail
    BY <1>1, <2>1
  <2>4. Written(g) /\ Invalidating(g)
    BY <1>0, <2>1 DEF Invalidating
  <2>5. call[g].op # "Next" => res[g] = NoResult
    BY <1>0, <2>1 DEF Method
  <2>6. CASE call[g].op = "Store"
    <3>1. \/ table = Put(committed, call[g].key, call[g].val)
          \/ CanFail /\ table = committed
      BY <2>4, <2>6 DEF Written
    <3>2. Contract!Store(g) \/ (CanFail /\ Contract!FailAll(g))
      BY <2>2, <2>5, <2>6, <3>1, ContractWords DEF Contract!Store, Contract!FailAll
    <3>. QED  BY <1>3, <1>4, <2>3, <3>2 DEF Contract!Effect, Contract!Fail
  <2>7. CASE call[g].op = "Clear"
    <3>1. table = Empty \/ (CanFail /\ table = committed)
      BY <2>4, <2>7 DEF Written
    <3>2. Contract!Clear(g) \/ (CanFail /\ Contract!FailAll(g))
      BY <2>2, <2>5, <2>7, <3>1, ContractWords DEF Contract!Clear, Contract!FailAll
    <3>. QED  BY <1>3, <1>4, <2>3, <3>2 DEF Contract!Effect, Contract!Fail
  <2>8. CASE call[g].op = "Delete"
    <3>1. PICK D \in SUBSET call[g].keys :
               (CanFail \/ D = call[g].keys) /\ table = Remove(committed, D)
      BY <2>4, <2>8 DEF Written
    <3>2. Contract!Perform(g, "Delete", Remove(committed, D), NoResult)
      BY <2>2, <2>5, <2>8, <3>1
    <3>3. CASE CanFail
      <4>1. Contract!FailSome(g)
        BY <2>8, <3>2, ContractWords DEF Contract!FailSome
      <4>. QED  BY <1>4, <2>3, <3>3, <4>1 DEF Contract!Fail
    <3>4. CASE D = call[g].keys
      <4>1. "Delete" \in OpNames
        BY DEF OpNames
      <4>2. Contract!Delete(g)
        BY <3>2, <3>4, <4>1, ContractWords DEF Contract!Delete
      <4>. QED  BY <1>3, <2>3, <4>2 DEF Contract!Effect
    <3>. QED  BY <3>1, <3>3, <3>4
  <2>9. CASE call[g].op = "Next"
    <3>1. PICK k \in Present(committed) :
               /\ res[g] = NextResult({<<k, committed[k]>>})
               /\ table = Remove(committed, {k}) \/ (CanFail /\ table = committed)
      BY <2>4, <2>9 DEF Written
    <3>2. CASE table = Remove(committed, {k})
      <4>1. "Next" \in OpNames
        BY DEF OpNames
      <4>2. Contract!NextItem(g)
        BY <2>2, <2>9, <3>1, <3>2, <4>1, ContractWords DEF Contract!NextItem
      <4>. QED  BY <1>3, <2>3, <4>2 DEF Contract!Effect
    <3>3. CASE CanFail /\ table = committed
      <4>1. Contract!FailNext(g)
        BY <2>2, <2>9, <3>1, <3>3, ContractWords DEF Contract!FailNext
      <4>. QED  BY <1>4, <2>3, <3>3, <4>1 DEF Contract!Fail
    <3>. QED  BY <3>1, <3>2, <3>3
  <2>. QED  BY <2>4, <2>6, <2>7, <2>8, <2>9 DEF Written
<1>24. ASSUME NEW g \in G, ReleaseLock(g) PROVE UNCHANGED Contract!fvars
  <2>1. /\ pc[g] = "unlock" /\ Step(g) /\ call' = call /\ committed' = committed
        /\ pc'[g] = "done" /\ res' = res /\ ~Close(g)
    BY <1>24 DEF ReleaseLock, Step, Close, Writing, TypeOK
  <2>2. PhaseOf(g)' = PhaseOf(g) /\ ResOf(g)' = ResOf(g)
    BY <2>1 DEF PhaseOf, ResOf, Reading
  <2>. QED  BY <1>2, <2>1, <2>2
<1>25. ASSUME NEW g \in G, NEW r, Step(g), call' = call, committed' = committed, ~Close(g),
              pc[g] \in {"cached", "recheck", "counting"}, pc'[g] = "done", res'[g] = LenResult(r),
              r = Cardinality(Present(committed)) \/ (CanFail /\ r = 0)
       PROVE  Contract!FaultyNext
  <2>1. call[g].op = "Len"
    BY <1>0, <1>25 DEF Method
  <2>2. Contract!Perform(g, "Len", committed, LenResult(r))
    BY <1>9, <1>25, <2>1 DEF Reading
  <2>3. CASE r = Cardinality(Present(committed))
    <3>1. "Len" \in OpNames
      BY DEF OpNames
    <3>2. Contract!LenOf(g)
      BY <2>2, <2>3, <3>1, ContractWords DEF Contract!LenOf
    <3>. QED  BY <1>1, <1>3, <1>25, <3>2 DEF Contract!Effect
  <2>4. CASE CanFail /\ r = 0
    <3>1. Contract!FailAll(g)
      BY <2>2, <2>4, ContractWords DEF Contract!FailAll
    <3>. QED  BY <1>1, <1>4, <1>25, <2>4, <3>1 DEF Contract!Fail
  <2>. QED  BY <1>25, <2>3, <2>4
<1>26. ASSUME NEW g \in G, LenFast(g) \/ LenRecheck(g) PROVE [Contract!FaultyNext]_(Contract!fvars)
  <2>1. /\ Step(g) /\ call' = call /\ committed' = committed /\ ~Close(g)
        /\ pc[g] \in {"cached", "recheck"}
        /\ \/ CacheValid /\ res'[g] = LenResult(countCache) /\ pc'[g] = "done"
           \/ pc'[g] \in {"clock", "nrlock"}
    BY <1>26 DEF LenFast, LenRecheck, Step, Close, Writing, TypeOK
  <2>2. CASE CacheValid /\ res'[g] = LenResult(countCache) /\ pc'[g] = "done"
    <3>1. countCache = Cardinality(Present(committed))
      BY <2>2 DEF CacheValid, CountCacheCoherent
    <3>. QED  BY <1>25, <2>1, <2>2, <3>1
  <2>3. CASE pc'[g] \in {"clock", "nrlock"}
    <3>1. /\ PhaseOf(g)' = "pending" /\ PhaseOf(g) = "pending"
          /\ ResOf(g)' = NoResult /\ ResOf(g) = NoResult
      BY <2>1, <2>3 DEF PhaseOf, ResOf, Reading
    <3>. QED  BY <1>2, <2>1, <3>1
  <2>. QED  BY <2>1, <2>2, <2>3
<1>27. ASSUME NEW g \in G, LenCount(g) PROVE Contract!FaultyNext
  <2>1. /\ Step(g) /\ call' = call /\ committed' = committed /\ ~Close(g)
        /\ pc[g] = "counting" /\ pc'[g] = "done" /\ table = committed
    BY <1>27, TableCommitted DEF LenCount, Step, Close, Writing, TypeOK
  <2>2. \/ res'[g] = LenResult(Cardinality(Present(committed)))
        \/ CanFail /\ res'[g] = LenResult(0)
    BY <1>27, <2>1 DEF LenCount, TypeOK
  <2>. QED  BY <1>25, <2>1, <2>2
<1>28. ASSUME NEW g \in G, Return(g) PROVE Contract!FaultyNext
  <2>1. /\ pc[g] = "done" /\ pc'[g] = "idle" /\ Step(g) /\ ~Close(g)
        /\ call' = [call EXCEPT ![g] = NoCall] /\ committed' = committed
    BY <1>28 DEF Step, Return, Close, Writing, TypeOK
  <2>2. PhaseOf(g) = "done" /\ PhaseOf(g)' = "idle" /\ ResOf(g)' = NoResult
    BY <2>1 DEF PhaseOf, ResOf, Reading
  <2>3. Contract!Return(g)
    BY <1>1, <2>1, <2>2, SeenStep, ContractWords DEF Contract!Return
  <2>. QED  BY <1>1, <1>3, <2>1, <2>3
<1>29. CASE CacheExpires \/ UNCHANGED vars
  <2>1. UNCHANGED <<pc, call, res, committed, statementsFail, open>>
    BY <1>29 DEF CacheExpires, vars
  <2>2. \A g \in G : PhaseOf(g)' = PhaseOf(g) /\ ResOf(g)' = ResOf(g)
    BY <2>1 DEF PhaseOf, ResOf, Reading
  <2>3. absPhase' = absPhase /\ absRes' = absRes /\ CanFail' = CanFail
    BY <2>1, <2>2 DEF absPhase, absRes, CanFail
  <2>. QED  BY <2>1, <2>3 DEF Contract!fvars
<1>. QED
  BY <1>6, <1>7, <1>8, <1>10, <1>11, <1>13, <1>14, <1>16, <1>17, <1>19, <1>20, <1>21, <1>22,
     <1>23, <1>24, <1>26, <1>27, <1>28, <1>29 DEF Next, Step

\* Every behaviour of the SQLite storage is, seen by its callers, one of
\* FaultyContract with every operation atomic: as long as the database is open
\* and its statements succeed each call, the cached Len and Next included,
\* takes effect at one instant, and afterwards it does no more harm than
\* FaultyContract allows, for any number of goroutines.
THEOREM Linearizable == Spec => ImplementsContract
<1>1. Init => MutexInv
  BY DEF Init, MutexInv, Unlocked, WritePcs, ReadPcs
<1>. QED
  BY <1>1, TypeCorrect, MutexInvStep, CacheCoherence, RefinementInit, RefinementInvStep,
     RefinementStep, PTL DEF Spec, ImplementsContract, Contract!FaultySpec
=============================================================================
