----------------------- MODULE InMemoryStorageProofs ------------------------
(***************************************************************************)
(* Proofs about InMemoryStorage, for any number of goroutines, keys and    *)
(* values: its types, that its map is never read while it is written, that *)
(* a callback of Range that waits for its own Range waits for ever, and    *)
(* that every call takes effect at one moment as StorageContract says.     *)
(***************************************************************************)
EXTENDS InMemoryStorage, FiniteSetTheorems, TLAPS

-----------------------------------------------------------------------------
\* The contents, calls and results of StorageInterface.

\* What Put, Remove and Empty return are contents, and the pairs of contents
\* are pairs of a key and a value.
LEMMA ContentsType ==
    /\ Empty \in Contents
    /\ \A d \in Contents, k \in Keys, v \in Values : Put(d, k, v) \in Contents
    /\ \A d \in Contents : \A S : Remove(d, S) \in Contents
    /\ \A d \in Contents : Pairs(d) \in SUBSET (Keys \X Values)
    /\ \A d \in Contents : \A k \in Present(d) : k \in Keys /\ d[k] \in Values
BY DEF Empty, Contents, Put, Remove, Pairs, Present

\* The number of keys of a store is a natural number.
LEMMA CountType == \A d \in Contents : Cardinality(Present(d)) \in Nat
<1>1. TAKE d \in Contents
<1>2. IsFiniteSet(Present(d))
  BY KeysFinite, FS_Subset, Present(d) \subseteq Keys DEF Present
<1>. QED  BY <1>2, FS_CardinalityType

\* The arguments of the calls.
LEMMA CallType ==
    \A c \in Calls :
        /\ c.op \in OpNames
        /\ c.op \in {"Load", "Store"} => c.key \in Keys
        /\ c.op = "Store" => c.val \in Values
        /\ c.op = "Delete" => /\ c.keys \in SUBSET Keys
                              /\ \A S \in SUBSET Keys : [c EXCEPT !.keys = S] \in Calls
BY DEF Calls, OpNames

-----------------------------------------------------------------------------
\* Every state has the types that the declarations of the store promise: in
\* particular what Next and Range hand out are pairs of a key and a value.
THEOREM TypeCorrect == Spec => []TypeOK
<1>1. Init => TypeOK
  BY ContentsType DEF Init, TypeOK, Unlocked, RWMutexes, Results
<1>2. TypeOK /\ [Next]_vars => TypeOK'
  <2> SUFFICES ASSUME TypeOK, [Next]_vars PROVE TypeOK'
    OBVIOUS
  <2> USE DEF Goto, CallbackPcs, ReadPcs, WritePcs
  <2>1. ASSUME NEW g \in G, NEW c \in Calls, Invoke(g, c) PROVE TypeOK'
    BY <2>1, CallType DEF TypeOK, Invoke, FirstPc
  <2>2. ASSUME NEW g \in G, TakeRLock(g) PROVE TypeOK'
    BY <2>2 DEF TypeOK, TakeRLock, RLock, RWMutexes
  <2>3. ASSUME NEW g \in G, RLocked(g) PROVE TypeOK'
    BY <2>3 DEF TypeOK, RLocked
  <2>4. ASSUME NEW g \in G, TakeLock(g) PROVE TypeOK'
    BY <2>4 DEF TypeOK, TakeLock, Announce, RWMutexes
  <2>5. ASSUME NEW g \in G, Locked(g) PROVE TypeOK'
    BY <2>5 DEF TypeOK, Locked
  <2>6. ASSUME NEW g \in G, ReleaseLock(g) PROVE TypeOK'
    BY <2>6 DEF TypeOK, ReleaseLock, Unlock, RWMutexes
  <2>7. ASSUME NEW g \in G, NEW r \in Results, Answer(g, r),
               visited' \in [G -> SUBSET (Keys \X Values)]
        PROVE  TypeOK'
    BY <2>7 DEF TypeOK, Answer, RUnlock, RWMutexes
  <2>8. ASSUME NEW g \in G, Load(g) PROVE TypeOK'
    <3>1. call[g] \in Calls /\ call[g].op = "Load"
      BY <2>8 DEF Load, Reading, TypeOK, NoCall
    <3>2. LoadResult(data[call[g].key]) \in Results
      BY <3>1, CallType DEF TypeOK, Contents, LoadResult, Results
    <3>. QED  BY <2>7, <2>8, <3>2 DEF Load, TypeOK
  <2>9. ASSUME NEW g \in G, KeysOf(g) PROVE TypeOK'
    <3>1. KeysResult(Present(data)) \in Results
      BY ContentsType DEF TypeOK, KeysResult, Results
    <3>. QED  BY <2>7, <2>9, <3>1 DEF KeysOf, TypeOK
  <2>10. ASSUME NEW g \in G, LenOf(g) PROVE TypeOK'
    <3>1. LenResult(Cardinality(Present(data))) \in Results
      BY CountType DEF TypeOK, LenResult, Results
    <3>. QED  BY <2>7, <2>10, <3>1 DEF LenOf, TypeOK
  <2>11. ASSUME NEW g \in G, RangeVisit(g) PROVE TypeOK'
    <3>0. PICK p \in Pairs(data) :
             /\ visited' = [visited EXCEPT ![g] = @ \cup {p}]
             /\ \/ /\ todo' = [todo EXCEPT ![g] = {p[1]}]
                   /\ UNCHANGED <<data, mutex, pc, call, res, committed>>
                \/ Answer(g, RangeResult(visited'[g], TRUE))
      BY <2>11 DEF RangeVisit
    <3>p. p \in Keys \X Values
      BY ContentsType DEF TypeOK
    <3>1. visited' \in [G -> SUBSET (Keys \X Values)]
      BY <3>0, <3>p DEF TypeOK
    <3>2. RangeResult(visited'[g], TRUE) \in Results
      BY <3>1 DEF RangeResult, Results
    <3>3. CASE /\ todo' = [todo EXCEPT ![g] = {p[1]}]
               /\ UNCHANGED <<data, mutex, pc, call, res, committed>>
      <4>1. p[1] \in Keys
        BY <3>p
      <4>. QED  BY <3>1, <3>3, <4>1 DEF TypeOK
    <3>4. CASE Answer(g, RangeResult(visited'[g], TRUE))
      BY <2>7, <3>1, <3>2, <3>4
    <3>. QED  BY <3>0, <3>3, <3>4
  <2>12. ASSUME NEW g \in G, RangeEnd(g) PROVE TypeOK'
    <3>1. RangeResult(visited[g], FALSE) \in Results
      BY DEF TypeOK, RangeResult, Results
    <3>. QED  BY <2>7, <2>12, <3>1 DEF RangeEnd, TypeOK
  <2>13. ASSUME NEW g \in G, NextPeek(g) PROVE TypeOK'
    <3>1. CASE Answer(g, NextResult({})) /\ UNCHANGED visited
      <4>1. NextResult({}) \in Results
        BY DEF NextResult, Results
      <4>. QED  BY <2>7, <3>1, <4>1 DEF TypeOK
    <3>2. ASSUME NEW k \in Present(data) \ {ZeroKey},
                 mutex' = RUnlock(mutex, g),
                 visited' = [visited EXCEPT ![g] = {<<k, data[k]>>}],
                 todo' = [todo EXCEPT ![g] = {k}],
                 res' = [res EXCEPT ![g] = NextResult(visited'[g])],
                 Goto(g, "lock"),
                 UNCHANGED <<data, call, committed>>
          PROVE  TypeOK'
      <4>1. k \in Keys /\ data[k] \in Values
        BY <3>2 DEF Present, TypeOK, Contents
      <4>2. visited' \in [G -> SUBSET (Keys \X Values)]
        BY <3>2, <4>1 DEF TypeOK
      <4>3. NextResult(visited'[g]) \in Results
        BY <4>2 DEF NextResult, Results
      <4>. QED  BY <3>2, <4>1, <4>2, <4>3 DEF TypeOK, RUnlock, RWMutexes
    <3>. QED  BY <2>13, <3>1, <3>2 DEF NextPeek
  <2>14. ASSUME NEW g \in G, Store(g) PROVE TypeOK'
    <3>1. call[g] \in Calls /\ call[g].op = "Store"
      BY <2>14 DEF Store, Writing, TypeOK, NoCall
    <3>. QED  BY <2>14, <3>1, CallType, ContentsType DEF Store, TypeOK
  <2>15. ASSUME NEW g \in G, Clear(g) PROVE TypeOK'
    BY <2>15, ContentsType DEF Clear, TypeOK
  <2>16. ASSUME NEW g \in G, DeleteKey(g) PROVE TypeOK'
    BY <2>16, ContentsType DEF DeleteKey, TypeOK
  <2>17. ASSUME NEW g \in G, DeleteEnd(g) PROVE TypeOK'
    BY <2>17 DEF DeleteEnd, TypeOK
  <2>18. ASSUME NEW g \in G, Close(g) PROVE TypeOK'
    BY <2>18 DEF Close, TypeOK
  <2>19. ASSUME NEW g \in G, Return(g) PROVE TypeOK'
    BY <2>19 DEF Return, TypeOK, Results
  <2>20. CASE UNCHANGED vars
    BY <2>20 DEF vars, TypeOK
  <2>21. ASSUME NEW g \in G, CallbackReads(g) PROVE TypeOK'
    BY <2>21 DEF TypeOK, CallbackReads, RLock, RWMutexes
  <2>22. ASSUME NEW g \in G, CallbackWrites(g) PROVE TypeOK'
    BY <2>22 DEF TypeOK, CallbackWrites
  <2>. QED
    BY <2>1, <2>2, <2>3, <2>4, <2>5, <2>6, <2>8, <2>9, <2>10, <2>11, <2>12, <2>13,
       <2>14, <2>15, <2>16, <2>17, <2>18, <2>19, <2>20, <2>21, <2>22 DEF Next, Step
<1>. QED  BY <1>1, <1>2, PTL DEF Spec

-----------------------------------------------------------------------------
\* The lock and the positions of the goroutines, from which exclusion follows:
\* the writer of the mutex is the one goroutine between c.mutex.Lock() and
\* c.mutex.Unlock(); whoever holds or waits for the read lock is between
\* RLock() and RUnlock(), or runs a callback there; only a callback waits for
\* the lock while it holds it; and one that writes has seen the readers go.
LockInv ==
    /\ \A g \in G : pc[g] \in {"wwait", "writing", "unlock", "cbwait"} <=> g \in mutex.writer
    /\ \A g, h \in mutex.writer : g = h
    /\ \A g \in G : pc[g] \in {"reading"} \cup CallbackPcs => g \in mutex.readers
    /\ \A g \in mutex.readers : pc[g] \in {"rwait", "reading"} \cup CallbackPcs
    /\ \A g \in mutex.parked : pc[g] \in {"rwait", "cbrlocking"}
    /\ \A g \in mutex.readers \cap mutex.parked : pc[g] = "cbrlocking"
    /\ \A g \in G : pc[g] \in {"writing", "unlock"} => mutex.readers = {}

\* LockInv excludes that the map is read or written by two at a time.
LEMMA LockInvExcludes == TypeOK /\ LockInv => MapAccessExclusive
BY DEF TypeOK, RWMutexes, LockInv, MapAccessExclusive, CallbackPcs

\* The steps that leave the lock and the positions alone, and those that stay
\* between Lock() and Unlock(), keep LockInv.
LEMMA LockInvFrame ==
    ASSUME TypeOK, LockInv, NEW g \in G, mutex' = mutex,
           \/ pc' = pc
           \/ /\ pc[g] = "writing" /\ pc' = [pc EXCEPT ![g] = "unlock"]
           \/ /\ pc[g] = "reading" /\ pc' = [pc EXCEPT ![g] = "cblock"]
           \/ /\ pc[g] \in {"idle", "closing", "done"}
              /\ \E l \in {"idle", "lock", "rlock", "closing", "done"} :
                    pc' = [pc EXCEPT ![g] = l]
    PROVE  LockInv'
BY DEF TypeOK, RWMutexes, LockInv, CallbackPcs

\* A reader that leaves keeps LockInv.
LEMMA LockInvLeave ==
    ASSUME TypeOK, LockInv, NEW g \in G, pc[g] = "reading",
           mutex' = RUnlock(mutex, g),
           \E l \in {"lock", "done"} : pc' = [pc EXCEPT ![g] = l]
    PROVE  LockInv'
BY DEF TypeOK, RWMutexes, LockInv, RUnlock, CallbackPcs

\* LockInv holds from the start and every step keeps it.
LEMMA LockInvInit == Init => LockInv
BY DEF Init, LockInv, Unlocked, CallbackPcs

LEMMA LockInvStep == TypeOK /\ LockInv /\ [Next]_vars => LockInv'
<1> SUFFICES ASSUME TypeOK, LockInv, [Next]_vars PROVE LockInv'
  OBVIOUS
<1>1. ASSUME NEW g \in G, NEW c \in Calls, Invoke(g, c) PROVE LockInv'
  <2>1. FirstPc(c) \in {"lock", "rlock", "closing"}
    BY DEF FirstPc
  <2>. QED  BY <1>1, <2>1, LockInvFrame DEF Invoke, Goto
<1>2. ASSUME NEW g \in G, TakeRLock(g) PROVE LockInv'
  BY <1>2 DEF TypeOK, RWMutexes, LockInv, CallbackPcs, TakeRLock, RLock, Goto
<1>3. ASSUME NEW g \in G, RLocked(g) PROVE LockInv'
  BY <1>3 DEF TypeOK, RWMutexes, LockInv, CallbackPcs, RLocked, Goto
<1>4. ASSUME NEW g \in G, TakeLock(g) PROVE LockInv'
  BY <1>4 DEF TypeOK, RWMutexes, LockInv, CallbackPcs, TakeLock, CanAnnounce, Announce, Goto
<1>5. ASSUME NEW g \in G, Locked(g) PROVE LockInv'
  BY <1>5 DEF TypeOK, RWMutexes, LockInv, CallbackPcs, Locked, Drained, Goto
<1>6. ASSUME NEW g \in G, ReleaseLock(g) PROVE LockInv'
  BY <1>6 DEF TypeOK, RWMutexes, LockInv, CallbackPcs, ReleaseLock, Unlock, Goto
<1>7. ASSUME NEW g \in G, pc[g] = "reading", NEW r, Answer(g, r) PROVE LockInv'
  BY <1>7, LockInvLeave DEF Answer, Goto
<1>8. ASSUME NEW g \in G, Load(g) \/ KeysOf(g) \/ LenOf(g) \/ RangeEnd(g) PROVE LockInv'
  BY <1>7, <1>8 DEF Load, KeysOf, LenOf, RangeEnd, Reading
<1>9. ASSUME NEW g \in G, RangeVisit(g) PROVE LockInv'
  BY <1>7, <1>9, LockInvFrame DEF RangeVisit, Reading
<1>10. ASSUME NEW g \in G, NextPeek(g) PROVE LockInv'
  BY <1>7, <1>10, LockInvLeave DEF NextPeek, Reading, Goto
<1>11. ASSUME NEW g \in G, Store(g) \/ Clear(g) \/ DeleteEnd(g) PROVE LockInv'
  BY <1>11, LockInvFrame DEF Store, Clear, DeleteEnd, Writing, Goto
<1>12. ASSUME NEW g \in G, DeleteKey(g) PROVE LockInv'
  BY <1>12, LockInvFrame DEF DeleteKey
<1>13. ASSUME NEW g \in G, Close(g) \/ Return(g) PROVE LockInv'
  BY <1>13, LockInvFrame DEF Close, Return, Goto
<1>14. CASE UNCHANGED vars
  BY <1>14 DEF vars, LockInv
<1>15. ASSUME NEW g \in G, CallbackReads(g) PROVE LockInv'
  BY <1>15 DEF TypeOK, RWMutexes, LockInv, CallbackPcs, CallbackReads, Reading, RLock, Goto
<1>16. ASSUME NEW g \in G, CallbackWrites(g) PROVE LockInv'
  BY <1>16, LockInvFrame DEF CallbackWrites, Reading, Goto
<1>. QED
  BY <1>1, <1>2, <1>3, <1>4, <1>5, <1>6, <1>8, <1>9, <1>10, <1>11, <1>12, <1>13, <1>14,
     <1>15, <1>16
     DEF Next, Step

\* The Go map behind the mutex is never written by one goroutine while another
\* one reads, iterates or writes it, for any number of goroutines.
THEOREM Exclusion == Spec => []MapAccessExclusive
BY TypeCorrect, LockInvInit, LockInvStep, LockInvExcludes, PTL DEF Spec

-----------------------------------------------------------------------------
\* A step of one goroutine does not end the wait of a callback for the lock
\* that its own Range keeps from it: the writer that would have to release the
\* callback cannot get in before the Range has returned.
LEMMA SelfWaitStep ==
    ASSUME TypeOK, LockInv, [Next]_vars, NEW g \in G, SelfWaiting(g)
    PROVE  SelfWaiting(g)'
<1> USE DEF SelfWaiting, Goto
<1>0. mutex.readers # {} /\ \A h \in G : pc[h] \notin {"writing", "unlock"}
  BY DEF LockInv
<1>1. ASSUME UNCHANGED <<mutex, pc>> PROVE SelfWaiting(g)'
  BY <1>1
<1>2. ASSUME NEW h \in G, h # g, NEW l, pc' = [pc EXCEPT ![h] = l],
             mutex' \in {mutex, RLock(mutex, h), RUnlock(mutex, h), Announce(mutex, h)}
      PROVE  SelfWaiting(g)'
  BY <1>2 DEF TypeOK, RWMutexes, RLock, RUnlock, Announce
<1>3. ASSUME NEW h \in G, NEW c \in Calls, Invoke(h, c) PROVE SelfWaiting(g)'
  BY <1>2, <1>3 DEF Invoke
<1>4. ASSUME NEW h \in G, TakeLock(h) PROVE SelfWaiting(g)'
  <2>1. CASE h = g
    BY <1>4, <2>1 DEF TakeLock, Announce, TypeOK, RWMutexes
  <2>. QED  BY <1>2, <1>4, <2>1 DEF TakeLock
<1>5. ASSUME NEW h \in G,
             TakeRLock(h) \/ RLocked(h) \/ CallbackReads(h) \/ CallbackWrites(h)
      PROVE  SelfWaiting(g)'
  BY <1>2, <1>5 DEF TakeRLock, RLocked, CallbackReads, CallbackWrites, Reading
<1>6. ASSUME NEW h \in G, Locked(h) \/ ReleaseLock(h) \/ Store(h) \/ Clear(h)
                          \/ DeleteKey(h) \/ DeleteEnd(h)
      PROVE  FALSE
  BY <1>0, <1>6 DEF Locked, ReleaseLock, Store, Clear, DeleteKey, DeleteEnd, Writing, Drained
<1>7. ASSUME NEW h \in G, pc[h] = "reading", NEW r, Answer(h, r) PROVE SelfWaiting(g)'
  BY <1>2, <1>7 DEF Answer
<1>8. ASSUME NEW h \in G, Load(h) \/ KeysOf(h) \/ LenOf(h) \/ RangeEnd(h) PROVE SelfWaiting(g)'
  BY <1>7, <1>8 DEF Load, KeysOf, LenOf, RangeEnd, Reading
<1>9. ASSUME NEW h \in G, RangeVisit(h) PROVE SelfWaiting(g)'
  BY <1>1, <1>7, <1>9 DEF RangeVisit, Reading
<1>10. ASSUME NEW h \in G, NextPeek(h) PROVE SelfWaiting(g)'
  BY <1>2, <1>7, <1>10 DEF NextPeek, Reading
<1>11. ASSUME NEW h \in G, Close(h) \/ Return(h) PROVE SelfWaiting(g)'
  BY <1>2, <1>11 DEF Close, Return
<1>12. CASE UNCHANGED vars
  BY <1>1, <1>12 DEF vars
<1>. QED
  BY <1>3, <1>4, <1>5, <1>6, <1>8, <1>9, <1>10, <1>11, <1>12 DEF Next, Step

\* A callback of Range that writes, or reads behind a waiting writer, waits for
\* ever, for any number of goroutines and whatever they do.
THEOREM SelfWaitNeverEnds == Spec => SelfWaitIsForEver
<1>1. TypeOK /\ LockInv /\ [Next]_vars => [\A g \in G : SelfWaiting(g) => SelfWaiting(g)']_vars
  BY SelfWaitStep
<1>. QED
  BY <1>1, TypeCorrect, LockInvInit, LockInvStep, PTL DEF Spec, SelfWaitIsForEver

-----------------------------------------------------------------------------
\* The in-memory storages implement StorageContract.

\* The contract is about the same contents, calls and results.
LEMMA ContractWords ==
    /\ Contract!Contents = Contents /\ Contract!Empty = Empty
    /\ Contract!Calls = Calls /\ Contract!NoCall = NoCall /\ Contract!NoResult = NoResult
    /\ \A d : Contract!Present(d) = Present(d) /\ Contract!Pairs(d) = Pairs(d)
    /\ \A d, k, v : Contract!Put(d, k, v) = Put(d, k, v)
    /\ \A d, S : Contract!Remove(d, S) = Remove(d, S)
    /\ \A v : Contract!LoadResult(v) = LoadResult(v) /\ Contract!KeysResult(v) = KeysResult(v)
    /\ \A v : Contract!LenResult(v) = LenResult(v) /\ Contract!NextResult(v) = NextResult(v)
    /\ \A P, b : Contract!RangeResult(P, b) = RangeResult(P, b)
    /\ \A S : Contract!Cardinality(S) = Cardinality(S)
BY DEF Contract!Cardinality, Cardinality, Contract!IsFiniteSet, IsFiniteSet, Contract!Contents, Contents, Contract!Empty, Empty, Contract!Calls, Calls,
       Contract!NoCall, NoCall, Contract!NoResult, NoResult, Contract!Present, Present,
       Contract!Pairs, Pairs, Contract!Put, Put, Contract!Remove, Remove,
       Contract!LoadResult, LoadResult, Contract!KeysResult, KeysResult,
       Contract!LenResult, LenResult, Contract!NextResult, NextResult,
       Contract!RangeResult, RangeResult

\* The keys that the loop of Delete is to remove.
Doomed(g) == IF call[g].op = "Next" THEN {p[1] : p \in res[g].taken} ELSE call[g].keys

\* Where the methods are: who writes, who reads, and that there is a result
\* only at the end or when Next has found a pair.
Method(g) ==
    /\ pc[g] \in WritePcs => call[g].op \in {"Store", "Delete", "Clear", "Next"}
    /\ pc[g] \in {"rlock", "rwait", "reading"} => call[g].op \in {"Load", "Keys", "Len", "Range", "Next"}
    /\ pc[g] \in CallbackPcs => call[g].op = "Range"
    /\ pc[g] = "closing" => call[g].op = "Close"
    /\ pc[g] # "done" => res[g] = NoResult \/ (pc[g] \in WritePcs /\ call[g].op = "Next")

\* What a Range has shown is what the store had when the Range began.
Shown(g) ==
    /\ pc[g] \in {"idle", "rlock", "rwait"} => visited[g] = {}
    /\ Ranging(g) => visited[g] \subseteq Pairs(committed)

\* How far a writer has got: data is what was last released, with that part
\* of the operation that has been done.
Written(g) ==
    /\ pc[g] \in {"lock", "wwait"} /\ call[g].op \in {"Delete", "Next"} => todo[g] = Doomed(g)
    /\ pc[g] = "writing" /\ call[g].op \in {"Store", "Clear"} => data = committed
    /\ pc[g] = "writing" /\ call[g].op \in {"Delete", "Next"} =>
           todo[g] \subseteq Doomed(g) /\ data = Remove(committed, Doomed(g) \ todo[g])
    /\ pc[g] = "unlock" =>
           /\ call[g].op = "Store" => data = Put(committed, call[g].key, call[g].val)
           /\ call[g].op = "Clear" => data = Empty
           /\ call[g].op \in {"Delete", "Next"} => data = Remove(committed, Doomed(g))

RefinementInv ==
    /\ (\A g \in G : pc[g] \notin {"writing", "unlock"}) => data = committed
    /\ \A g \in G : Method(g) /\ Shown(g) /\ Written(g)

\* It holds at the start.
LEMMA RefinementInit == Init => RefinementInv /\ Contract!Init
<1>. SUFFICES ASSUME Init PROVE RefinementInv /\ Contract!Init
  OBVIOUS
<1>1. RefinementInv
  <2>1. ASSUME NEW g \in G
        PROVE  pc[g] = "idle" /\ call[g] = NoCall /\ visited[g] = {} /\ res[g] = NoResult
    BY DEF Init
  <2>2. ASSUME NEW g \in G PROVE Method(g) /\ Shown(g) /\ Written(g)
    BY <2>1 DEF Method, Shown, Written, Ranging, CallbackPcs, WritePcs
  <2>. QED  BY <2>2 DEF Init, RefinementInv
<1>2. ASSUME NEW g \in G PROVE PhaseOf(g) = "idle" /\ ResOf(g) = NoResult
  BY DEF Init, PhaseOf, ResOf, Ranging, CallbackPcs, WritePcs
<1>3. absPhase = [g \in G |-> "idle"] /\ absRes = [g \in G |-> NoResult]
  BY <1>2 DEF absPhase, absRes
<1>. QED  BY <1>1, <1>3, ContractWords, ContentsType DEF Init, Contract!Init

\* A step of g moves no other goroutine, and changes data only if g writes.
Local(g) ==
    /\ \A h \in G \ {g} : /\ pc'[h] = pc[h] /\ call'[h] = call[h] /\ res'[h] = res[h]
                          /\ visited'[h] = visited[h] /\ todo'[h] = todo[h]
    /\ UNCHANGED <<data, committed>> \/ pc[g] \in {"writing", "unlock"}

\* Every step is local.
LEMMA StepsLocal ==
    ASSUME TypeOK, NEW g \in G, (\E c \in Calls : Invoke(g, c)) \/ Step(g)
    PROVE  Local(g)
<1>. USE DEF Local, TypeOK, Goto
<1>1. ASSUME NEW c \in Calls, Invoke(g, c) PROVE Local(g)
  BY <1>1 DEF Invoke
<1>2. CASE TakeRLock(g) \/ RLocked(g) \/ TakeLock(g) \/ Locked(g) \/ ReleaseLock(g)
  BY <1>2 DEF TakeRLock, RLocked, TakeLock, Locked, ReleaseLock
<1>3. CASE Load(g) \/ KeysOf(g) \/ LenOf(g) \/ RangeEnd(g)
  BY <1>3 DEF Load, KeysOf, LenOf, RangeEnd, Answer
<1>4. CASE RangeVisit(g)
  BY <1>4 DEF RangeVisit, Answer
<1>5. CASE CallbackReads(g) \/ CallbackWrites(g)
  BY <1>5 DEF CallbackReads, CallbackWrites
<1>6. CASE NextPeek(g)
  BY <1>6 DEF NextPeek, Answer
<1>7. CASE Store(g) \/ Clear(g) \/ DeleteEnd(g)
  BY <1>7 DEF Store, Clear, DeleteEnd, Writing
<1>8. CASE DeleteKey(g)
  BY <1>8 DEF DeleteKey, Writing
<1>9. CASE Close(g) \/ Return(g)
  BY <1>9 DEF Close, Return
<1>. QED  BY <1>1, <1>2, <1>3, <1>4, <1>5, <1>6, <1>7, <1>8, <1>9 DEF Step

\* The others are where they were, in the contract too: if g changes what is
\* committed nobody is in a Range.
LEMMA OthersStay ==
    ASSUME TypeOK, LockInv, RefinementInv, NEW g \in G, Local(g), NEW h \in G \ {g}
    PROVE  /\ Method(h)' /\ Shown(h)' /\ Written(h)'
           /\ PhaseOf(h)' = PhaseOf(h) /\ ResOf(h)' = ResOf(h)
<1>1. Method(h) /\ Shown(h) /\ Written(h)
  BY DEF RefinementInv
<1>2. \/ UNCHANGED <<data, committed>>
      \/ pc[h] \notin {"reading", "writing", "unlock"} \cup CallbackPcs
  BY LockInvExcludes DEF Local, MapAccessExclusive
<1>3. Method(h)'
  BY <1>1 DEF Method, Local
<1>4. Ranging(h)' = Ranging(h)
  BY DEF Ranging, Local
<1>5. Shown(h)'
  BY <1>1, <1>2, <1>4 DEF Shown, Local, Ranging
<1>6. Doomed(h)' = Doomed(h)
  BY DEF Doomed, Local
<1>7. Written(h)'
  BY <1>1, <1>2, <1>6 DEF Written, Local
<1>8. PhaseOf(h)' = PhaseOf(h)
  BY <1>4 DEF PhaseOf, Local
<1>9. ResOf(h)' = ResOf(h)
  BY <1>2, <1>4 DEF ResOf, Local, Ranging
<1>. QED  BY <1>3, <1>5, <1>7, <1>8, <1>9

\* So the contract sees a step of g as a change of g's entries.
LEMMA SeenStep ==
    ASSUME TypeOK, LockInv, RefinementInv, NEW g \in G, Local(g)
    PROVE  /\ absPhase \in [G -> {PhaseOf(h) : h \in G}]
           /\ absPhase[g] = PhaseOf(g) /\ absRes[g] = ResOf(g)
           /\ absPhase' = [absPhase EXCEPT ![g] = PhaseOf(g)']
           /\ absRes' = [absRes EXCEPT ![g] = ResOf(g)']
<1>1. absPhase' = [h \in G |-> PhaseOf(h)'] /\ absRes' = [h \in G |-> ResOf(h)']
  BY DEF absPhase, absRes
<1>2. \A h \in G \ {g} : PhaseOf(h)' = PhaseOf(h) /\ ResOf(h)' = ResOf(h)
  BY OthersStay
<1>. QED  BY <1>1, <1>2 DEF absPhase, absRes

\* While somebody holds the read lock, or nobody writes, data is committed.
LEMMA DataCommitted ==
    ASSUME LockInv, RefinementInv,
           mutex.readers # {} \/ (\A h \in G : pc[h] \notin {"writing", "unlock"})
    PROVE  data = committed
BY DEF LockInv, RefinementInv

\* A step of g keeps RefinementInv if it keeps g's part of it.
LEMMA OwnPart ==
    ASSUME TypeOK, LockInv, RefinementInv, NEW g \in G, Local(g),
           Method(g)', Shown(g)', Written(g)',
           \/ pc[g] \notin {"writing", "unlock"} \/ pc'[g] \in {"writing", "unlock"}
           \/ data' = committed'
    PROVE  RefinementInv'
<1>1. \A h \in G : Method(h)' /\ Shown(h)' /\ Written(h)'
  BY OthersStay
<1>2. (\A h \in G : pc'[h] \notin {"writing", "unlock"}) => data' = committed'
  <2>. SUFFICES ASSUME \A h \in G : pc'[h] \notin {"writing", "unlock"},
                       pc[g] \notin {"writing", "unlock"}
                PROVE  data' = committed'
    OBVIOUS
  <2>1. \A h \in G : pc[h] \notin {"writing", "unlock"}
    BY DEF Local
  <2>. QED  BY <2>1 DEF RefinementInv, Local
<1>. QED  BY <1>1, <1>2 DEF RefinementInv

\* Every step keeps RefinementInv.
LEMMA RefinementInvStep ==
    ASSUME TypeOK, LockInv, RefinementInv, [Next]_vars
    PROVE  RefinementInv'
<1>. USE DEF Goto, CallbackPcs, WritePcs
<1>0. ASSUME NEW g \in G
      PROVE  Method(g) /\ Shown(g) /\ Written(g)
  BY DEF RefinementInv
<1>1. ASSUME NEW g \in G, NEW c \in Calls, Invoke(g, c) PROVE RefinementInv'
  <2>1. Local(g)
    BY <1>1, StepsLocal
  <2>2. pc[g] = "idle" /\ pc'[g] = FirstPc(c) /\ call'[g] = c /\ res'[g] = NoResult
        /\ visited'[g] = {} /\ todo'[g] = IF c.op = "Delete" THEN c.keys ELSE {}
    BY <1>0, <1>1 DEF Invoke, TypeOK, Method, Shown
  <2>3. \/ c.op \in {"Store", "Delete", "Clear"} /\ pc'[g] = "lock"
        \/ c.op = "Close" /\ pc'[g] = "closing"
        \/ c.op \in {"Load", "Keys", "Len", "Range", "Next"} /\ pc'[g] = "rlock"
    BY <2>2, CallType DEF FirstPc, OpNames
  <2>. QED  BY <2>1, <2>2, <2>3, OwnPart DEF Method, Shown, Written, Ranging, Doomed
<1>2. ASSUME NEW g \in G, TakeRLock(g) \/ RLocked(g) \/ TakeLock(g) \/ CallbackReads(g)
                          \/ CallbackWrites(g)
      PROVE  RefinementInv'
  <2>1. Local(g)
    BY <1>2, StepsLocal DEF Step
  <2>2. /\ call'[g] = call[g] /\ res'[g] = res[g] /\ visited'[g] = visited[g]
        /\ UNCHANGED <<data, committed>>
        /\ \/ pc[g] = "rlock" /\ pc'[g] = "rwait"
           \/ pc[g] \in {"rwait", "cbrlocking"} /\ pc'[g] = "reading"
           \/ pc[g] = "lock" /\ pc'[g] = "wwait" /\ todo'[g] = todo[g]
           \/ pc[g] = "cblock" /\ pc'[g] = "cbwait"
           \/ /\ pc[g] = "reading" /\ call[g].op = "Range"
              /\ pc'[g] \in {"cbrlocking", "cblock"}
    BY <1>2 DEF TakeRLock, RLocked, TakeLock, CallbackReads, CallbackWrites, Reading, TypeOK
  <2>3. Method(g)' /\ Shown(g)'
    BY <1>0, <2>2 DEF Method, Shown, Ranging
  <2>4. Written(g)'
    BY <1>0, <2>2 DEF Written, Doomed
  <2>. QED  BY <2>1, <2>2, <2>3, <2>4, OwnPart
<1>3. ASSUME NEW g \in G, Locked(g) PROVE RefinementInv'
  <2>1. Local(g)
    BY <1>3, StepsLocal DEF Step
  <2>2. /\ call'[g] = call[g] /\ res'[g] = res[g] /\ visited'[g] = visited[g]
        /\ todo'[g] = todo[g] /\ UNCHANGED <<data, committed>>
        /\ pc[g] = "wwait" /\ pc'[g] = "writing"
    BY <1>3 DEF Locked, Drained, TypeOK, LockInv
  <2>3. data = committed
    <3>1. \A h \in G : pc[h] \notin {"writing", "unlock"}
      BY <2>2 DEF LockInv
    <3>. QED  BY <3>1, DataCommitted
  <2>4. Method(g)' /\ Shown(g)'
    BY <1>0, <2>2 DEF Method, Shown, Ranging
  <2>5. Remove(committed, {}) = committed
    BY DEF Remove, TypeOK, Contents
  <2>6. Written(g)'
    BY <1>0, <2>2, <2>3, <2>5 DEF Written, Doomed
  <2>. QED  BY <2>1, <2>2, <2>4, <2>6, OwnPart
<1>4. ASSUME NEW g \in G, ReleaseLock(g) PROVE RefinementInv'
  <2>1. Local(g)
    BY <1>4, StepsLocal DEF Step
  <2>2. pc'[g] = "done" /\ data' = committed'
    BY <1>4 DEF ReleaseLock, TypeOK
  <2>. QED  BY <2>1, <2>2, OwnPart DEF Method, Shown, Written, Ranging
<1>5. ASSUME NEW g \in G, NEW r, Answer(g, r), Local(g), pc[g] = "reading" PROVE RefinementInv'
  <2>1. pc'[g] = "done"
    BY <1>5 DEF Answer, TypeOK
  <2>. QED  BY <1>5, <2>1, OwnPart DEF Method, Shown, Written, Ranging
<1>6. ASSUME NEW g \in G, Load(g) \/ KeysOf(g) \/ LenOf(g) \/ RangeEnd(g) PROVE RefinementInv'
  BY <1>5, <1>6, StepsLocal DEF Step, Load, KeysOf, LenOf, RangeEnd, Reading
<1>7. ASSUME NEW g \in G, RangeVisit(g) PROVE RefinementInv'
  <2>1. Local(g) /\ Reading(g, "Range")
    BY <1>7, StepsLocal DEF Step, RangeVisit
  <2>2. PICK p \in Pairs(data) :
             /\ visited' = [visited EXCEPT ![g] = @ \cup {p}]
             /\ \/ /\ todo' = [todo EXCEPT ![g] = {p[1]}]
                   /\ UNCHANGED <<data, mutex, pc, call, res, committed>>
                \/ Answer(g, RangeResult(visited'[g], TRUE))
    BY <1>7 DEF RangeVisit
  <2>3. CASE UNCHANGED <<data, mutex, pc, call, res, committed>>
    <3>1. data = committed
      BY <2>1, DataCommitted DEF Reading, LockInv
    <3>2. visited'[g] \subseteq Pairs(committed)
      BY <1>0, <2>1, <2>2, <3>1 DEF TypeOK, Shown, Ranging, Reading
    <3>3. Method(g)' /\ Shown(g)'
      BY <1>0, <2>1, <2>3, <3>2 DEF Method, Shown, Reading
    <3>. QED  BY <2>1, <2>3, <3>3, OwnPart DEF Written, Reading
  <2>. QED  BY <1>5, <2>1, <2>2, <2>3 DEF Reading
<1>8. ASSUME NEW g \in G, NextPeek(g) PROVE RefinementInv'
  <2>1. Local(g) /\ Reading(g, "Next")
    BY <1>8, StepsLocal DEF Step, NextPeek
  <2>2. ASSUME NEW k \in Present(data) \ {ZeroKey},
               visited' = [visited EXCEPT ![g] = {<<k, data[k]>>}],
               todo' = [todo EXCEPT ![g] = {k}],
               res' = [res EXCEPT ![g] = NextResult(visited'[g])],
               Goto(g, "lock"),
               UNCHANGED <<data, call, committed>>
        PROVE  RefinementInv'
    <3>1. /\ pc'[g] = "lock" /\ call'[g].op = "Next" /\ todo'[g] = {k}
          /\ res'[g] = NextResult({<<k, data[k]>>})
      BY <2>1, <2>2 DEF TypeOK, Reading
    <3>2. Doomed(g)' = {k}
      BY <3>1 DEF Doomed, NextResult
    <3>3. Method(g)' /\ Shown(g)' /\ Written(g)'
      BY <3>1, <3>2 DEF Method, Shown, Written, Ranging
    <3>. QED  BY <2>1, <3>3, OwnPart DEF Reading
  <2>. QED  BY <1>5, <1>8, <2>1, <2>2 DEF NextPeek, Reading
<1>9. ASSUME NEW g \in G, Store(g) \/ Clear(g) \/ DeleteEnd(g) PROVE RefinementInv'
  <2>1. Local(g)
    BY <1>9, StepsLocal DEF Step
  <2>2. /\ pc[g] = "writing" /\ pc'[g] = "unlock"
        /\ call' = call /\ res' = res /\ visited' = visited /\ committed' = committed
    BY <1>9 DEF Store, Clear, DeleteEnd, Writing, TypeOK
  <2>3. Method(g)' /\ Shown(g)'
    BY <1>0, <2>2 DEF Method, Shown, Ranging
  <2>4. Written(g)'
    <3>1. CASE Store(g)
      BY <1>0, <2>2, <3>1 DEF Written, Store, Writing
    <3>2. CASE Clear(g)
      BY <1>0, <2>2, <3>2 DEF Written, Clear, Writing
    <3>3. CASE DeleteEnd(g)
      <4>1. Doomed(g)' = Doomed(g) /\ Doomed(g) \ {} = Doomed(g)
        BY <2>2 DEF Doomed
      <4>. QED  BY <1>0, <2>2, <3>3, <4>1 DEF Written, DeleteEnd, Writing
    <3>. QED  BY <1>9, <3>1, <3>2, <3>3
  <2>. QED  BY <2>1, <2>2, <2>3, <2>4, OwnPart
<1>10. ASSUME NEW g \in G, DeleteKey(g) PROVE RefinementInv'
  <2>1. Local(g) /\ pc[g] = "writing" /\ call[g].op \in {"Delete", "Next"}
        /\ UNCHANGED <<pc, call, visited, res, committed>>
    BY <1>10, StepsLocal DEF Step, DeleteKey, Writing
  <2>2. PICK k \in todo[g] : /\ data' = Remove(data, {k})
                             /\ todo' = [todo EXCEPT ![g] = @ \ {k}]
    BY <1>10 DEF DeleteKey
  <2>3. Doomed(g)' = Doomed(g) /\ todo'[g] = todo[g] \ {k}
    BY <2>1, <2>2 DEF Doomed, TypeOK
  <2>4. todo[g] \subseteq Doomed(g) /\ data = Remove(committed, Doomed(g) \ todo[g])
    BY <1>0, <2>1 DEF Written
  <2>5. data' = Remove(committed, Doomed(g) \ (todo[g] \ {k}))
    BY <2>2, <2>4 DEF Remove
  <2>6. Method(g)' /\ Shown(g)'
    BY <1>0, <2>1 DEF Method, Shown, Ranging
  <2>7. Written(g)'
    BY <2>1, <2>3, <2>4, <2>5 DEF Written
  <2>. QED  BY <2>1, <2>6, <2>7, OwnPart
<1>11. ASSUME NEW g \in G, Close(g) \/ Return(g) PROVE RefinementInv'
  <2>1. Local(g)
    BY <1>11, StepsLocal DEF Step
  <2>2. \/ pc[g] = "closing" /\ pc'[g] = "done"
        \/ pc[g] = "done" /\ pc'[g] = "idle" /\ visited'[g] = {} /\ res'[g] = NoResult
    BY <1>11 DEF Close, Return, TypeOK
  <2>. QED  BY <2>1, <2>2, OwnPart DEF Method, Shown, Written, Ranging
<1>12. CASE UNCHANGED vars
  BY <1>12 DEF vars, RefinementInv, Method, Shown, Written, Ranging, Doomed
<1>. QED
  BY <1>1, <1>2, <1>3, <1>4, <1>6, <1>7, <1>8, <1>9, <1>10, <1>11, <1>12 DEF Next, Step

\* Every step is a step of the contract, or one that it does not see.
LEMMA RefinementStep ==
    ASSUME TypeOK, LockInv, RefinementInv, [Next]_vars
    PROVE  [Contract!Next]_(Contract!cvars)
<1>. USE DEF Goto, CallbackPcs, WritePcs
<1>0. ASSUME NEW g \in G
      PROVE  Method(g) /\ Shown(g) /\ Written(g)
  BY DEF RefinementInv
<1>1. ASSUME NEW g \in G, Local(g), call' = call, committed' = committed,
             PhaseOf(g)' = PhaseOf(g), ResOf(g)' = ResOf(g)
      PROVE  UNCHANGED Contract!cvars
  <2>1. absPhase' = absPhase /\ absRes' = absRes
    BY <1>1, SeenStep DEF absPhase, absRes
  <2>. QED  BY <1>1, <2>1 DEF Contract!cvars
<1>2. ASSUME NEW g \in G, Contract!Effect(g) \/ Contract!Return(g)
      PROVE  Contract!Next
  BY <1>2 DEF Contract!Next
<1>3. ASSUME NEW g \in G, Local(g), call' = call, NEW op, NEW r,
             PhaseOf(g) = "pending", PhaseOf(g)' = "done", ResOf(g)' = r, call[g].op = op
      PROVE  Contract!Perform(g, op, committed', r)
  BY <1>3, SeenStep DEF Contract!Perform
<1>4. ASSUME NEW g \in G, NEW c \in Calls, Invoke(g, c)
      PROVE  Contract!Next
  <2>1. Local(g)
    BY <1>4, StepsLocal
  <2>2. /\ pc[g] = "idle" /\ pc'[g] \in {"lock", "closing", "rlock"} /\ call'[g] = c
        /\ res'[g] = res[g] /\ committed' = committed
    BY <1>4 DEF Invoke, TypeOK, FirstPc
  <2>3. PhaseOf(g) = "idle" /\ ResOf(g)' = ResOf(g)
    BY <2>2 DEF PhaseOf, ResOf, Ranging
  <2>4. c.op = "Next" => pc'[g] = "rlock"
    BY <1>4 DEF Invoke, TypeOK, FirstPc
  <2>5. PhaseOf(g)' = "pending"
    BY <2>2, <2>4 DEF PhaseOf, Ranging
  <2>6. absRes' = absRes
    BY <2>1, <2>3, SeenStep DEF absRes
  <2>7. Contract!Invoke(g, c)
    BY <1>4, <2>1, <2>2, <2>3, <2>5, <2>6, SeenStep DEF Contract!Invoke, Invoke
  <2>. QED  BY <2>7, ContractWords DEF Contract!Next
<1>5. ASSUME NEW g \in G, TakeRLock(g) \/ TakeLock(g) \/ Locked(g) \/ CallbackReads(g)
                          \/ CallbackWrites(g)
      PROVE  UNCHANGED Contract!cvars
  <2>1. Local(g)
    BY <1>5, StepsLocal DEF Step
  <2>2. /\ call' = call /\ res' = res /\ committed' = committed
        /\ \/ pc[g] = "rlock" /\ pc'[g] = "rwait"
           \/ pc[g] = "lock" /\ pc'[g] = "wwait"
           \/ pc[g] = "wwait" /\ pc'[g] = "writing"
           \/ pc[g] = "cblock" /\ pc'[g] = "cbwait"
           \/ pc[g] = "reading" /\ call[g].op = "Range" /\ pc'[g] \in CallbackPcs
    BY <1>5 DEF TakeRLock, TakeLock, Locked, Drained, CallbackReads, CallbackWrites, Reading,
                TypeOK, LockInv
  <2>3. PhaseOf(g)' = PhaseOf(g) /\ ResOf(g)' = ResOf(g)
    BY <1>0, <2>2 DEF PhaseOf, ResOf, Ranging, Method
  <2>. QED  BY <1>1, <2>1, <2>2, <2>3
<1>6. ASSUME NEW g \in G, RLocked(g) PROVE [Contract!Next]_(Contract!cvars)
  <2>1. Local(g)
    BY <1>6, StepsLocal DEF Step
  <2>2. /\ call' = call /\ res' = res /\ committed' = committed
        /\ pc[g] \in {"rwait", "cbrlocking"} /\ pc'[g] = "reading"
    BY <1>6 DEF RLocked, TypeOK
  <2>3. CASE pc[g] = "rwait" /\ call[g].op = "Range"
    <3>1. PhaseOf(g) = "pending" /\ PhaseOf(g)' = "ranging"
          /\ ResOf(g)' = RangeResult(Pairs(committed), FALSE)
      BY <2>2, <2>3 DEF PhaseOf, ResOf, Ranging
    <3>2. Contract!RangeSnapshot(g)
      BY <2>1, <2>2, <2>3, <3>1, SeenStep, ContractWords DEF Contract!RangeSnapshot
    <3>. QED  BY <1>2, <3>2 DEF Contract!Effect
  <2>4. CASE ~(pc[g] = "rwait" /\ call[g].op = "Range")
    <3>1. PhaseOf(g)' = PhaseOf(g) /\ ResOf(g)' = ResOf(g)
      BY <1>0, <2>2, <2>4 DEF PhaseOf, ResOf, Ranging, Method
    <3>. QED  BY <1>1, <2>1, <2>2, <3>1
  <2>. QED  BY <2>3, <2>4
<1>7. ASSUME NEW g \in G, pc[g] = "reading" PROVE data = committed
  BY <1>7, DataCommitted DEF LockInv
<1>8. ASSUME NEW g \in G, Local(g), pc[g] = "reading", NEW r, Answer(g, r)
      PROVE  /\ PhaseOf(g) = IF call[g].op = "Range" THEN "ranging" ELSE "pending"
             /\ PhaseOf(g)' = "done" /\ ResOf(g)' = r
             /\ call' = call /\ committed' = committed
  BY <1>8 DEF Answer, PhaseOf, ResOf, Ranging, TypeOK
<1>9. ASSUME NEW g \in G, Load(g) PROVE Contract!Next
  <2>1. Local(g) /\ pc[g] = "reading" /\ call[g].op = "Load"
    BY <1>9, StepsLocal DEF Step, Load, Reading
  <2>2. Contract!Perform(g, "Load", committed, LoadResult(committed[call[g].key]))
    BY <1>3, <1>7, <1>8, <1>9, <2>1 DEF Load
  <2>. QED  BY <1>2, <2>2, ContractWords DEF Contract!Load, Contract!Effect
<1>10. ASSUME NEW g \in G, KeysOf(g) PROVE Contract!Next
  <2>1. Local(g) /\ pc[g] = "reading" /\ call[g].op = "Keys"
    BY <1>10, StepsLocal DEF Step, KeysOf, Reading
  <2>2. Contract!Perform(g, "Keys", committed, KeysResult(Present(committed)))
    BY <1>3, <1>7, <1>8, <1>10, <2>1 DEF KeysOf
  <2>. QED  BY <1>2, <2>2, ContractWords DEF Contract!KeysOf, Contract!Effect
<1>11. ASSUME NEW g \in G, LenOf(g) PROVE Contract!Next
  <2>1. Local(g) /\ pc[g] = "reading" /\ call[g].op = "Len"
    BY <1>11, StepsLocal DEF Step, LenOf, Reading
  <2>2. Contract!Perform(g, "Len", committed, LenResult(Cardinality(Present(committed))))
    BY <1>3, <1>7, <1>8, <1>11, <2>1 DEF LenOf
  <2>3. "Len" \in OpNames \ {"Next"}
    BY DEF OpNames
  <2>. QED  BY <1>2, <2>2, <2>3, ContractWords DEF Contract!LenOf, Contract!Effect
<1>12. ASSUME NEW g \in G, Local(g), Reading(g, "Range"), NEW P, NEW b, Answer(g, RangeResult(P, b)),
              \/ P = Pairs(committed) /\ b = FALSE
              \/ P \in (SUBSET Pairs(committed)) \ {{}} /\ b = TRUE
       PROVE  Contract!Next
  <2>1. /\ PhaseOf(g) = "ranging" /\ ResOf(g) = RangeResult(Pairs(committed), FALSE)
        /\ PhaseOf(g)' = "done" /\ ResOf(g)' = RangeResult(P, b)
        /\ call' = call /\ committed' = committed
    BY <1>8, <1>12 DEF Reading, ResOf, Ranging
  <2>2. absPhase[g] = "ranging" /\ absPhase' = [absPhase EXCEPT ![g] = "done"]
    BY <1>12, <2>1, SeenStep
  <2>3. \/ absRes' = absRes
        \/ \E Q \in (SUBSET absRes[g].pairs) \ {{}} :
               absRes' = [absRes EXCEPT ![g] = RangeResult(Q, TRUE)]
    <3>1. absRes[g] = RangeResult(Pairs(committed), FALSE)
          /\ absRes' = [absRes EXCEPT ![g] = RangeResult(P, b)]
      BY <1>12, <2>1, SeenStep
    <3>2. CASE P = Pairs(committed) /\ b = FALSE
      BY <3>1, <3>2 DEF absRes
    <3>3. CASE P \in (SUBSET Pairs(committed)) \ {{}} /\ b = TRUE
      <4>1. absRes[g].pairs = Pairs(committed)
        BY <3>1 DEF RangeResult
      <4>. QED  BY <3>1, <3>3, <4>1
    <3>. QED  BY <1>12, <3>2, <3>3
  <2>4. Contract!RangeDone(g)
    BY <2>1, <2>2, <2>3, ContractWords DEF Contract!RangeDone
  <2>. QED  BY <1>2, <2>4 DEF Contract!Effect
<1>13. ASSUME NEW g \in G, RangeEnd(g) PROVE Contract!Next
  <2>1. Local(g) /\ Reading(g, "Range") /\ Answer(g, RangeResult(visited[g], FALSE))
    BY <1>13, StepsLocal DEF Step, RangeEnd
  <2>2. visited[g] = Pairs(committed)
    BY <1>0, <1>7, <1>13, <2>1 DEF RangeEnd, Shown, Ranging, Reading
  <2>. QED  BY <1>12, <2>1, <2>2
<1>14. ASSUME NEW g \in G, RangeVisit(g) PROVE [Contract!Next]_(Contract!cvars)
  <2>1. Local(g) /\ Reading(g, "Range") /\ data = committed
    BY <1>7, <1>14, StepsLocal DEF Step, RangeVisit, Reading
  <2>2. PICK p \in Pairs(data) :
             /\ visited' = [visited EXCEPT ![g] = @ \cup {p}]
             /\ \/ UNCHANGED <<data, mutex, pc, call, res, committed>>
                \/ Answer(g, RangeResult(visited'[g], TRUE))
    BY <1>14 DEF RangeVisit
  <2>3. CASE UNCHANGED <<data, mutex, pc, call, res, committed>>
    <3>1. PhaseOf(g)' = PhaseOf(g) /\ ResOf(g)' = ResOf(g)
      BY <2>3 DEF PhaseOf, ResOf, Ranging
    <3>. QED  BY <1>1, <2>1, <2>3, <3>1
  <2>4. CASE Answer(g, RangeResult(visited'[g], TRUE))
    <3>1. visited'[g] \in (SUBSET Pairs(committed)) \ {{}}
      BY <1>0, <2>1, <2>2 DEF Shown, Ranging, Reading, TypeOK
    <3>. QED  BY <1>12, <2>1, <2>4, <3>1
  <2>. QED  BY <2>2, <2>3, <2>4
<1>15. ASSUME NEW g \in G, NextPeek(g) PROVE Contract!Next
  <2>1. Local(g) /\ pc[g] = "reading" /\ call[g].op = "Next" /\ data = committed
    BY <1>7, <1>15, StepsLocal DEF Step, NextPeek, Reading
  <2>2. CASE (Pairs(data) = {} \/ ZeroKey \in Present(data)) /\ Answer(g, NextResult({}))
    <3>1. Contract!Perform(g, "Next", committed, NextResult({}))
      BY <1>3, <1>8, <2>1, <2>2
    <3>2. Present(committed) = {} \/ ZeroKey \in Present(committed)
      BY <2>1, <2>2 DEF Pairs
    <3>3. Contract!NextPeek(g)
      BY <3>1, <3>2, ContractWords DEF Contract!NextPeek
    <3>. QED  BY <1>2, <3>3 DEF Contract!Effect
  <2>3. ASSUME NEW k \in Present(data) \ {ZeroKey},
               visited' = [visited EXCEPT ![g] = {<<k, data[k]>>}],
               res' = [res EXCEPT ![g] = NextResult(visited'[g])],
               Goto(g, "lock"),
               UNCHANGED <<data, call, committed>>
        PROVE  Contract!Next
    <3>1. pc'[g] = "lock" /\ res'[g] = NextResult({<<k, committed[k]>>})
      BY <2>1, <2>3 DEF TypeOK
    <3>2. PhaseOf(g) = "pending" /\ PhaseOf(g)' = "peeked"
          /\ ResOf(g)' = NextResult({<<k, committed[k]>>})
      BY <2>1, <2>3, <3>1 DEF PhaseOf, ResOf, Ranging
    <3>3. Contract!NextPeek(g)
      BY <2>1, <2>3, <3>2, SeenStep, ContractWords DEF Contract!NextPeek
    <3>. QED  BY <1>2, <3>3 DEF Contract!Effect
  <2>. QED  BY <1>15, <2>2, <2>3 DEF NextPeek
<1>16. ASSUME NEW g \in G, ReleaseLock(g) PROVE Contract!Next
  <2>1. /\ Local(g) /\ pc[g] = "unlock" /\ pc'[g] = "done"
        /\ call' = call /\ res' = res /\ committed' = data
    BY <1>16, StepsLocal DEF Step, ReleaseLock, TypeOK
  <2>2. call[g].op \in {"Store", "Delete", "Clear", "Next"}
    BY <1>0, <2>1 DEF Method
  <2>3. CASE call[g].op # "Next"
    <3>1. PhaseOf(g) = "pending" /\ PhaseOf(g)' = "done" /\ ResOf(g)' = NoResult
      BY <1>0, <2>1, <2>2, <2>3 DEF PhaseOf, ResOf, Ranging, Method
    <3>2. Contract!Perform(g, call[g].op, data, NoResult)
      BY <1>3, <2>1, <3>1
    <3>3. CASE call[g].op = "Store"
      BY <1>0, <1>2, <2>1, <3>2, <3>3, ContractWords DEF Written, Contract!Store, Contract!Effect
    <3>4. CASE call[g].op = "Clear"
      BY <1>0, <1>2, <2>1, <3>2, <3>4, ContractWords DEF Written, Contract!Clear, Contract!Effect
    <3>5. CASE call[g].op = "Delete"
      <4>1. data = Remove(committed, call[g].keys)
        BY <1>0, <2>1, <3>5 DEF Written, Doomed
      <4>2. "Delete" \in OpNames \ {"Next"}
        BY DEF OpNames
      <4>. QED  BY <1>2, <3>2, <3>5, <4>1, <4>2, ContractWords DEF Contract!Delete, Contract!Effect
    <3>. QED  BY <2>2, <2>3, <3>3, <3>4, <3>5
  <2>4. CASE call[g].op = "Next"
    <3>1. PhaseOf(g) = "peeked" /\ PhaseOf(g)' = "done" /\ ResOf(g) = res[g] /\ ResOf(g)' = res[g]
      BY <2>1, <2>4 DEF PhaseOf, ResOf, Ranging
    <3>2. committed' = Remove(committed, {p[1] : p \in absRes[g].taken})
      BY <1>0, <2>1, <2>4, <3>1, SeenStep DEF Written, Doomed
    <3>3. absRes' = absRes
      BY <2>1, <3>1, SeenStep DEF absRes
    <3>4. Contract!NextDelete(g)
      BY <2>1, <3>1, <3>2, <3>3, SeenStep, ContractWords DEF Contract!NextDelete
    <3>. QED  BY <1>2, <3>4 DEF Contract!Effect
  <2>. QED  BY <2>3, <2>4
<1>17. ASSUME NEW g \in G, Store(g) \/ Clear(g) \/ DeleteKey(g) \/ DeleteEnd(g)
       PROVE  UNCHANGED Contract!cvars
  <2>1. /\ Local(g) /\ pc[g] = "writing" /\ pc'[g] \in {"writing", "unlock"}
        /\ call' = call /\ res' = res /\ committed' = committed
    BY <1>17, StepsLocal DEF Step, Store, Clear, DeleteKey, DeleteEnd, Writing, TypeOK
  <2>2. PhaseOf(g)' = PhaseOf(g) /\ ResOf(g)' = ResOf(g)
    BY <2>1 DEF PhaseOf, ResOf, Ranging
  <2>. QED  BY <1>1, <2>1, <2>2
<1>18. ASSUME NEW g \in G, Close(g) PROVE Contract!Next
  <2>1. /\ Local(g) /\ pc[g] = "closing" /\ pc'[g] = "done" /\ call[g].op = "Close"
        /\ call' = call /\ res' = res /\ res[g] = NoResult /\ committed' = committed
    BY <1>0, <1>18, StepsLocal DEF Step, Close, TypeOK, Method
  <2>2. PhaseOf(g) = "pending" /\ PhaseOf(g)' = "done" /\ ResOf(g)' = NoResult
    BY <2>1 DEF PhaseOf, ResOf, Ranging
  <2>3. Contract!Perform(g, "Close", committed, NoResult)
    BY <1>3, <2>1, <2>2
  <2>. QED  BY <1>2, <2>3, ContractWords DEF Contract!Close, Contract!Effect
<1>19. ASSUME NEW g \in G, Return(g) PROVE Contract!Next
  <2>1. /\ Local(g) /\ pc[g] = "done" /\ pc'[g] = "idle" /\ res'[g] = NoResult
        /\ call' = [call EXCEPT ![g] = NoCall] /\ committed' = committed
    BY <1>19, StepsLocal DEF Step, Return, TypeOK
  <2>2. PhaseOf(g) = "done" /\ PhaseOf(g)' = "idle" /\ ResOf(g)' = NoResult
    BY <2>1 DEF PhaseOf, ResOf, Ranging
  <2>3. Contract!Return(g)
    BY <2>1, <2>2, SeenStep, ContractWords DEF Contract!Return
  <2>. QED  BY <1>2, <2>3
<1>20. CASE UNCHANGED vars
  <2>1. \A g \in G : PhaseOf(g)' = PhaseOf(g) /\ ResOf(g)' = ResOf(g)
    BY <1>20 DEF vars, PhaseOf, ResOf, Ranging
  <2>2. absPhase' = absPhase /\ absRes' = absRes
    BY <2>1 DEF absPhase, absRes
  <2>. QED  BY <1>20, <2>2 DEF vars, Contract!cvars
<1>. QED
  BY <1>4, <1>5, <1>6, <1>9, <1>10, <1>11, <1>13, <1>14, <1>15, <1>16, <1>17, <1>18, <1>19,
     <1>20 DEF Next, Step

\* Every behaviour of a store behind one mutex is, seen by its callers, one of
\* the contract in which everything but Next is atomic: each call of Load,
\* Store, Delete, Keys, Len, Clear and Close takes effect at one instant, and a
\* Range shows the contents of one instant, for any number of goroutines.
THEOREM Linearizable == Spec => ImplementsContract
BY TypeCorrect, LockInvInit, LockInvStep, RefinementInit, RefinementInvStep, RefinementStep, PTL
   DEF Spec, ImplementsContract, Contract!Spec
=============================================================================
