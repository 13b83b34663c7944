--------------------------- MODULE SQLiteStorage ----------------------------
(***************************************************************************)
(* mightyMapSQLiteStorage (storage/mightymapStoreSQLite.go): a table       *)
(* behind one sync.RWMutex, and a cached row count behind another.  The    *)
(* cache is filled by Len and invalidated by every method that writes.     *)
(*                                                                         *)
(* A goroutine g goes through                                              *)
(*   idle - rlock - rwait - reading - done         Load, Range, Keys       *)
(*   idle - lock - wwait - writing -                                       *)
(*          inval - iwait - unlock - done          the methods that write  *)
(*   idle - crlock - crwait - cached - done        Len, from the cache     *)
(*      cached - clock - cwait - recheck -                                 *)
(*          nrlock - nrwait - counting - done      Len, from the table     *)
(***************************************************************************)
EXTENDS StorageInterface, RWMutex

CONSTANT May   \* May[g]: the operations goroutine g uses

ASSUME MayAreOps == May \in [G -> SUBSET Ops]

VARIABLES
    statementsFail,   \* whether a statement on an open database can fail
    table,         \* the rows
    open,          \* FALSE once s.db has been closed
    mutex,         \* s.mutex
    cachingMutex,  \* s.cachingMutex
    countCache,    \* s.countCache
    lastCount,     \* s.lastCount: zero, or younger or older than cacheDuration
    pc, call, visited, res,   \* as in InMemoryStorage
    committed      \* history: the rows as of the last invalidation

shared == <<statementsFail, table, open, countCache, lastCount, committed>>
vars == <<statementsFail, table, open, mutex, cachingMutex, countCache, lastCount,
          pc, call, visited, res, committed>>

Writers == {"Store", "Delete", "Next", "Clear", "Close"}

\* The types of the state of the store and of the goroutines in it.
TypeOK ==
    /\ statementsFail \in BOOLEAN
    /\ table \in Contents
    /\ committed \in Contents
    /\ open \in BOOLEAN
    /\ mutex \in RWMutexes(G)
    /\ cachingMutex \in RWMutexes(G)
    /\ countCache \in Int
    /\ lastCount \in {"zero", "fresh", "expired"}
    /\ pc \in [G -> {"idle", "rlock", "rwait", "reading", "lock", "wwait", "writing",
                     "inval", "iwait", "unlock", "crlock", "crwait", "cached", "clock",
                     "cwait", "recheck", "nrlock", "nrwait", "counting", "done"}]
    /\ call \in [G -> Calls \cup {NoCall}]
    /\ visited \in [G -> SUBSET (Keys \X Values)]
    /\ res \in [G -> Results]

\* NewMightyMapSQLiteStorage, on a database that may already have rows, and
\* that is sound or, from the start, one on which any statement may fail.
Init ==
    /\ statementsFail \in BOOLEAN
    /\ table \in Contents
    /\ committed = table
    /\ open = TRUE
    /\ mutex = Unlocked
    /\ cachingMutex = Unlocked
    /\ countCache = -1
    /\ lastCount = "zero"
    /\ pc = [g \in G |-> "idle"]
    /\ call = [g \in G |-> NoCall]
    /\ visited = [g \in G |-> {}]
    /\ res = [g \in G |-> NoResult]

-----------------------------------------------------------------------------
Goto(g, l) == pc' = [pc EXCEPT ![g] = l]
SetRes(g, r) == res' = [res EXCEPT ![g] = r]

\* A statement on a closed database fails; on an open one it may.
CanFail == statementsFail \/ ~open

FirstPc(c) ==
    CASE c.op \in Writers -> "lock"
      [] c.op = "Len" -> "crlock"
      [] OTHER -> "rlock"

Invoke(g, c) ==
    /\ pc[g] = "idle" /\ c.op \in May[g]
    /\ Goto(g, FirstPc(c))
    /\ call' = [call EXCEPT ![g] = c]
    /\ UNCHANGED <<shared, mutex, cachingMutex, visited, res>>

\* Load and Store give up before the lock if the key cannot be marshalled.
MarshalFails(g) ==
    /\ statementsFail
    /\ pc[g] \in {"rlock", "lock"} /\ call[g].op \in {"Load", "Store"}
    /\ Goto(g, "done")
    /\ SetRes(g, IF call[g].op = "Load" THEN LoadResult(Absent) ELSE NoResult)
    /\ UNCHANGED <<shared, mutex, cachingMutex, call, visited>>

\* Delete without keys returns before it takes the lock.
DeleteNothing(g) ==
    /\ pc[g] = "lock" /\ call[g] = [op |-> "Delete", keys |-> {}]
    /\ Goto(g, "done")
    /\ UNCHANGED <<shared, mutex, cachingMutex, call, visited, res>>

\* The four ways in which a method takes s.mutex or s.cachingMutex.
ReadLock(g, from, wait) ==
    /\ pc[g] = from
    /\ mutex' = RLock(mutex, g)
    /\ Goto(g, wait)
    /\ UNCHANGED <<shared, cachingMutex, call, visited, res>>

WriteLock(g) ==
    /\ pc[g] = "lock" /\ CanAnnounce(mutex)
    /\ call[g] # [op |-> "Delete", keys |-> {}]
    /\ mutex' = Announce(mutex, g)
    /\ Goto(g, "wwait")
    /\ UNCHANGED <<shared, cachingMutex, call, visited, res>>

CacheReadLock(g) ==
    /\ pc[g] = "crlock"
    /\ cachingMutex' = RLock(cachingMutex, g)
    /\ Goto(g, "crwait")
    /\ UNCHANGED <<shared, mutex, call, visited, res>>

CacheWriteLock(g, from, wait) ==
    /\ pc[g] = from /\ CanAnnounce(cachingMutex)
    /\ cachingMutex' = Announce(cachingMutex, g)
    /\ Goto(g, wait)
    /\ UNCHANGED <<shared, mutex, call, visited, res>>

\* The lock that g waits for has been given to it.
Granted(g) ==
    /\ \/ pc[g] = "rwait" /\ g \in mutex.readers /\ Goto(g, "reading")
       \/ pc[g] = "nrwait" /\ g \in mutex.readers /\ Goto(g, "counting")
       \/ pc[g] = "wwait" /\ Drained(mutex) /\ Goto(g, "writing")
       \/ pc[g] = "crwait" /\ g \in cachingMutex.readers /\ Goto(g, "cached")
       \/ pc[g] = "cwait" /\ Drained(cachingMutex) /\ Goto(g, "recheck")
    /\ UNCHANGED <<shared, mutex, cachingMutex, call, visited, res>>

\* A lock for writing has to be free of other writers; one for reading can be
\* asked for at any time.
Acquire(g) ==
    \/ WriteLock(g)
    \/ CacheWriteLock(g, "clock", "cwait")
    \/ CacheWriteLock(g, "inval", "iwait")

Lock(g) ==
    \/ ReadLock(g, "rlock", "rwait")
    \/ ReadLock(g, "nrlock", "nrwait")
    \/ CacheReadLock(g)
    \/ Acquire(g)

-----------------------------------------------------------------------------
\* Readers.

Reading(g, op) == pc[g] = "reading" /\ call[g].op = op

\* defer s.mutex.RUnlock(), with the result r.
Answer(g, r) ==
    /\ mutex' = RUnlock(mutex, g)
    /\ SetRes(g, r)
    /\ Goto(g, "done")
    /\ UNCHANGED <<shared, cachingMutex, call>>

Load(g) ==
    /\ Reading(g, "Load")
    /\ \/ open /\ Answer(g, LoadResult(table[call[g].key]))
       \/ CanFail /\ Answer(g, LoadResult(Absent))
    /\ UNCHANGED visited

\* A row that cannot be read or decoded is skipped; a failed query has none.
KeysOf(g) ==
    /\ Reading(g, "Keys")
    /\ \E S \in SUBSET Present(table) :
          /\ CanFail \/ S = Present(table)
          /\ open \/ S = {}
          /\ Answer(g, KeysResult(S))
    /\ UNCHANGED visited

\* A turn of the loop over the rows; f breaks the loop or not.
RangeVisit(g) ==
    /\ Reading(g, "Range") /\ open
    /\ \E p \in Pairs(table) \ visited[g] :
          /\ visited' = [visited EXCEPT ![g] = @ \cup {p}]
          /\ \/ UNCHANGED <<shared, mutex, cachingMutex, pc, call, res>>
             \/ Answer(g, RangeResult(visited'[g], TRUE))

\* The rows are exhausted, or the query or its iteration failed.
RangeEnd(g) ==
    /\ Reading(g, "Range")
    /\ CanFail \/ Pairs(table) \subseteq visited[g]
    /\ Answer(g, RangeResult(visited[g], FALSE))
    /\ UNCHANGED visited

-----------------------------------------------------------------------------
\* Writers: the statement, then invalidateCountCache, then the unlock.

Writing(g, op) == pc[g] = "writing" /\ call[g].op = op

\* The statement that writes has been executed with outcome t.
Executed(g, t, next) ==
    /\ table' = t
    /\ Goto(g, next)
    /\ UNCHANGED <<statementsFail, open, countCache, lastCount, committed,
                   mutex, cachingMutex, call, visited>>

Store(g) ==
    /\ Writing(g, "Store")
    /\ \/ open /\ Executed(g, Put(table, call[g].key, call[g].val), "inval")
       \/ CanFail /\ Executed(g, table, "inval")
    /\ UNCHANGED res

\* One transaction.  A failure to begin or to prepare it returns without
\* touching the cache; a key that cannot be deleted is skipped; a failed
\* commit leaves the table as it was.
Delete(g) ==
    /\ Writing(g, "Delete")
    /\ \/ CanFail /\ Executed(g, table, "unlock")
       \/ /\ open
          /\ \E D \in SUBSET call[g].keys :
                /\ CanFail \/ D = call[g].keys
                /\ Executed(g, Remove(table, D), "inval")
    /\ UNCHANGED res

Clear(g) ==
    /\ Writing(g, "Clear")
    /\ \/ open /\ Executed(g, Empty, "inval")
       \/ CanFail /\ Executed(g, table, "inval")
    /\ UNCHANGED res

\* Faulty variants: the row is used without a test that there was one; the
\* return without a row forgets s.mutex.Unlock().
NextItemUntested(g) ==
    /\ Writing(g, "Next")
    /\ \E k \in Keys :
          /\ SetRes(g, NextResult({<<k, table[k]>>}))
          /\ Executed(g, Remove(table, {k}), "inval")
NextItemLocked(g) ==
    /\ Writing(g, "Next")
    /\ \/ /\ Present(table) = {}
          /\ Executed(g, table, "done")
          /\ SetRes(g, NextResult({}))
       \/ \E k \in Present(table) :
             /\ SetRes(g, NextResult({<<k, table[k]>>}))
             /\ Executed(g, Remove(table, {k}), "inval")

\* SELECT ... LIMIT 1: without a row, or when it or the decoding of the key
\* fails, Next returns at once; a failed DELETE is only logged.
NextItem(g) ==
    /\ Writing(g, "Next")
    /\ \/ /\ CanFail \/ Present(table) = {}
          /\ Executed(g, table, "unlock")
          /\ SetRes(g, NextResult({}))
       \/ /\ open
          /\ \E k \in Present(table) :
                /\ SetRes(g, NextResult({<<k, table[k]>>}))
                /\ \/ Executed(g, Remove(table, {k}), "inval")
                   \/ CanFail /\ Executed(g, table, "inval")

Close(g) ==
    /\ Writing(g, "Close")
    /\ open' = FALSE
    /\ Goto(g, "unlock")
    /\ UNCHANGED <<statementsFail, table, countCache, lastCount, committed,
                   mutex, cachingMutex, call, visited, res>>

\* A faulty variant: the time of the count is not reset with the count.
InvalidateCountOnly(g) ==
    /\ pc[g] = "iwait" /\ Drained(cachingMutex)
    /\ countCache' = -1
    /\ committed' = table
    /\ cachingMutex' = Unlock(cachingMutex)
    /\ Goto(g, "unlock")
    /\ UNCHANGED <<statementsFail, table, open, lastCount, mutex, call, visited, res>>

\* invalidateCountCache, from the point where s.cachingMutex is held.
Invalidate(g) ==
    /\ pc[g] = "iwait" /\ Drained(cachingMutex)
    /\ countCache' = -1
    /\ lastCount' = "zero"
    /\ committed' = table
    /\ cachingMutex' = Unlock(cachingMutex)
    /\ Goto(g, "unlock")
    /\ UNCHANGED <<statementsFail, table, open, mutex, call, visited, res>>

ReleaseLock(g) ==
    /\ pc[g] = "unlock"
    /\ mutex' = Unlock(mutex)
    /\ Goto(g, "done")
    /\ UNCHANGED <<shared, cachingMutex, call, visited, res>>

-----------------------------------------------------------------------------
\* Len.

CacheValid == lastCount = "fresh"

\* The first look at the cache, under its read lock.
LenFast(g) ==
    /\ pc[g] = "cached"
    /\ cachingMutex' = RUnlock(cachingMutex, g)
    /\ \/ CacheValid /\ SetRes(g, LenResult(countCache)) /\ Goto(g, "done")
       \/ ~CacheValid /\ Goto(g, "clock") /\ UNCHANGED res
    /\ UNCHANGED <<shared, mutex, call, visited>>

\* A faulty variant: the rows are counted without s.mutex.RLock().
LenRecheckUnlocked(g) ==
    /\ pc[g] = "recheck"
    /\ \/ /\ CacheValid
          /\ cachingMutex' = Unlock(cachingMutex)
          /\ SetRes(g, LenResult(countCache))
          /\ Goto(g, "done")
       \/ ~CacheValid /\ Goto(g, "counting") /\ UNCHANGED <<cachingMutex, res>>
    /\ UNCHANGED <<shared, mutex, call, visited>>

\* The second look, under the write lock of the cache.
LenRecheck(g) ==
    /\ pc[g] = "recheck"
    /\ \/ /\ CacheValid
          /\ cachingMutex' = Unlock(cachingMutex)
          /\ SetRes(g, LenResult(countCache))
          /\ Goto(g, "done")
       \/ ~CacheValid /\ Goto(g, "nrlock") /\ UNCHANGED <<cachingMutex, res>>
    /\ UNCHANGED <<shared, mutex, call, visited>>

\* SELECT COUNT(*), the update of the cache and both deferred unlocks.
LenCount(g) ==
    /\ pc[g] = "counting"
    /\ mutex' = RUnlock(mutex, g)
    /\ cachingMutex' = Unlock(cachingMutex)
    /\ Goto(g, "done")
    /\ \/ /\ open
          /\ countCache' = Cardinality(Present(table))
          /\ lastCount' = "fresh"
          /\ SetRes(g, LenResult(countCache'))
       \/ /\ CanFail
          /\ SetRes(g, LenResult(0))
          /\ UNCHANGED <<countCache, lastCount>>
    /\ UNCHANGED <<statementsFail, table, open, committed, call, visited>>

\* The cached count grows older than cacheDuration.
CacheExpires ==
    /\ lastCount = "fresh"
    /\ lastCount' = "expired"
    /\ UNCHANGED <<statementsFail, table, open, countCache, committed,
                   mutex, cachingMutex, pc, call, visited, res>>

Return(g) ==
    /\ pc[g] = "done"
    /\ Goto(g, "idle")
    /\ call' = [call EXCEPT ![g] = NoCall]
    /\ visited' = [visited EXCEPT ![g] = {}]
    /\ SetRes(g, NoResult)
    /\ UNCHANGED <<shared, mutex, cachingMutex>>

-----------------------------------------------------------------------------
Step(g) ==
    \/ Lock(g) \/ Granted(g) \/ MarshalFails(g) \/ DeleteNothing(g)
    \/ Load(g) \/ KeysOf(g) \/ RangeVisit(g) \/ RangeEnd(g)
    \/ Store(g) \/ Delete(g) \/ Clear(g) \/ NextItem(g) \/ Close(g)
    \/ Invalidate(g) \/ ReleaseLock(g)
    \/ LenFast(g) \/ LenRecheck(g) \/ LenCount(g)
    \/ Return(g)

Next == CacheExpires \/ \E g \in G : (\E c \in Calls : Invoke(g, c)) \/ Step(g)

Spec == Init /\ [][Next]_vars

\* As in InMemoryStorage: a goroutine that can run does, and a waiter for
\* one of the two locks is not overtaken for ever.
FairSpec == Spec /\ \A g \in G : WF_vars(Step(g)) /\ SF_vars(Acquire(g))

-----------------------------------------------------------------------------
\* Properties.

\* A writer is between its statement and the invalidation of the cache.
Invalidating(g) == pc[g] \in {"inval", "iwait"}

\* A count in the cache, even one that has outlived cacheDuration, is the
\* number of rows that readers can see: those of the table, except while a
\* writer that still holds s.mutex is on its way to invalidate the cache.  No
\* Len can leave in the cache a count taken on the other side of a write.
CountCacheCoherent ==
    /\ lastCount # "zero" => countCache = Cardinality(Present(committed))
    /\ (\A g \in G : ~Invalidating(g)) => table = committed

\* The store is linearizable, its Next and its cached Len included, as long as
\* it is open and its statements succeed; when they fail it does no more harm
\* than FaultyContract allows.  A write takes effect when the cache has been
\* invalidated, not when the statement is executed: until then a Len may
\* return the old count.
PhaseOf(g) ==
    CASE pc[g] = "idle" -> "idle"
      [] pc[g] \in {"unlock", "done"} -> "done"
      [] Reading(g, "Range") -> "ranging"
      [] OTHER -> "pending"
ResOf(g) ==
    CASE pc[g] \in {"unlock", "done"} -> res[g]
      [] Reading(g, "Range") -> RangeResult(Pairs(committed), FALSE)
      [] OTHER -> NoResult

absPhase == [g \in G |-> PhaseOf(g)]
absRes == [g \in G |-> ResOf(g)]

Contract == INSTANCE FaultyContract WITH
    Atomic <- OpNames, failing <- CanFail,
    contents <- committed, phase <- absPhase, res <- absRes
ImplementsContract == Contract!FaultySpec

\* l is in Len and holds the cache's lock while it waits for the table's; w
\* is a writer that holds the table's lock while it waits for the cache's.
LenCycle(l, w) ==
    /\ pc[l] = "nrwait" /\ l \notin mutex.readers
    /\ pc[w] = "inval" /\ mutex.writer = {w} /\ cachingMutex.writer = {l}

\* "Thread-safe: Designed for concurrent use without the need for additional
\* synchronization": Len and a method that writes do not wait for each other.
NoLenCycle == \A l, w \in G : ~LenCycle(l, w)

\* Every method returns, on a database that fails or is closed too, unless a
\* Len and a writer block each other: the two locks can block the store in no
\* other way.
CallsReturn ==
    \A g \in G : (pc[g] # "idle") ~> (pc[g] = "idle" \/ \E l, w \in G : LenCycle(l, w))
=============================================================================
