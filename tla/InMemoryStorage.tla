-------------------------- MODULE InMemoryStorage ---------------------------
(***************************************************************************)
(* The three stores that keep their contents in a Go map or a swiss.Map    *)
(* behind one sync.RWMutex: mightyMapDirectStorage and                     *)
(* mightyMapDefaultStorage (storage/mightymapStore.go) and                 *)
(* mightyMapSwissStorage (storage/mightymapStoreSwiss.go).  Their methods  *)
(* take the lock in the same way and touch the map in the same order, so   *)
(* one module stands for the three.                                        *)
(*                                                                         *)
(* A goroutine g goes through                                              *)
(*     idle - rlock - rwait - reading - done - idle        to read,        *)
(*     idle - lock - wwait - writing - unlock - done - idle    to write.   *)
(* Next reads first and then, with the key it found, writes.  The callback *)
(* of a Range runs while its goroutine is "reading", and may use the map:  *)
(*     reading - cbrlocking - reading           if it reads,               *)
(*     reading - cblock - cbwait                if it writes.              *)
(***************************************************************************)
EXTENDS StorageInterface, RWMutex

VARIABLES
    data,       \* c.data
    mutex,      \* c.mutex
    pc,         \* pc[g]: where g is in the method it is running
    call,       \* call[g]: the method and its arguments
    visited,    \* visited[g]: the pairs that f was called with (Range, Next)
    todo,       \* todo[g]: the keys Delete's loop has yet to remove; for a
                \* Range, the key of the callback that has yet to use the map
    res,        \* res[g]: the result to be returned
    committed   \* history: data when it was last released by a writer

vars == <<data, mutex, pc, call, visited, todo, res, committed>>

CallbackPcs == {"cbrlocking", "cblock", "cbwait"}
ReadPcs  == {"rlock", "rwait", "reading"} \cup CallbackPcs
WritePcs == {"lock", "wwait", "writing", "unlock"}

\* The types of the state of the store and of the goroutines in it.
TypeOK ==
    /\ data \in Contents
    /\ committed \in Contents
    /\ mutex \in RWMutexes(G)
    /\ pc \in [G -> {"idle", "closing", "done"} \cup ReadPcs \cup WritePcs]
    /\ call \in [G -> Calls \cup {NoCall}]
    /\ visited \in [G -> SUBSET (Keys \X Values)]
    /\ todo \in [G -> SUBSET Keys]
    /\ res \in [G -> Results]

\* NewMightyMapDefaultStorage and NewMightyMapSwissStorage start empty.
Init ==
    /\ data = Empty
    /\ committed = Empty
    /\ mutex = Unlocked
    /\ pc = [g \in G |-> "idle"]
    /\ call = [g \in G |-> NoCall]
    /\ visited = [g \in G |-> {}]
    /\ todo = [g \in G |-> {}]
    /\ res = [g \in G |-> NoResult]

-----------------------------------------------------------------------------
\* The lock.

Goto(g, l) == pc' = [pc EXCEPT ![g] = l]

\* Close has nothing to do and returns at once.
FirstPc(c) ==
    CASE c.op \in {"Store", "Delete", "Clear"} -> "lock"
      [] c.op = "Close" -> "closing"
      [] OTHER -> "rlock"

Invoke(g, c) ==
    /\ pc[g] = "idle"
    /\ Goto(g, FirstPc(c))
    /\ call' = [call EXCEPT ![g] = c]
    /\ todo' = [todo EXCEPT ![g] = IF c.op = "Delete" THEN c.keys ELSE {}]
    /\ UNCHANGED <<data, mutex, visited, res, committed>>

TakeRLock(g) ==
    /\ pc[g] = "rlock"
    /\ mutex' = RLock(mutex, g)
    /\ Goto(g, "rwait")
    /\ UNCHANGED <<data, call, visited, todo, res, committed>>

RLocked(g) ==
    /\ pc[g] \in {"rwait", "cbrlocking"} /\ g \in mutex.readers \ mutex.parked
    /\ Goto(g, "reading")
    /\ UNCHANGED <<data, mutex, call, visited, todo, res, committed>>

\* A faulty variant: a writer that forgets c.mutex.Lock().
TakeLockForgotten(g) ==
    /\ pc[g] = "lock"
    /\ Goto(g, "writing")
    /\ UNCHANGED <<data, mutex, call, visited, todo, res, committed>>

TakeLock(g) ==
    /\ pc[g] \in {"lock", "cblock"} /\ CanAnnounce(mutex)
    /\ mutex' = Announce(mutex, g)
    /\ Goto(g, IF pc[g] = "lock" THEN "wwait" ELSE "cbwait")
    /\ UNCHANGED <<data, call, visited, todo, res, committed>>

\* A faulty variant: a writer that does not wait for the readers.
LockedTooEarly(g) ==
    /\ pc[g] = "wwait"
    /\ Goto(g, "writing")
    /\ UNCHANGED <<data, mutex, call, visited, todo, res, committed>>

Locked(g) ==
    /\ pc[g] \in {"wwait", "cbwait"} /\ Drained(mutex)
    /\ Goto(g, "writing")
    /\ UNCHANGED <<data, mutex, call, visited, todo, res, committed>>

\* A faulty variant: a reader that returns without c.mutex.RUnlock().
AnswerLocked(g, r) ==
    /\ res' = [res EXCEPT ![g] = r]
    /\ Goto(g, "done")
    /\ UNCHANGED <<data, mutex, call, todo, committed>>

\* defer c.mutex.RUnlock(), with the result r of the method.
Answer(g, r) ==
    /\ mutex' = RUnlock(mutex, g)
    /\ res' = [res EXCEPT ![g] = r]
    /\ Goto(g, "done")
    /\ UNCHANGED <<data, call, todo, committed>>

\* defer c.mutex.Unlock().
ReleaseLock(g) ==
    /\ pc[g] = "unlock"
    /\ mutex' = Unlock(mutex)
    /\ committed' = data
    /\ Goto(g, "done")
    /\ UNCHANGED <<data, call, visited, todo, res>>

-----------------------------------------------------------------------------
\* Readers.

Reading(g, op) == pc[g] = "reading" /\ call[g].op = op
Ranging(g) == pc[g] \in {"reading"} \cup CallbackPcs /\ call[g].op = "Range"

Load(g) ==
    /\ Reading(g, "Load")
    /\ Answer(g, LoadResult(data[call[g].key]))
    /\ UNCHANGED visited

KeysOf(g) ==
    /\ Reading(g, "Keys")
    /\ Answer(g, KeysResult(Present(data)))
    /\ UNCHANGED visited

LenOf(g) ==
    /\ Reading(g, "Len")
    /\ Answer(g, LenResult(Cardinality(Present(data))))
    /\ UNCHANGED visited

\* One turn of Range's loop: f is called, and breaks the loop or not.
RangeVisit(g) ==
    /\ Reading(g, "Range")
    /\ \E p \in Pairs(data) \ visited[g] :
          /\ visited' = [visited EXCEPT ![g] = @ \cup {p}]
          /\ \/ /\ todo' = [todo EXCEPT ![g] = {p[1]}]
                /\ UNCHANGED <<data, mutex, pc, call, res, committed>>
             \/ Answer(g, RangeResult(visited'[g], TRUE))

\* The callback of Range calls a method of the map that reads, or one that
\* writes.  It does so under the read lock of its own Range, at most once per
\* pair, and the nested method takes the lock like any other.
CallbackReads(g) ==
    /\ Reading(g, "Range") /\ todo[g] # {}
    /\ mutex' = RLock(mutex, g)
    /\ todo' = [todo EXCEPT ![g] = {}]
    /\ Goto(g, "cbrlocking")
    /\ UNCHANGED <<data, call, visited, res, committed>>

CallbackWrites(g) ==
    /\ Reading(g, "Range") /\ todo[g] # {}
    /\ todo' = [todo EXCEPT ![g] = {}]
    /\ Goto(g, "cblock")
    /\ UNCHANGED <<data, mutex, call, visited, res, committed>>

RangeEnd(g) ==
    /\ Reading(g, "Range")
    /\ Pairs(data) \subseteq visited[g]
    /\ Answer(g, RangeResult(visited[g], FALSE))
    /\ UNCHANGED visited

\* A faulty variant: the pair is used without a test that there was one.
NextPeekUntested(g) ==
    /\ Reading(g, "Next")
    /\ \E k \in Keys :
          /\ mutex' = RUnlock(mutex, g)
          /\ visited' = [visited EXCEPT ![g] = {<<k, data[k]>>}]
          /\ todo' = [todo EXCEPT ![g] = {k}]
          /\ res' = [res EXCEPT ![g] = NextResult(visited'[g])]
          /\ Goto(g, "lock")
          /\ UNCHANGED <<data, call, committed>>

\* Next: c.Range with a callback that keeps the first pair and stops.  A key
\* that is the zero value of K is taken for an empty store, ok is FALSE, and
\* the value found that the code leaves beside it is no result; with any other
\* key it goes on to c.Delete, the read lock released.
NextPeek(g) ==
    /\ Reading(g, "Next")
    /\ \/ /\ Pairs(data) = {} \/ ZeroKey \in Present(data)
          /\ Answer(g, NextResult({}))
          /\ UNCHANGED visited
       \/ \E k \in Present(data) \ {ZeroKey} :
             /\ mutex' = RUnlock(mutex, g)
             /\ visited' = [visited EXCEPT ![g] = {<<k, data[k]>>}]
             /\ todo' = [todo EXCEPT ![g] = {k}]
             /\ res' = [res EXCEPT ![g] = NextResult(visited'[g])]
             /\ Goto(g, "lock")
             /\ UNCHANGED <<data, call, committed>>

-----------------------------------------------------------------------------
\* Writers.

Writing(g, op) == pc[g] = "writing" /\ call[g].op = op

Store(g) ==
    /\ Writing(g, "Store")
    /\ data' = Put(data, call[g].key, call[g].val)
    /\ Goto(g, "unlock")
    /\ UNCHANGED <<mutex, call, visited, todo, res, committed>>

Clear(g) ==
    /\ Writing(g, "Clear")
    /\ data' = Empty
    /\ Goto(g, "unlock")
    /\ UNCHANGED <<mutex, call, visited, todo, res, committed>>

\* One turn of Delete's loop over its keys, for Delete and for Next.
DeleteKey(g) ==
    /\ Writing(g, "Delete") \/ Writing(g, "Next")
    /\ \E k \in todo[g] :
          /\ data' = Remove(data, {k})
          /\ todo' = [todo EXCEPT ![g] = @ \ {k}]
    /\ UNCHANGED <<mutex, pc, call, visited, res, committed>>

DeleteEnd(g) ==
    /\ Writing(g, "Delete") \/ Writing(g, "Next")
    /\ todo[g] = {}
    /\ Goto(g, "unlock")
    /\ UNCHANGED <<data, mutex, call, visited, todo, res, committed>>

Close(g) ==
    /\ pc[g] = "closing"
    /\ Goto(g, "done")
    /\ UNCHANGED <<data, mutex, call, visited, todo, res, committed>>

Return(g) ==
    /\ pc[g] = "done"
    /\ Goto(g, "idle")
    /\ call' = [call EXCEPT ![g] = NoCall]
    /\ visited' = [visited EXCEPT ![g] = {}]
    /\ todo' = [todo EXCEPT ![g] = {}]
    /\ res' = [res EXCEPT ![g] = NoResult]
    /\ UNCHANGED <<data, mutex, committed>>

-----------------------------------------------------------------------------
\* The steps of a method that is running.
Step(g) ==
    \/ TakeRLock(g) \/ RLocked(g) \/ TakeLock(g) \/ Locked(g) \/ ReleaseLock(g)
    \/ Load(g) \/ KeysOf(g) \/ LenOf(g) \/ RangeVisit(g) \/ RangeEnd(g)
    \/ CallbackReads(g) \/ CallbackWrites(g) \/ NextPeek(g)
    \/ Store(g) \/ Clear(g) \/ DeleteKey(g) \/ DeleteEnd(g)
    \/ Close(g) \/ Return(g)

Next == \E g \in G : (\E c \in Calls : Invoke(g, c)) \/ Step(g)

Spec == Init /\ [][Next]_vars

\* A goroutine that can run does run.  The inner mutex of sync.RWMutex goes
\* to a waiter that has been overtaken for a millisecond, so a writer that
\* finds it free again and again does get it: strong fairness of TakeLock.
FairSpec == Spec /\ \A g \in G : WF_vars(Step(g)) /\ SF_vars(TakeLock(g))

-----------------------------------------------------------------------------
\* Properties.

\* While a goroutine is in a method's write section (Store, Delete, Clear,
\* the second half of Next) no other goroutine is in a read or a write
\* section: the Go map is never read or iterated while it is written, not
\* even by the methods that a callback of Range calls.
MapAccessExclusive ==
    \A g, h \in G :
        (pc[g] \in {"writing", "unlock"} /\ h # g)
            => pc[h] \notin {"reading", "writing", "unlock"} \cup CallbackPcs

\* Every store behind one mutex is linearizable, with the weak form of Next:
\* writes take effect when the lock is released, and a Range shows to its
\* callback the pairs of the moment at which it got the read lock, although f
\* runs between the turns of its loop.
PhaseOf(g) ==
    CASE pc[g] \in {"idle", "done"} -> pc[g]
      [] Ranging(g) -> "ranging"
      [] call[g].op = "Next" /\ pc[g] \in WritePcs -> "peeked"
      [] OTHER -> "pending"
ResOf(g) == IF Ranging(g) THEN RangeResult(Pairs(committed), FALSE) ELSE res[g]

absPhase == [g \in G |-> PhaseOf(g)]
absRes == [g \in G |-> ResOf(g)]

Contract == INSTANCE StorageContract WITH
    Atomic <- OpNames \ {"Next"},
    contents <- committed, phase <- absPhase, res <- absRes

\* Seen from outside, the methods implement the contract above.
ImplementsContract == Contract!Spec

\* A callback waits for a lock that is kept from it by its own Range: it
\* writes, or it reads and a writer was there first that waits for the Range.
SelfWaiting(g) ==
    /\ g \in mutex.readers
    /\ pc[g] \in {"cblock", "cbwait"} \/ (pc[g] = "cbrlocking" /\ g \in mutex.parked)

\* A method that is called returns, whatever the other goroutines do, unless
\* some callback is SelfWaiting: there is no other way to block the store.
CallsReturn == \A g \in G : (pc[g] # "idle") ~> (pc[g] = "idle" \/ \E h \in G : SelfWaiting(h))

\* "Using Delete() while iterating with Range() will cause a deadlock", and so
\* will Load() if a writer waits: nothing the other goroutines can do releases
\* a callback that is SelfWaiting, or lets its write through.
SelfWaitIsForEver == [][\A g \in G : SelfWaiting(g) => SelfWaiting(g)']_vars

\* The documented contract of Next: "This operation is atomic - the key-value
\* pair is removed as part of retrieval".  The key that Next removes still
\* has the value Next is about to return.
NextRemovesWhatItReturns ==
    [][\A g \in G : (DeleteKey(g) /\ call[g].op = "Next") =>
                        visited[g] \subseteq Pairs(data)]_vars
=============================================================================
