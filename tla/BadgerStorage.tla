--------------------------- MODULE BadgerStorage ----------------------------
(***************************************************************************)
(* mightyMapBadgerStorage (storage/mightymapStoreBadger.go): a Badger      *)
(* database, whose transactions are atomic by themselves, and a counter of *)
(* its keys that is kept beside it and is not part of any transaction.     *)
(* The storage has no lock of its own, so that the calls of the database   *)
(* and the accesses to the two atomic variables interleave freely.         *)
(*                                                                         *)
(* The database is external: db.View is a read of a snapshot, db.Update a  *)
(* write of one key, db.DropAll empties it and refuses writes meanwhile.   *)
(* It hands out keys in the order of their encoding; here in any order.    *)
(***************************************************************************)
EXTENDS StorageInterface

CONSTANT LenBound   \* nobody makes a new call when |len| is above this bound

ASSUME LenBoundIsNat == LenBound \in Nat

VARIABLES
    db,           \* c.db: the committed pairs
    open,         \* FALSE once c.db has been closed
    blocked,      \* TRUE while DropAll keeps writes out
    len,          \* c.len
    initLenCall,  \* c.initLenCall
    pc, call, visited, res,   \* as in InMemoryStorage
    todo,         \* todo[g]: the keys Delete's loop has yet to look at
    cur,          \* cur[g]: the keys (one or none) Delete found present
    snap,         \* snap[g]: the snapshot that a View transaction of g reads
    cnt,          \* cnt[g]: the local variable cnt of Len
    clean         \* history: no step so far was a Disturbance

dbvars == <<db, open, blocked>>
lenvars == <<len, initLenCall>>
local == <<visited, todo, cur, snap, cnt>>
vars == <<db, open, blocked, len, initLenCall, pc, call, res,
          visited, todo, cur, snap, cnt, clean>>

Pcs == {"idle", "Load", "Store", "added", "Delete", "found", "deleted", "Range",
        "iterating", "Keys", "Len", "leninit", "lencount", "lenstore", "lenload",
        "Clear", "dropping", "dropped", "Next", "Close", "done", "panic"}

\* The types of the state of the store and of the goroutines in it.
TypeOK ==
    /\ db \in Contents
    /\ open \in BOOLEAN /\ blocked \in BOOLEAN
    /\ len \in Int /\ initLenCall \in BOOLEAN
    /\ pc \in [G -> Pcs]
    /\ call \in [G -> Calls \cup {NoCall}]
    /\ visited \in [G -> SUBSET (Keys \X Values)]
    /\ res \in [G -> Results]
    /\ todo \in [G -> SUBSET Keys]
    /\ cur \in [G -> SUBSET Keys]
    /\ snap \in [G -> Contents]
    /\ cnt \in [G -> Nat]
    /\ clean \in BOOLEAN

\* NewMightyMapBadgerStorage on a database that may have been filled before:
\* the counter starts at 0 and is put right by the first Len.
Init ==
    /\ db \in Contents
    /\ open = TRUE /\ blocked = FALSE
    /\ initLenCall = FALSE /\ len = 0
    /\ pc = [g \in G |-> "idle"]
    /\ call = [g \in G |-> NoCall]
    /\ visited = [g \in G |-> {}]
    /\ res = [g \in G |-> NoResult]
    /\ todo = [g \in G |-> {}]
    /\ cur = [g \in G |-> {}]
    /\ snap = [g \in G |-> Empty]
    /\ cnt = [g \in G |-> 0]
    /\ clean = TRUE

-----------------------------------------------------------------------------
Goto(g, l) == pc' = [pc EXCEPT ![g] = l]

\* Every method starts at the label of its name.
Invoke(g, c) ==
    /\ pc[g] = "idle"
    /\ len \in -LenBound..LenBound
    /\ Goto(g, c.op)
    /\ call' = [call EXCEPT ![g] = c]
    /\ todo' = [todo EXCEPT ![g] = IF c.op = "Delete" THEN c.keys ELSE {}]
    /\ UNCHANGED <<dbvars, lenvars, visited, res, cur, snap, cnt>>

Finish(g, r) ==
    /\ res' = [res EXCEPT ![g] = r]
    /\ Goto(g, "done")
    /\ UNCHANGED call

Return(g) ==
    /\ pc[g] = "done"
    /\ Goto(g, "idle")
    /\ call' = [call EXCEPT ![g] = NoCall]
    /\ visited' = [visited EXCEPT ![g] = {}]
    /\ res' = [res EXCEPT ![g] = NoResult]
    /\ UNCHANGED <<dbvars, lenvars, todo, cur, snap, cnt>>

\* The transactions that end in panic(err) when the database refuses them:
\* writes while DropAll runs, and everything but Load on a closed database.
WriteRefused == ~open \/ blocked
Panics(g) ==
    /\ \/ pc[g] \in {"Store", "found", "Clear"} /\ WriteRefused
       \/ pc[g] \in {"Range", "Keys", "lencount", "Next"} /\ ~open
    /\ Goto(g, "panic")
    /\ UNCHANGED <<dbvars, lenvars, call, res, local>>

-----------------------------------------------------------------------------
\* Load and the methods that iterate.

Load(g) ==
    /\ pc[g] = "Load"
    /\ Finish(g, LoadResult(IF open THEN db[call[g].key] ELSE Absent))
    /\ UNCHANGED <<dbvars, lenvars, local>>

KeysOf(g) ==
    /\ pc[g] = "Keys" /\ open
    /\ Finish(g, KeysResult(Present(db)))
    /\ UNCHANGED <<dbvars, lenvars, local>>

RangeBegin(g) ==
    /\ pc[g] = "Range" /\ open
    /\ snap' = [snap EXCEPT ![g] = db]
    /\ Goto(g, "iterating")
    /\ UNCHANGED <<dbvars, lenvars, call, res, visited, todo, cur, cnt>>

\* Faulty variants: an iteration that shows deleted versions of the keys, and
\* one that reads the database instead of the snapshot.
RangeVisitVersions(g) ==
    /\ pc[g] = "iterating"
    /\ \E k \in Keys : visited' = [visited EXCEPT ![g] = @ \cup {<<k, snap[g][k]>>}]
    /\ UNCHANGED <<dbvars, lenvars, pc, call, res, todo, cur, snap, cnt>>
RangeVisitLive(g) ==
    /\ pc[g] = "iterating"
    /\ \E p \in Pairs(db) \ visited[g] :
          /\ visited' = [visited EXCEPT ![g] = @ \cup {p}]
          /\ Finish(g, RangeResult(visited'[g], TRUE))
    /\ snap' = [snap EXCEPT ![g] = Empty]
    /\ UNCHANGED <<dbvars, lenvars, todo, cur, cnt>>

RangeVisit(g) ==
    /\ pc[g] = "iterating"
    /\ \E p \in Pairs(snap[g]) \ visited[g] :
          /\ visited' = [visited EXCEPT ![g] = @ \cup {p}]
          /\ \/ UNCHANGED <<pc, call, res, snap>>
             \/ /\ Finish(g, RangeResult(visited'[g], TRUE))
                /\ snap' = [snap EXCEPT ![g] = Empty]
    /\ UNCHANGED <<dbvars, lenvars, todo, cur, cnt>>

RangeEnd(g) ==
    /\ pc[g] = "iterating"
    /\ Pairs(snap[g]) \subseteq visited[g]
    /\ Finish(g, RangeResult(visited[g], FALSE))
    /\ snap' = [snap EXCEPT ![g] = Empty]
    /\ UNCHANGED <<dbvars, lenvars, visited, todo, cur, cnt>>

-----------------------------------------------------------------------------
\* Store: db.Update, then c.len.Add(1), whether the key was new or not.

StoreSet(g) ==
    /\ pc[g] = "Store" /\ ~WriteRefused
    /\ db' = Put(db, call[g].key, call[g].val)
    /\ Goto(g, "added")
    /\ UNCHANGED <<open, blocked, lenvars, call, res, local>>

StoreAdd(g) ==
    /\ pc[g] = "added"
    /\ len' = len + 1
    /\ Finish(g, NoResult)
    /\ UNCHANGED <<dbvars, initLenCall, local>>

-----------------------------------------------------------------------------
\* Delete: for every key a Load, a transaction and c.len.Add(-1).

DeleteLoad(g) ==
    /\ pc[g] = "Delete"
    /\ \E k \in todo[g] :
          /\ todo' = [todo EXCEPT ![g] = @ \ {k}]
          /\ \/ open /\ db[k] # Absent /\ Goto(g, "found") /\ cur' = [cur EXCEPT ![g] = {k}]
             \/ (~open \/ db[k] = Absent) /\ UNCHANGED <<pc, cur>>
    /\ UNCHANGED <<dbvars, lenvars, call, res, visited, snap, cnt>>

DeleteTxn(g) ==
    /\ pc[g] = "found" /\ ~WriteRefused
    /\ db' = Remove(db, cur[g])
    /\ cur' = [cur EXCEPT ![g] = {}]
    /\ Goto(g, "deleted")
    /\ UNCHANGED <<open, blocked, lenvars, call, res, visited, todo, snap, cnt>>

DeleteSub(g) ==
    /\ pc[g] = "deleted"
    /\ len' = len - 1
    /\ Goto(g, "Delete")
    /\ UNCHANGED <<dbvars, initLenCall, call, res, local>>

DeleteEnd(g) ==
    /\ pc[g] = "Delete" /\ todo[g] = {}
    /\ Goto(g, "done")
    /\ UNCHANGED <<dbvars, lenvars, call, res, local>>

\* Next: the first pair of a snapshot, then c.Delete of its key.
NextPeek(g) ==
    /\ pc[g] = "Next" /\ open
    /\ \/ /\ Present(db) = {}
          /\ Finish(g, NextResult({}))
          /\ UNCHANGED todo
       \/ \E k \in Present(db) :
             /\ res' = [res EXCEPT ![g] = NextResult({<<k, db[k]>>})]
             /\ todo' = [todo EXCEPT ![g] = {k}]
             /\ Goto(g, "Delete")
             /\ UNCHANGED call
    /\ UNCHANGED <<dbvars, lenvars, visited, cur, snap, cnt>>

-----------------------------------------------------------------------------
\* Len: the first caller raises the flag, counts, and sets the counter.

LenCheck(g) ==
    /\ pc[g] = "Len"
    /\ Goto(g, IF initLenCall THEN "lenload" ELSE "leninit")
    /\ UNCHANGED <<dbvars, lenvars, call, res, local>>

LenInit(g) ==
    /\ pc[g] = "leninit"
    /\ initLenCall' = TRUE
    /\ Goto(g, "lencount")
    /\ UNCHANGED <<dbvars, len, call, res, local>>

LenCount(g) ==
    /\ pc[g] = "lencount" /\ open
    /\ cnt' = [cnt EXCEPT ![g] = Cardinality(Present(db))]
    /\ Goto(g, "lenstore")
    /\ UNCHANGED <<dbvars, lenvars, call, res, visited, todo, cur, snap>>

LenStore(g) ==
    /\ pc[g] = "lenstore"
    /\ len' = cnt[g]
    /\ cnt' = [cnt EXCEPT ![g] = 0]
    /\ Goto(g, "lenload")
    /\ UNCHANGED <<dbvars, initLenCall, call, res, visited, todo, cur, snap>>

LenLoad(g) ==
    /\ pc[g] = "lenload"
    /\ Finish(g, LenResult(len))
    /\ UNCHANGED <<dbvars, lenvars, local>>

-----------------------------------------------------------------------------
\* Clear: DropAll, which refuses writes while it runs, then c.len.Store(0).

DropBegin(g) ==
    /\ pc[g] = "Clear" /\ ~WriteRefused
    /\ blocked' = TRUE
    /\ Goto(g, "dropping")
    /\ UNCHANGED <<db, open, lenvars, call, res, local>>

DropEnd(g) ==
    /\ pc[g] = "dropping"
    /\ db' = Empty
    /\ blocked' = FALSE
    /\ Goto(g, "dropped")
    /\ UNCHANGED <<open, lenvars, call, res, local>>

\* A faulty variant: Clear forgets c.len.Store(0).
ClearLenForgotten(g) ==
    /\ pc[g] = "dropped"
    /\ Finish(g, NoResult)
    /\ UNCHANGED <<dbvars, lenvars, local>>

ClearLen(g) ==
    /\ pc[g] = "dropped"
    /\ len' = 0
    /\ Finish(g, NoResult)
    /\ UNCHANGED <<dbvars, initLenCall, local>>

Close(g) ==
    /\ pc[g] = "Close"
    /\ open' = FALSE
    /\ Finish(g, NoResult)
    /\ UNCHANGED <<db, blocked, lenvars, local>>

-----------------------------------------------------------------------------
Step(g) ==
    \/ Load(g) \/ KeysOf(g) \/ RangeBegin(g) \/ RangeVisit(g) \/ RangeEnd(g)
    \/ StoreSet(g) \/ StoreAdd(g)
    \/ DeleteLoad(g) \/ DeleteTxn(g) \/ DeleteSub(g) \/ DeleteEnd(g) \/ NextPeek(g)
    \/ LenCheck(g) \/ LenInit(g) \/ LenCount(g) \/ LenStore(g) \/ LenLoad(g)
    \/ DropBegin(g) \/ DropEnd(g) \/ ClearLen(g)
    \/ Close(g) \/ Panics(g) \/ Return(g)

\* The three ways in which callers put the counter out of step with the
\* database: a Store of a key that is present, a Delete of a key that was
\* deleted since it was found, and a write that is being made while the first
\* Len or a Clear is about to set the counter to what it saw.
Setting(g) == pc[g] \in {"lenstore", "dropped"}
Overlap ==
    \E g, h \in G : /\ Setting(g) /\ pc[h] \in {"added", "deleted", "dropped"}
                    /\ g # h /\ {pc[g], pc[h]} # {"dropped"}
Disturbance ==
    \/ \E g \in G : StoreSet(g) /\ db[call[g].key] # Absent
    \/ \E g \in G : DeleteTxn(g) /\ cur[g] \cap Present(db) = {}
    \/ Overlap'

Next ==
    /\ \E g \in G : (\E c \in Calls : Invoke(g, c)) \/ Step(g)
    /\ clean' = (clean /\ ~Disturbance)

Spec == Init /\ [][Next]_vars

-----------------------------------------------------------------------------
\* Properties.

\* Goroutines whose transaction is committed and whose change of the counter
\* is still to come.
Adding == {g \in G : pc[g] = "added"}
Subtracting == {g \in G : pc[g] = "deleted"}

\* Clear or the first Len is yet to set the counter, or never will.
Unsettled(g) ==
    \/ pc[g] \in {"lencount", "lenstore", "dropped"}
    \/ pc[g] = "panic" /\ call[g].op = "Len"

\* Once the first Len has set it, the counter is the number of keys, up to
\* the changes that are on their way, unless one of the three Disturbances
\* has happened: in all other interleavings of Store, Delete, Next, Clear,
\* Len, Close and panics no update of it is lost or made twice.
LenCountsKeys ==
    clean /\ initLenCall /\ (\A g \in G : ~Unsettled(g))
        => len = Cardinality(Present(db)) - Cardinality(Adding) + Cardinality(Subtracting)

\* "Len returns the current number of key-value pairs in storage": so it
\* does, at least, when no other call is in progress.
QuietLenIsExact ==
    (initLenCall /\ \A g \in G : pc[g] = "idle") => len = Cardinality(Present(db))

\* Every operation but Len takes effect in its transactions as the contract
\* allows: the keys of a Delete one at a time, and Next as a lookup and a
\* later deletion.  Any number of goroutines may interfere, panics included.
\* After Close a call panics, or gives up as FaultyContract allows.
ToRemove(g) == todo[g] \cup cur[g]
Removing(g) ==
    /\ call[g].op = "Next" /\ pc[g] \in {"Delete", "found", "deleted", "panic"}
    /\ pc[g] = "panic" => ToRemove(g) # {}
PhaseOf(g) ==
    CASE pc[g] \in {"idle", "done"} -> pc[g]
      [] pc[g] \in {"added", "dropped"} -> "done"
      [] pc[g] = "iterating" -> "ranging"
      [] Removing(g) -> IF ToRemove(g) = {} THEN "done" ELSE "peeked"
      [] OTHER -> "pending"
CallOf(g) ==
    IF call[g].op = "Delete" THEN [call[g] EXCEPT !.keys = ToRemove(g)] ELSE call[g]
ResOf(g) ==
    IF pc[g] = "iterating" THEN RangeResult(Pairs(snap[g]), FALSE) ELSE res[g]
absPhase == [g \in G |-> PhaseOf(g)]
absCall == [g \in G |-> CallOf(g)]
absRes == [g \in G |-> ResOf(g)]

Contract == INSTANCE FaultyContract WITH
    Atomic <- OpNames \ {"Next", "Delete", "Len"}, failing <- ~open,
    contents <- db, phase <- absPhase, call <- absCall, res <- absRes
ImplementsContract == Contract!FaultySpec
=============================================================================
