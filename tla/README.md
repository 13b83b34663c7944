# TLA+ models of mightymap

`mightymap` is a generic Go map for many goroutines with exchangeable storages.
This directory holds TLA+ modules for it, the TLC runs that check them on
small instances, and proofs checked by TLAPS. Paths are relative to the root of
the repository, which is called `src/` in PROJECT.json.

## The system

| Component | State | Operations | What is hard |
|---|---|---|---|
| `Map` (`mightymap.go`) | `storage`, `allowOverwrite` | Load, Has, Store, Delete, Range, Keys, Pop, Next, Len, Clear, Close | Store and Pop are two calls of the storage; anything may happen between them |
| Interface (`storage/mightymapStore.go`, `IMightyMapStorage`, `byteStorage`) | – | Load, Store, Delete, Range, Keys, Next, Len, Clear, Close | says "atomic" of Store, Clear and Next |
| In-memory storages: direct, byte (`mightymapStore.go`), Swiss (`mightymapStoreSwiss.go`) | a map, a `sync.RWMutex` | as the interface | callbacks under the read lock; Next is Range then Delete; the zero key |
| SQLite storage (`mightymapStoreSQLite.go`) | a table, `mutex`, a cached row count with its time, `cachingMutex` | as the interface, `invalidateCountCache` | two locks taken in two orders; a cache; statements that fail and are only printed |
| Badger storage (`mightymapStoreBadger.go`) | a database, atomic `len` and `initLenCall`, a GC goroutine | as the interface | no lock: a counter changed outside the transactions; DropAll refuses writes; panics |
| Redis storage (`mightymapRedisStore.go`) | a server shared with other processes, expiring keys | as the interface, `scan` | no lock: the commands of different calls interleave; SCAN pages, keys that vanish between two commands, lost replies, retries, timeouts |
| MessagePack adapter (`msgpackAdapter.go`) | a global registry of types behind an RWMutex | encodes and decodes around a `byteStorage`; RegisterMsgpackType | values that do not decode: Next has already removed them; types that share a name; the registry does not survive the process, the stored bytes do |
| Options (`*Opts.go` and option functions) | structs filled before the storage exists | – | – |
| Migration tools (`cmd/`) | a configuration file, two stores, the statistics of one run | main, runMigration, transformKey, matchPattern | cancellation, panics, crashes and repeated runs; keys that become one; values that are dropped |

A caller's goroutine calls a method of `Map`, which calls its storage in the same
goroutine; Badger, SQLite, Redis and Swiss are reached through the MessagePack
adapter. Goroutines interact only through the state of the storage. There are no
messages between goroutines; Redis is reached by commands and replies that can be lost.
The only callback is the function given to Range, which runs between two turns of a loop
over the store, with the lock (in-memory, SQLite) or the snapshot (Badger) of Range still
held.

What makes each part correct:

* Map: a method takes effect at one instant; a map without overwriting never
  overwrites; Pop removes exactly what it returns; every method returns.
* In-memory: the Go map is never read while it is written; the operations are
  linearizable; every call returns.
* SQLite: the same, and the cached count is never that of another state of the table;
  no two methods wait for each other; a failing statement does no more than its share of
  harm.
* Badger: transactions take effect as the interface says; the counter is the number
  of keys.
* Redis: although no operation but Load and Store is one command, a scan misses nothing
  that was there throughout, an answer was true at some moment of the call, a removal
  removes, and every call ends.
* Adapter: what is stored and can be read comes back, with its type whenever the registry can
  know it; a reader panics only over a value that cannot be read.
* Migration: a run that reports success has copied everything, and no run copies anything
  else.

PROJECT.json lists the hazards of the code one by one, with the property that covers
each, or the reason why none does.

## Modules

| Module | Models |
|---|---|
| `StorageInterface` | contents, calls and results that all modules share |
| `StorageContract` | what a storage promises, as an abstract specification |
| `FaultyContract` | what is left of that promise when the database behind a storage fails |
| `RWMutex` | `sync.RWMutex`, external: from how the storages use it |
| `InMemoryStorage` | direct, byte and Swiss storage |
| `SQLiteStorage` | the SQLite storage |
| `BadgerStorage` | the Badger storage |
| `RedisStorage` | the Redis storage, its client and the server |
| `MsgpackAdapter` | the MessagePack adapter over any storage that keeps `StorageContract` |
| `Migration` | `cmd/migrate-redis` and `cmd/migrate-badger` |
| `MapInterface`, `AtomicMap` | the methods of `Map`; the map its comments describe |
| `MightyMap` | `Map` over any storage that keeps `StorageContract` |
| `MC...` | instances for TLC: symmetry, and who names which keys |
| `StorageContractProofs` | lemmas about the vocabulary and about the steps of the contract |
| `InMemoryStorageProofs`, `SQLiteStorageProofs`, `BadgerStorageProofs`, `RedisStorageProofs`, `MsgpackAdapterProofs`, `MigrationProofs`, `MightyMapProofs` | the theorems about the module of that name |

**State.** The contents of a store are a total function from `Keys` to values or
`Absent`; `LoadResult(Absent)` is `ok = false`. Values and encoded values are the same
set, except in `MsgpackAdapter`, which is about the difference. Context arguments are ignored
by all storages but Redis, where they are the timeout. A storage module has a variable `pc[g]`
for the place where goroutine `g` is in the method it runs, `call[g]` for the method and
its arguments, `res[g]` for the result, `visited[g]` for the pairs the callback has
seen. One step is one access to shared state: taking a lock, the section under the lock
(for Range and Delete, one turn of the loop), giving it back, one transaction, one
access to an atomic variable. Keys of a Delete are a set, since order and repetitions do
not matter there. `taken` is what Next returns with `ok = true`: the in-memory Next also leaves
the value it found beside `ok = false` when the key is the zero key, which is no result.

**StorageContract.** Every operation takes effect at one instant between call and return.
The constant `Atomic` names the operations of which this is asked. `Atomic = OpNames` is
the documented interface. Without "Next" in it, Next is a lookup and a later deletion, and
may take the zero key for an empty store; without "Delete", keys go one at a time; without
"Len", Len returns any number. Range takes a snapshot and shows all of it to the callback,
or some non-empty part if the callback stopped.

**FaultyContract.** StorageContract with a variable `failing`. While it is TRUE a call may
answer as an empty store would, miss some keys, leave some of the keys it was to delete, or
(Next) return a pair it did not remove; it never invents a pair and never changes a key it
was not given. While it is FALSE the contract holds to the letter. SQLite implements it with
`failing` = statements may fail or the database is closed, Badger with `failing` = closed.

**InMemoryStorage.** The three stores take the lock in the same way and touch the map in
the same order, so one module stands for all. `TakeRLock`/`RLocked`/`Answer` are
`RLock` and `defer RUnlock`; `TakeLock`/`Locked`/`ReleaseLock` are `Lock` and
`defer Unlock`. `NextPeek` is the Range of Next, after which the lock is free until
`TakeLock` of its Delete. The entries of "map" point the lock actions at the byte and
Swiss stores and the others at the direct store. A callback of Range may use the map:
`CallbackReads` is a nested RLock, `CallbackWrites` a nested Lock, both under the read lock
that Range keeps. `SelfWaiting` says that a goroutine waits for itself in this way: its
nested Lock waits for its own read lock, or its nested RLock for a writer that waits for its
read lock.

**SQLiteStorage.** Two RWMutexes. A writer executes its statement, then
`invalidateCountCache` takes the second lock. `LenFast` and `LenRecheck` are the two looks
at the cache, `LenCount` is SELECT COUNT(*) with the update of the cache. `lastCount` is
"zero", "fresh" or "expired"; `CacheExpires` is the passing of `cacheDuration`. When
`statementsFail`, chosen at the start, is TRUE, any statement, scan or decoding may fail;
after `Close` all do. Errors are printed and otherwise ignored by the code, so a failure
shows only in the result. This also covers a pool of connections to an in-memory database,
where every connection but the first one lacks the table. `May` says who uses which
operations.

**BadgerStorage.** The database is external: View reads a snapshot, Update writes one key
atomically (the storage turns conflict detection off), DropAll empties the database and
refuses writes in the meantime. What the code answers with `panic(err)` ends in the state
"panic", from which nothing follows. The history variable `clean` stays TRUE until one of
three `Disturbance`s of the counter happens: a Store of a key that is present, a Delete of
a key that was deleted since it was found, or a write in progress while the first Len or a
Clear sets the counter. `LenBound` keeps the counter, which can drift without limit, in a
finite range: no goroutine makes a new call outside it. The GC goroutine rewrites value log
files and leaves the committed pairs alone; its steps are stuttering steps here.

**RedisStorage.** One step is one command with its reply. The server is external: SET, GET
and DEL are atomic; each SCAN passes some of the keys that the cursor has left (`left`),
reports those present, and may report again some it had passed; pairs expire; a command
that is not answered was not executed, was executed, or is a write that will be executed
later (`late`). `Retry` sends the command again; `GiveUp` is the end of the retries, the
timeout of `opts.timeout`, or a closed client, and unwinds the call with a panic. A key
that is gone is an answer for Load and a panic for Next and Range (`Gone`). `during[g][k]`
is a history variable: the values `k` had since `g` made its call. Keys that are not
MessagePack are not in the model: one prefix belongs to one store.

**MsgpackAdapter.** A value is its type, an encoded value the type it came from, `Untyped`
(a nil, encoded without a type name) or `Garbage`. `Lookup`, `Register` and `Marshal` are
the three parts of msgpackEncodeValue, between which other goroutines register types.
`Name` may map two types to one name, `Elem` is what a pointer points to (which may be a
pointer again: the code follows one). msgpackDecodeValue decodes data without their type first,
into a `map[string]interface{}`, and encodes what came of it again, to decode that into the
registered type and into V. `Rereadable` are the types whose data survive the first part: a value
that holds a map whose keys are no strings is encoded but does not. `Fits` says into which types the
rest may be decoded. `V`, the type of the map's values, is a type or an interface; if it is an
interface, the value is set to one of the registered type (`Entry`), or to the maps and numbers that
MessagePack makes of data without a type (`Generic`), and that is a panic if they do not implement V
(`Implements`). What a pointer points to is registered under its own name and looked up under the
pointer's, so pointers come back without their type. All these relations are constants, and the
instance chooses them. `Restart` ends the process at any point, a panic included: the registry is
lost, the contents stay. `fresh`, `mine` and `known` are history variables: the keys last stored by this
process, the pairs among those that a reader's call of the storage met, and the names registered when
it began.

**Migration.** Both tools in one module; `config.tool` says which. The callback of Range is
split where it can panic or stop: `Callback` (count), `Filter` (pattern, dry run),
`MigrateKeyValue` (Store), `Select` (ctx.Done). `Expire` is the timeout, `Panic` a modulo by
log_interval = 0 or a Redis command with an expired context, `Crash` any other end. The
operator starts the tool again as often as they like, with any flags. A key is a prefix and
a rest, so that `transformKey` can make two keys one.

**MightyMap.** A method makes a first call and, in Store without overwriting and in Pop,
perhaps a second one. `allowOverwrite` is what New was given and never changes. `mpc[g]` is
"first", "between" or "last" accordingly. `window[g]` is a
history variable: the values the key had since the method was called.

## Runs

Every passing run checks the whole state space of its instance.

| Run | Instance | Shows |
|---|---|---|
| InMemory | 2 goroutines, 2 keys (one zero), all methods, callbacks that use the map | `MapAccessExclusive`: nobody reads or iterates over the map while it is written; the stores implement StorageContract with Atomic = all but Next; every call returns unless some callback waits for its own goroutine, and such a wait lasts for ever (`SelfWaitIsForEver`) |
| InMemoryNextAtomic | 2 goroutines | violated: Next returns a pair that somebody else has taken or replaced |
| MapShared | 2 goroutines on the same keys, weak Next and Delete | what Load, Has and Pop return was true during the call; a Store without overwriting inserts only if the key was absent at some moment of the call |
| MapPrivate | keys of one goroutine each | Map implements AtomicMap; nothing is overwritten; Pop removes what it returns |
| MapNoOverwrite | shared keys | violated: Store overwrites |
| SQLite | 2 goroutines, 2 keys, 1 value, with and without failing statements, Close | `CountCacheCoherent`; the store implements FaultyContract with Atomic = OpNames: a write takes effect when the cache has been invalidated; every call returns unless the store is in the cycle of SQLiteThreadSafe |
| SQLiteThreadSafe | Store and Len | violated: Len and a writer wait for each other |
| Badger | 2 goroutines on the same keys, 2 values, all methods | FaultyContract with weak Next, Delete and Len; the counter is the number of keys, up to updates on their way, as long as no Disturbance has happened |
| BadgerLen | 1 goroutine, Store and Len | violated: an overwrite counts the key a second time |
| Redis | a goroutine that scans, one that writes, both use Next; 2 keys, 1 retry, 1 late write, expiry | `ScanComplete`, `AnswersTrueDuringCall`, `RemovalsTakeEffect`; Next and Range panic on a missing key only if that very key was there at some moment of the call and is gone when they ask for it (`NilPanicsNeedARemoval`); every step of a call brings its end nearer (`StepsRunOut`) |
| Adapter | 2 goroutines, 1 key, 5 types (a struct, two others of its name, of which one cannot be encoded and one not be read again, a pointer to it, and one apart), nil, garbage, 3 types of V, restarts | `OwnTypesComeBack`: a value stored by this process is handed to its readers with a type of its name, and without a panic, unless it is a pointer or cannot be read; `NothingDecodableIsLost`: what can be read reaches the caller, whoever stored it, without its type only if no type of its name was registered before; `TypesNotConfused`: never as a type of another name |
| Migration | up to 3 keys, of which two may become one, 3 values, of which one cannot be encoded, both tools | `CompletedMeansMigrated`, `TargetFromSource`, `StatsTellTheTruth`, and every run ends |

MapShared and MapPrivate start with either value of `allowOverwrite`. That Pop, when
keys are shared, may return a value that somebody else has popped too is the same window
between two calls of the storage, and listed under "hazards"; MapPrivate shows that private
keys close it. `CompletedMeansMigrated`
speaks of runs that were not cut short (`todo = {}`): a run whose context expires between two
keys prints "Migration completed successfully!" all the same, after a line that says it was
cancelled.

The runs that end in a violation check a sentence of a comment or of the repository's
README; "findings" in PROJECT.json quotes it.

**Bounds.** The races of this code need two goroutines and one key. A second key lets a
Range, a scan or a Delete be half done, and a second value makes an overwrite visible. Except
for liveness the theorems cover any number of goroutines, keys and values. SQLite has one
value, so it does not tell an overwrite from a no-op; which value a Store writes is not
where this storage differs from the others. Redis has one value too, and tells a value from
none; its second goroutine does not scan, except in Next, so that every pair of a scanning
and a writing call occurs without those of two scans, which do not disturb each other.
`LateBound` and `MaxRetries` are 1: a write that is late once may be overtaken by any number
of other calls. The adapter has one key, because the registry is shared by all of them, and no Delete, Keys,
Len, Clear and Close, which it passes on to the storage as they are.
MapPrivate leaves out Next and Clear, which touch the keys of others and so make Pop's two
calls visible again; the theorem about NoOverwrite needs no such restriction. Symmetry is
used over keys or goroutines in the runs without liveness.

**Deadlock** is checked except where the code can really stop: in the in-memory stores (a
callback that waits for itself), in SQLite (the cycle of Len and a writer) and in Badger (a
panic). `CallsReturn` replaces the check for the first two.

**Fairness.** Weak fairness of each goroutine's steps: the Go scheduler is preemptive and a
goroutine that stays able to run does run. Strong fairness of taking a write lock: the
inner mutex of `sync.RWMutex` switches to starvation mode after a waiter has been overtaken
for a millisecond and then hands itself over. No fairness is assumed of calls being made
or of the cache expiring. That the methods of `Map` return is left to the storages: they are
at most two calls of a storage in a row. Callbacks of Range are assumed to return, and
in the models of SQLite and Badger not to use the map. For Redis no fairness is needed:
`StepsRunOut` bounds the number of steps that a call can take. `RunsEnd` assumes weak fairness
of the steps of the migration tool, which is a single goroutine.

## Proofs

All theorems hold for every finite set of keys and any sets of goroutines and values;
TLAPS checks them to the last leaf. Each inductive invariant was an invariant of a TLC run
before it was proved.

* `InMemoryStorageProofs`: `TypeCorrect` (`Spec => []TypeOK`), `Exclusion`
  (`Spec => []MapAccessExclusive`), `SelfWaitNeverEnds` (`Spec => SelfWaitIsForEver`) and
  `Linearizable` (`Spec => ImplementsContract`). Exclusion is not inductive: it says nothing
  about a writer that waits. `LockInv` relates the mutex to the places of the goroutines: who
  is in a read section is among its readers, who is in a write section is its writer, and
  then there are no readers. Each action is shown to keep it. `SelfWaitNeverEnds` rests on the
  same invariant: a goroutine that waits for itself is among the readers, so the writer it
  waits for, itself or another one, cannot be granted the lock, and nobody else can take the
  read lock away. `Linearizable` adds `RefinementInv`: which methods can be at which place,
  that a Range has shown only pairs that are still there, and what part of its work a writer
  has done to the map (`Written`). A step of one goroutine changes only its own entries of the
  abstract state (`OthersStay`, `SeenStep`), since nobody is in a Range when a writer releases
  the lock; so each action is compared with one action of the contract, or with none.
* `SQLiteStorageProofs`: `TypeCorrect`, `CacheCoherence` (`Spec => []CountCacheCoherent`) and
  `Linearizable` (`Spec => ImplementsContract`), with failing statements and Close. A Len
  that counts holds both mutexes, so no writer is between its statement and the
  invalidation (`MutexInv`); a count that enters the cache is therefore that of the rows
  readers see, and every change of those rows goes through `Invalidate`, which clears it.
  `Linearizable` uses that coherence: a Len that answers from the cache answers with the number
  of committed rows. `Written` says what the statement of a writer that has yet to invalidate
  the cache has done or failed to do, and `FailuresStay` that only Close makes a sound
  database fail.
* `BadgerStorageProofs`: `TypeCorrect`, `LenIsRight` (`Spec => []LenCountsKeys`) and
  `Linearizable` (`Spec => ImplementsContract`). `Places` says which operation a goroutine is
  in at each place. `LenCountsKeys` counts the goroutines that have committed and not yet
  changed the counter, so `CountInv` adds that these are finitely many, that who found a key
  to delete has found one (`FoundOne`), and that, without a disturbance, who is about to set
  the counter has seen the number of keys there are now and no write is being made meanwhile
  (`SettingRight`). `StepShape` reduces the steps to the few ways in which they change the
  database, the counter and those two sets, and each way is counted (`OnTheirWay`,
  `KeyCounts`). For `Linearizable`, `RefinementInv` says what a Delete or the Delete in a Next
  has yet to remove (`Doomed`; for Next only the key of the pair it returns), that a result
  is there only at the end (`Unanswered`), and that a Range has shown pairs of its snapshot
  (`Shown`). The counter plays no part: of Len the contract asks only for a number.
* `RedisStorageProofs`: `RedisTypeCorrect`, `ScansComplete`, `AnswersTrue`,
  `RemovalsEffective`, `NilPanicsExplained` and `CallsRunOut`, one for each property of the
  run. The invariant is kept goroutine by goroutine: `Place` and `Shape` (which operation is at
  which command, with which result so far), `Window` (the history `during` contains what the
  server holds now), `Scanning` (a key that was there throughout is either still `left` to the
  cursor or among the keys found), `Removing` (a key to be removed is still in the list or has
  been absent since the call), `Finished`. `NilPanicsExplained` is about a step: only a GET
  of Next or Range leads to that panic (`OnlyGonePanics`), and the keys that a scan has found were
  there during the call. For `CallsRunOut` the rank of a call is shown to be
  a natural number and to fall with each of its steps, retries and duplicates of SCAN included.
* `MsgpackAdapterProofs`: `AdapterTypeCorrect`, `OwnTypesReturn` (`OwnTypesComeBack`),
  `DecodableNotLost` (`NothingDecodableIsLost`) and `DecodedTypesRight` (`TypesNotConfused`), over
  any storage that keeps the contract and for any relations between types. They need more than
  themselves to be inductive: what this process has stored has its name registered unless it is a pointer
  (`FreshInv`, in terms of `Settled`), also while it is still on its way (`Prepared`) and after it has
  been read (`Reading`, which also says that whatever has been read so far has been handed on as it
  should); a goroutine's storage call is the one its method makes (`Follows`); names lead to types of
  that name (`RegistryInv`). Names stay registered while the process lives, so what a reader
  knew when it began it still knows when it decodes; only the type behind the name may change.
* `MigrationProofs`: `MigrationTypeCorrect`, `NothingForeignMigrated`, `CompletedRunsMigrate`
  and `StatisticsTrue`. `ProgressInv` says that every selected key that the loop has passed is
  in the target, under its new key and with the value of some key that becomes that one;
  `CountInv` ties the counters to the keys passed, by cardinality.
* `MightyMapProofs`: `MapTypeCorrect` (`MapSpec => []MapTypeOK`), over storages with any
  `Atomic`. The invariant adds `Agreement`, which ties the method a goroutine runs to the
  storage call it makes. `MethodResultsTrue` and `InsertsWhatWasAbsent` need no assumption on
  who names which keys: the history `window` contains the present value of the key and every
  value a first call has seen. `PrivateKeysNotOverwritten`: if no two goroutines name the same
  key, `MapSpec => NoOverwrite`, whatever Next, Clear, Delete and Range do. The invariant is
  `StillAbsent`: what Store's Load found absent is absent until its Store takes effect;
  `EffectShape` says that no storage step but a Store makes a key present.
  `PopTakesWhatItFound` (`PopRemovesWhatItReturns`) assumes of the callers, as the run
  MapPrivate does, private keys and no Next or Clear, and of the storage an atomic Delete:
  without any one of them TLC has a counterexample. Under the same assumptions
  `MethodsAreAtomic` (`MapSpec => ImplementsAtomicMap`): every method is one step of the map
  that the comments describe. The invariant `MethodsUnderway` says which of its two calls a
  method is in, with which arguments and with a result of which shape; together with
  `StillAbsent` and `StillThere`, that what a first call saw is so until the second takes effect,
  the method's one step is the effect of its last call, or of its first when that settles it
  (`ResultIsFinal`).
* `StorageContractProofs`: the contract is type correct (`ContractTypeCorrect`), and
  `EffectFrame`, what one step of any storage that keeps it may change.

The proof modules of the storages start with the same four lemmas about contents, calls and
results, because each of them extends only its own component.

The assumptions are those stated in the modules: finitely many keys, `Absent` is not a
value, operations are operations, each goroutine's `Owned` is a set of keys; for the adapter
that names, pointers and decodings are functions and relations on its types; for Redis that
the bounds are natural numbers; for the migration tools finitely many rests of keys.

Only model-checked: liveness (`CallsReturn`, `RunsEnd`: fairness and ENABLED
are beyond the prover). `MethodsAreAtomic` asks for an atomic Delete, as the run MapPrivate does.

## Not modelled

* That the pool of connections to an in-memory SQLite database may close the one
  connection that has the table (more than `maxIdleConns` readers at once): the store is
  empty from then on.
* Callbacks of Range that use the map, on SQLite: they would wait for themselves as those of
  the in-memory stores do.
* Keys that cannot be marshalled in Badger and Redis, transactions too big for Badger, and
  failing disks: they panic before anything has changed.
* Several Redis stores on one server of which one prefix begins with the other.
* Bytes that are MessagePack but were not written by the adapter (no "data" field), empty
  values, and pointers that are nil (encoded with the name of their type, but as nil data).
* Key patterns with a star. `cmd/migrate-redis.yaml.example:77` calls "user:*" a pattern for the keys
  that begin with "user:"; `matchPattern` compares the whole key with it, so it selects the key of
  that very name, as a rule none, and such a migration copies nothing and reports success. In the model
  it is a pattern like that of any other key the source lacks.
* Pairs of the source that change, and pairs of the target that expire, during a migration.
  `cmd/migrate-badger/main_simple.go` is a template in which the loop is left to the reader.
* Options, logging, flag parsing, printing. Two oddities of the options: `WithRedisTLSConfig`
  drops its first argument, and `WithGCInterval(0)` makes the GC goroutine panic.

## Plan

Every invariant and action property that a passing run checks has its theorem, and so has
every refinement. What could be added:

1. The adapter as an implementation of StorageContract over the values that MessagePack keeps,
   when every type is registered and no two types share a name.
2. The map over FaultyContract: what its methods promise when statements fail.
