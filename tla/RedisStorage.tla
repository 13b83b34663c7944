---------------------------- MODULE RedisStorage ----------------------------
(***************************************************************************)
(* mightyMapRedisStorage (storage/mightymapRedisStore.go): a Redis server  *)
(* that other goroutines and other processes write too, reached by one     *)
(* command at a time.  The storage has no lock, so that the commands of    *)
(* different calls interleave freely, and an error of the client is a      *)
(* panic of the caller.                                                    *)
(*                                                                         *)
(* The server and the client library are external:                         *)
(*   - SET, GET and DEL are atomic; SCAN passes a cursor over the key      *)
(*     space, any part of it at a time: it reports every key that is       *)
(*     there when the cursor passes, and may report a key again;           *)
(*   - a pair may expire (WithRedisExpire);                                *)
(*   - a command whose reply is lost, before or after it is executed, is   *)
(*     sent again up to MaxRetries times; a write that the client gave up  *)
(*     may still reach the server later.                                   *)
(***************************************************************************)
EXTENDS StorageInterface, Sequences

CONSTANTS
    May,         \* May[g]: the operations of Ops that g uses
    Expires,     \* whether pairs expire
    MaxRetries,  \* opts.maxRetries
    LateBound    \* how many abandoned writes may be on their way

ASSUME MayAreOps == May \in [G -> SUBSET Ops]
ASSUME ExpiresIsBoolean == Expires \in BOOLEAN
ASSUME BoundsAreNat == MaxRetries \in Nat /\ LateBound \in Nat

VARIABLES
    db,       \* the pairs with the store's prefix on the server
    late,     \* writes given up by their client that may still be executed
    open,     \* FALSE once c.redisClient has been closed
    pc,       \* pc[g]: the command g is waiting for
    call, res, visited,   \* as in InMemoryStorage
    tries,    \* tries[g]: how often the command has been sent in vain
    left,     \* left[g]: the keys that the cursor of scan has yet to pass
    keys,     \* keys[g]: what scan has returned or Delete was given, less what
              \*   the loop over it has dealt with
    during    \* history: during[g][k] are the values of k since g made the
              \*   call it is in, {} for a key the call has nothing to do with

server == <<db, late, open, during>>
vars == <<db, late, open, during, pc, call, res, tries, visited, left, keys>>

Cell == Values \cup {Absent}
Writes == Keys \X Cell     \* <<k, Absent>> is DEL k, the others are SETs
Unseen == [k \in Keys |-> {}]

\* The sequences in which the elements of a set may come, each of them once,
\* and the elements of a sequence.
Orders(S) ==
    {s \in [1..Cardinality(S) -> S] : \A i, j \in 1..Cardinality(S) : s[i] = s[j] => i = j}
Elements(s) == {s[i] : i \in 1..Len(s)}

\* Where a goroutine is: waiting for a command, or without one.  A call ends
\* in "nilpanic" if a key it looked for was gone and in "errpanic" if the
\* client reported another error.
Commands == {"set", "get", "scan", "del", "nextget", "rangeget"}
Ends == {"done", "nilpanic", "errpanic"}

\* The types of the state of the server and of the goroutines that use it.
TypeOK ==
    /\ db \in Contents
    /\ late \in SUBSET Writes
    /\ open \in BOOLEAN
    /\ pc \in [G -> Commands \cup Ends \cup {"idle", "scanned", "closing"}]
    /\ call \in [G -> Calls \cup {NoCall}]
    /\ res \in [G -> Results]
    /\ visited \in [G -> SUBSET (Keys \X Values)]
    /\ tries \in [G -> 0..MaxRetries]
    /\ left \in [G -> SUBSET Keys]
    /\ keys \in [G -> Seq(Keys)]
    /\ during \in [G -> [Keys -> SUBSET Cell]]

\* NewMightyMapRedisStorage, on a server that may hold pairs already.
Init ==
    /\ db \in Contents
    /\ late = {}
    /\ open = TRUE
    /\ during = [g \in G |-> Unseen]
    /\ pc = [g \in G |-> "idle"]
    /\ call = [g \in G |-> NoCall]
    /\ res = [g \in G |-> NoResult]
    /\ tries = [g \in G |-> 0]
    /\ visited = [g \in G |-> {}]
    /\ left = [g \in G |-> {}]
    /\ keys = [g \in G |-> <<>>]

-----------------------------------------------------------------------------
\* The server.

\* What the calls in progress have seen when the pairs become d.
Seen(d) ==
    [g \in G |-> [k \in Keys |->
        IF during[g][k] = {} THEN {} ELSE during[g][k] \cup {d[k]}]]

Change(d) == db' = d /\ during' = Seen(d)

Expire(k) ==
    /\ Expires /\ db[k] # Absent
    /\ Change(Remove(db, {k}))
    /\ UNCHANGED <<late, open, pc, call, res, tries, visited, left, keys>>

\* A write that its client gave up is executed after all.
LateWrite(w) ==
    /\ w \in late
    /\ late' = late \ {w}
    /\ Change(Put(db, w[1], w[2]))
    /\ UNCHANGED <<open, pc, call, res, tries, visited, left, keys>>

-----------------------------------------------------------------------------
\* Calls.

Goto(g, l) == pc' = [pc EXCEPT ![g] = l]
Give(g, r) == res' = [res EXCEPT ![g] = r]

FirstPc(c) ==
    CASE c.op = "Store" -> "set"
      [] c.op = "Load" -> "get"
      [] c.op = "Close" -> "closing"
      [] c.op = "Delete" -> "del"
      [] OTHER -> "scan"

\* The keys that a call is about.
Concerns(c) ==
    CASE c.op = "Load" -> {c.key}
      [] c.op = "Delete" -> c.keys
      [] FirstPc(c) = "scan" -> Keys
      [] OTHER -> {}

Invoke(g, c) ==
    /\ pc[g] = "idle" /\ c.op \in May[g]
    /\ Goto(g, FirstPc(c))
    /\ call' = [call EXCEPT ![g] = c]
    /\ \E s \in Orders(IF c.op = "Delete" THEN c.keys ELSE {}) :
          keys' = [keys EXCEPT ![g] = s]
    /\ left' = [left EXCEPT ![g] = IF FirstPc(c) = "scan" THEN Keys ELSE {}]
    /\ during' = [during EXCEPT ![g] =
                    [k \in Keys |-> IF k \in Concerns(c) THEN {db[k]} ELSE {}]]
    /\ UNCHANGED <<db, late, open, res, tries, visited>>

\* The command of g is answered; g goes on to l.
Answered(g, l) ==
    /\ open
    /\ tries' = [tries EXCEPT ![g] = 0]
    /\ Goto(g, l)
    /\ UNCHANGED <<late, open, call>>

\* The same for a command that changes nothing on the server.
Read(g, l) == Answered(g, l) /\ UNCHANGED <<db, during>>

\* A step of g that needs no command.
Internal(g, l) == Goto(g, l) /\ UNCHANGED <<server, call, tries>>

\* The locals of a call go out of scope, at its end or when a panic unwinds.
Forget(g) ==
    /\ keys' = [keys EXCEPT ![g] = <<>>]
    /\ left' = [left EXCEPT ![g] = {}]
    /\ visited' = [visited EXCEPT ![g] = {}]

\* The caller gets its result, or recovers from the panic.
Return(g) ==
    /\ pc[g] \in Ends
    /\ Goto(g, "idle")
    /\ call' = [call EXCEPT ![g] = NoCall]
    /\ Give(g, NoResult)
    /\ during' = [during EXCEPT ![g] = Unseen]
    /\ UNCHANGED <<db, late, open, tries, visited, left, keys>>

-----------------------------------------------------------------------------
\* Store and Load.

Set(g) ==
    /\ pc[g] = "set"
    /\ Change(Put(db, call[g].key, call[g].val))
    /\ Answered(g, "done")
    /\ UNCHANGED <<res, visited, left, keys>>

\* Faulty variants: redis.Nil is an error like any other; any error means
\* that the key is missing.
GetNilPanics(g) ==
    /\ pc[g] = "get"
    /\ Read(g, IF db[call[g].key] = Absent THEN "nilpanic" ELSE "done")
    /\ UNCHANGED <<res, visited, left, keys>>
GetErrorIsMissing(g) ==
    /\ pc[g] = "get"
    /\ Read(g, "done")
    /\ \E v \in {Absent, db[call[g].key]} : Give(g, LoadResult(v))
    /\ UNCHANGED <<visited, left, keys>>

\* redis.Nil means that the key is missing.
Get(g) ==
    /\ pc[g] = "get"
    /\ Read(g, "done")
    /\ Give(g, LoadResult(db[call[g].key]))
    /\ UNCHANGED <<visited, left, keys>>

-----------------------------------------------------------------------------
\* scan: one SCAN after the other, until the cursor comes back to 0.

\* A SCAN that reports the keys page and leaves those of rest to the next.
Page(g, page, rest) ==
    /\ \E s \in Orders(page) : keys' = [keys EXCEPT ![g] = @ \o s]
    /\ left' = [left EXCEPT ![g] = rest]
    /\ Read(g, IF rest = {} THEN "scanned" ELSE "scan")
    /\ UNCHANGED <<res, visited>>

\* Faulty variants: an empty page is taken for the last one; the cursor is
\* not passed on to the next SCAN.
ScanUntilEmpty(g) ==
    /\ pc[g] = "scan"
    /\ \E passed \in (SUBSET left[g]) \ {{}} :
          LET page == passed \cap Present(db)
          IN  Page(g, page, IF page = {} THEN {} ELSE left[g] \ passed)
ScanFromStart(g) ==
    /\ pc[g] = "scan" /\ Len(keys[g]) < 2
    /\ \E passed \in (SUBSET Keys) \ {{}} :
          Page(g, passed \cap Present(db), IF passed = Keys THEN {} ELSE Keys)

\* The cursor passes some keys, and the page may report once more keys that
\* it had passed before.
Scan(g) ==
    /\ pc[g] = "scan"
    /\ \E passed \in (SUBSET left[g]) \ {{}}, again \in SUBSET (Keys \ left[g]) :
          Page(g, (passed \cup again) \cap Present(db), left[g] \ passed)

\* What the callers of scan do with the keys it returns.
Scanned(g, op) == pc[g] = "scanned" /\ call[g].op = op

KeysOf(g) ==
    /\ Scanned(g, "Keys")
    /\ Internal(g, "done") /\ Forget(g)
    /\ Give(g, KeysResult(Elements(keys[g])))

LenOf(g) ==
    /\ Scanned(g, "Len")
    /\ Internal(g, "done") /\ Forget(g)
    /\ Give(g, LenResult(Len(keys[g])))

\* Clear goes on to Delete, and Range to its loop, with all the keys; Next
\* with the first of them, if there is one.
LoopOver(g) ==
    \/ /\ Scanned(g, "Clear") /\ Internal(g, "del")
       /\ UNCHANGED <<res, visited, left, keys>>
    \/ /\ Scanned(g, "Range") /\ Internal(g, "rangeget")
       /\ UNCHANGED <<res, visited, left, keys>>
    \/ /\ Scanned(g, "Next") /\ keys[g] # <<>> /\ Internal(g, "nextget")
       /\ keys' = [keys EXCEPT ![g] = <<Head(@)>>]
       /\ UNCHANGED <<res, visited, left>>
    \/ /\ Scanned(g, "Next") /\ keys[g] = <<>> /\ Internal(g, "done")
       /\ Give(g, NextResult({}))
       /\ UNCHANGED <<visited, left, keys>>

-----------------------------------------------------------------------------
\* The loops over the keys.

\* A faulty variant: the loop returns after the first key.
DelFirst(g) ==
    /\ pc[g] = "del" /\ keys[g] # <<>>
    /\ Change(Remove(db, {Head(keys[g])}))
    /\ keys' = [keys EXCEPT ![g] = <<>>]
    /\ Answered(g, "del")
    /\ UNCHANGED <<res, visited, left>>

\* Delete's loop, which Clear and Next use too: DEL of a key.
Del(g) ==
    /\ pc[g] = "del" /\ keys[g] # <<>>
    /\ Change(Remove(db, {Head(keys[g])}))
    /\ keys' = [keys EXCEPT ![g] = Tail(@)]
    /\ Answered(g, "del")
    /\ UNCHANGED <<res, visited, left>>

DelEnd(g) ==
    /\ pc[g] = "del" /\ keys[g] = <<>>
    /\ Internal(g, "done")
    /\ UNCHANGED <<res, visited, left, keys>>

\* A GET of Next or Range does not expect redis.Nil.
Gone(g) ==
    /\ pc[g] \in {"nextget", "rangeget"} /\ keys[g] # <<>>
    /\ db[Head(keys[g])] = Absent
    /\ Read(g, "nilpanic")
    /\ Forget(g) /\ Give(g, NoResult)

\* Next: GET of the key, and then c.Delete.
NextGet(g) ==
    /\ pc[g] = "nextget"
    /\ LET k == Head(keys[g])
       IN  db[k] # Absent /\ Give(g, NextResult({<<k, db[k]>>}))
    /\ Read(g, "del")
    /\ UNCHANGED <<visited, left, keys>>

\* Range: GET of a key, and then f, which breaks the loop or not.
RangeGet(g) ==
    /\ pc[g] = "rangeget" /\ keys[g] # <<>>
    /\ LET k == Head(keys[g])
           shown == visited[g] \cup {<<k, db[k]>>}
       IN  /\ db[k] # Absent
           /\ \/ /\ Read(g, "rangeget")
                 /\ visited' = [visited EXCEPT ![g] = shown]
                 /\ keys' = [keys EXCEPT ![g] = Tail(@)]
                 /\ UNCHANGED <<res, left>>
              \/ /\ Read(g, "done")
                 /\ Give(g, RangeResult(shown, TRUE))
                 /\ Forget(g)

RangeEnd(g) ==
    /\ pc[g] = "rangeget" /\ keys[g] = <<>>
    /\ Internal(g, "done") /\ Forget(g)
    /\ Give(g, RangeResult(visited[g], FALSE))

Close(g) ==
    /\ pc[g] = "closing"
    /\ open' = FALSE
    /\ Goto(g, "done")
    /\ UNCHANGED <<db, late, during, call, res, tries, visited, left, keys>>

-----------------------------------------------------------------------------
\* A command that is not answered.

Waiting(g) == pc[g] \in Commands /\ (pc[g] \in {"del", "rangeget"} => keys[g] # <<>>)

\* The write that the command of g asks for, if it is one.
Asked(g) ==
    CASE pc[g] = "set" -> {<<call[g].key, call[g].val>>}
      [] pc[g] = "del" -> {<<Head(keys[g]), Absent>>}
      [] OTHER -> {}

\* The connection breaks before the write reached the server or after it was
\* executed, or the write is still on its way; or the command is a read.
Lost(g) ==
    \/ UNCHANGED <<db, late>>
    \/ \E w \in Asked(g) : db' = Put(db, w[1], w[2]) /\ UNCHANGED late
    \/ /\ Cardinality(late) < LateBound
       /\ \E w \in Asked(g) : late' = late \cup {w}
       /\ UNCHANGED db

\* A faulty variant: one retry too many.
RetryOnceMore(g) ==
    /\ Waiting(g) /\ open /\ tries[g] <= MaxRetries
    /\ Lost(g)
    /\ during' = Seen(db')
    /\ tries' = [tries EXCEPT ![g] = @ + 1]
    /\ UNCHANGED <<open, pc, call, res, visited, left, keys>>

\* The client sends the command again ...
Retry(g) ==
    /\ Waiting(g) /\ open /\ tries[g] < MaxRetries
    /\ Lost(g)
    /\ during' = Seen(db')
    /\ tries' = [tries EXCEPT ![g] = @ + 1]
    /\ UNCHANGED <<open, pc, call, res, visited, left, keys>>

\* ... or gives up: the retries or opts.timeout are exhausted, or the client
\* is closed, which is noticed at once.
GiveUp(g) ==
    /\ Waiting(g)
    /\ IF open THEN Lost(g) ELSE UNCHANGED <<db, late>>
    /\ during' = [Seen(db') EXCEPT ![g] = Unseen]
    /\ tries' = [tries EXCEPT ![g] = 0]
    /\ call' = [call EXCEPT ![g] = NoCall]
    /\ Goto(g, "errpanic")
    /\ Forget(g) /\ Give(g, NoResult)
    /\ UNCHANGED open

-----------------------------------------------------------------------------
Step(g) ==
    \/ Set(g) \/ Get(g) \/ Scan(g) \/ KeysOf(g) \/ LenOf(g) \/ LoopOver(g)
    \/ Del(g) \/ DelEnd(g) \/ NextGet(g) \/ RangeGet(g) \/ RangeEnd(g) \/ Gone(g)
    \/ Retry(g) \/ GiveUp(g) \/ Close(g) \/ Return(g)

Next ==
    \/ \E k \in Keys : Expire(k)
    \/ \E w \in Writes : LateWrite(w)
    \/ \E g \in G : (\E c \in Calls : Invoke(g, c)) \/ Step(g)

Spec == Init /\ [][Next]_vars

-----------------------------------------------------------------------------
\* Properties.

\* The keys that were there from the call of g to now, and those that were
\* there at some time.
Throughout(g) == {k \in Concerns(call[g]) : Absent \notin during[g][k]}
Sometime(g) == {k \in Keys : during[g][k] \cap Values # {}}

\* The result of a scan has every key that was there throughout the call and
\* none that never was.
Complete(g) ==
    /\ call[g].op = "Keys" =>
          Throughout(g) \subseteq res[g].keys /\ res[g].keys \subseteq Sometime(g)
    /\ call[g].op = "Range" =>
          res[g].stopped \/ Throughout(g) \subseteq {p[1] : p \in res[g].pairs}
    /\ call[g].op = "Len" =>
          Cardinality(Throughout(g)) <= res[g].len
          /\ (res[g].len > 0 => Sometime(g) # {})
    /\ call[g].op = "Next" => res[g].taken # {} \/ Throughout(g) = {}

\* A scan, taken page by page while others write and keys expire, misses no
\* key that was there throughout the call and reports none that never was:
\* so for Keys, for a Range that f did not stop, for Len (which may count a
\* key twice, but none too few), and for a Next that finds nothing.
ScanComplete == \A g \in G : pc[g] = "done" => Complete(g)

\* The values of the result are values that the keys had during the call.
Current(g) ==
    /\ call[g].op = "Load" => res[g].val \in during[g][call[g].key]
    /\ call[g].op = "Range" => \A p \in res[g].pairs : p[2] \in during[g][p[1]]
    /\ call[g].op = "Next" => \A p \in res[g].taken : p[2] \in during[g][p[1]]

\* A value that Load, Next or Range hands out is one the key had during the
\* call, and Load says that a key is missing only if it was.
AnswersTrueDuringCall == \A g \in G : pc[g] = "done" => Current(g)

\* The keys that a call has to remove, once it has got as far as Delete.
Doomed(g) ==
    CASE call[g].op = "Delete" -> call[g].keys
      [] call[g].op = "Clear" -> Keys
      [] call[g].op = "Next" -> {p[1] : p \in res[g].taken}
      [] OTHER -> {}

\* When Delete, Clear or Next returns, no key it was to remove has been there
\* all the time since the call, whatever was lost, repeated or late: Clear
\* deletes one key after the other and spares only what came back.
RemovalsTakeEffect == \A g \in G : pc[g] = "done" => Doomed(g) \cap Throughout(g) = {}

\* The key that a GET of g asks for.
Wanted(g) ==
    CASE pc[g] = "get" -> {call[g].key}
      [] pc[g] \in {"nextget", "rangeget"} -> {Head(keys[g])}
      [] OTHER -> {}

\* A call panics on a missing key only if that key was there at some time of
\* the call and is gone again when the GET asks for it: another goroutine,
\* the clock or a late write took it away after scan had reported it.  A key
\* that nobody touches, or that was never there, makes no call panic.
NilPanicsNeedARemoval ==
    [][\A g \in G : (pc[g] # "nilpanic" /\ pc'[g] = "nilpanic") =>
         \E k \in Wanted(g) : k \in Sometime(g) /\ db[k] = Absent]_vars

\* A bound on the steps that are left of a call: the pages of its scan and the
\* commands of its loop ...
StepsLeft(g) ==
    LET n == Len(keys[g])
    IN  CASE pc[g] = "idle" -> 0
          [] pc[g] \in Ends -> 1
          [] pc[g] \in {"closing", "set", "get"} -> 2
          [] pc[g] \in {"del", "rangeget"} -> n + 2
          [] pc[g] = "nextget" -> n + 3
          [] pc[g] = "scanned" -> n + 4
          [] OTHER -> n + 4 + Cardinality(left[g]) * (Cardinality(Keys) + 1)

\* ... each sent MaxRetries + 1 times at most.
Rank(g) == StepsLeft(g) * (MaxRetries + 1) + (MaxRetries - tries[g])

\* Every call returns or panics, whatever the others do and however many
\* commands are lost: each of its steps brings its end nearer.
StepsRunOut == [][\A g \in G : Step(g) => Rank(g)' < Rank(g)]_vars
=============================================================================
