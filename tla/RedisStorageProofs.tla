------------------------- MODULE RedisStorageProofs -------------------------
(***************************************************************************)
(* Proofs about RedisStorage, for any goroutines, any finite set of keys,  *)
(* any values, with and without expiry, and for any bound on the retries   *)
(* and on the writes that are still on their way.                          *)
(***************************************************************************)
EXTENDS RedisStorage, FiniteSetTheorems, FunctionTheorems, TLAPS

-----------------------------------------------------------------------------
\* The contents, calls and results of StorageInterface.

\* What Put, Remove and Empty return are contents, and the pairs of contents
\* are pairs of a key and a value.
LEMMA ContentsType ==
    /\ Empty \in Contents
    /\ \A d \in Contents, k \in Keys, v \in Values : Put(d, k, v) \in Contents
    /\ \A d \in Contents : \A S : Remove(d, S) \in Contents
    /\ \A d \in Contents : Pairs(d) \in SUBSET (Keys \X Values)
    /\ \A d \in Contents : \A k \in Present(d) : k \in Keys /\ d[k] \in Values
BY DEF Empty, Contents, Put, Remove, Pairs, Present

\* The arguments of the calls.
LEMMA CallType ==
    \A c \in Calls :
        /\ c.op \in OpNames
        /\ c.op \in {"Load", "Store"} => c.key \in Keys
        /\ c.op = "Store" => c.val \in Values
        /\ c.op = "Delete" => /\ c.keys \in SUBSET Keys
                              /\ \A S \in SUBSET Keys : [c EXCEPT !.keys = S] \in Calls
BY DEF Calls, OpNames

\* The results of the operations are results.
LEMMA ResultType ==
    /\ NoResult \in Results
    /\ \A v \in Values \cup {Absent} : LoadResult(v) \in Results
    /\ \A S \in SUBSET Keys : KeysResult(S) \in Results
    /\ \A n \in Int : LenResult(n) \in Results
    /\ \A P \in SUBSET (Keys \X Values), b \in BOOLEAN : RangeResult(P, b) \in Results
    /\ \A P \in SUBSET (Keys \X Values) : NextResult(P) \in Results
BY DEF Results, NoResult, LoadResult, KeysResult, LenResult, RangeResult, NextResult

-----------------------------------------------------------------------------
\* The inductive invariant, for each goroutine g.

Scans == {"Range", "Keys", "Len", "Clear", "Next"}

\* The operations that wait for a command.
OpsAt(l) ==
    CASE l = "set" -> {"Store"}
      [] l = "get" -> {"Load"}
      [] l \in {"scan", "scanned"} -> Scans
      [] l = "del" -> {"Delete", "Clear", "Next"}
      [] l = "nextget" -> {"Next"}
      [] l = "rangeget" -> {"Range"}
      [] l = "nilpanic" -> {"Next", "Range"}
      [] l = "closing" -> {"Close"}
      [] l = "done" -> OpNames
      [] OTHER -> {"none"}

\* The locals of a call are in use only where the code has them in scope.
Place(g) ==
    /\ call[g].op \in OpsAt(pc[g])
    /\ pc[g] # "scan" => left[g] = {}
    /\ pc[g] \notin {"scan", "scanned", "del", "nextget", "rangeget"} => keys[g] = <<>>
    /\ pc[g] # "rangeget" => visited[g] = {}
    /\ pc[g] = "nextget" => keys[g] # <<>>

\* The history of a call has the value that a key has now.
Window(g) ==
    call[g].op # "none" => \A k \in Concerns(call[g]) : db[k] \in during[g][k]

\* A key that has been there throughout has been reported or is yet to be
\* passed by the cursor, and what has been reported was there.  A Range has
\* shown it or is yet to show it.
Scanning(g) ==
    /\ pc[g] \in {"scan", "scanned"} => Throughout(g) \subseteq Elements(keys[g]) \cup left[g]
    /\ pc[g] \in {"scan", "scanned", "nextget", "rangeget"} =>
           Elements(keys[g]) \subseteq Sometime(g)
    /\ pc[g] = "rangeget" =>
           /\ Throughout(g) \subseteq Elements(keys[g]) \cup {p[1] : p \in visited[g]}
           /\ \A p \in visited[g] : p[2] \in during[g][p[1]]

\* A key that is to be removed and has been there throughout is one that the
\* loop of Delete has yet to deal with, and Next has the pair it returns.
Removing(g) ==
    pc[g] = "del" =>
        /\ Doomed(g) \cap Throughout(g) \subseteq Elements(keys[g])
        /\ call[g].op = "Next" => res[g].taken # {} /\ Current(g)

\* What the properties say of a call that has ended.
Finished(g) ==
    pc[g] = "done" => Complete(g) /\ Current(g) /\ Doomed(g) \cap Throughout(g) = {}

\* The result has the shape that the operation gives it.
Shape(g) ==
    /\ pc[g] \in {"del", "done"} /\ call[g].op = "Next" =>
           res[g].taken \in SUBSET (Keys \X Values)
    /\ pc[g] = "done" /\ call[g].op = "Range" => res[g].pairs \in SUBSET (Keys \X Values)
    /\ pc[g] = "done" /\ call[g].op = "Len" => res[g].len \in Nat

GoInv(g) == Place(g) /\ Shape(g) /\ Window(g) /\ Scanning(g) /\ Removing(g) /\ Finished(g)
RedisInv == TypeOK /\ \A g \in G : GoInv(g)

-----------------------------------------------------------------------------
\* Sequences of keys.

\* A sequence in which the elements of a finite set come has these elements.
LEMMA OrdersElements ==
    ASSUME NEW S \in SUBSET Keys, NEW s \in Orders(S)
    PROVE  /\ s \in Seq(Keys) /\ Len(s) = Cardinality(S) /\ Elements(s) = S
           /\ Cardinality(S) \in Nat /\ Cardinality(S) <= Cardinality(Keys)
<1>1. IsFiniteSet(S) /\ Cardinality(S) \in Nat /\ Cardinality(S) <= Cardinality(Keys)
  BY KeysFinite, FS_Subset, FS_CardinalityType
<1>2. s \in Seq(Keys) /\ Len(s) = Cardinality(S)
  BY <1>1 DEF Orders
<1>3. IsFiniteSet(1..Cardinality(S)) /\ Cardinality(1..Cardinality(S)) = Cardinality(S)
  BY <1>1, FS_Interval
<1>4. s \in Injection(1..Cardinality(S), S)
  BY Fun_IsInj DEF Orders
<1>5. s \in Surjection(1..Cardinality(S), S)
  BY <1>1, <1>3, <1>4, FS_Injection
<1>6. \A x \in S : \E i \in 1..Cardinality(S) : s[i] = x
  BY <1>5 DEF Surjection
<1>. QED  BY <1>1, <1>2, <1>6 DEF Elements, Orders

\* The only order of no elements is the empty sequence.
LEMMA OrdersEmpty == \A s : s \in Orders({}) => s = <<>>
<1>1. Cardinality({}) = 0
  BY FS_EmptySet
<1>. QED  BY <1>1 DEF Orders

\* The elements of the sequences that the code takes apart and puts together.
LEMMA ElementsOf ==
    /\ Elements(<<>>) = {}
    /\ \A s, t \in Seq(Keys) : s \o t \in Seq(Keys) /\ Len(s \o t) = Len(s) + Len(t)
                                 /\ Elements(s \o t) = Elements(s) \cup Elements(t)
    /\ \A s \in Seq(Keys) : s # <<>> =>
          /\ Head(s) \in Keys /\ Tail(s) \in Seq(Keys) /\ Len(Tail(s)) = Len(s) - 1
          /\ Elements(s) = {Head(s)} \cup Elements(Tail(s))
          /\ <<Head(s)>> \in Seq(Keys) /\ Elements(<<Head(s)>>) = {Head(s)}
    /\ \A s \in Seq(Keys) : Len(s) \in Nat /\ Elements(s) \subseteq Keys
<1>1. Elements(<<>>) = {}
  BY DEF Elements
<1>2. ASSUME NEW s \in Seq(Keys), NEW t \in Seq(Keys)
      PROVE  /\ s \o t \in Seq(Keys) /\ Len(s \o t) = Len(s) + Len(t)
             /\ Elements(s \o t) = Elements(s) \cup Elements(t)
  <2>1. s \o t \in Seq(Keys) /\ Len(s \o t) = Len(s) + Len(t)
    OBVIOUS
  <2>2. ASSUME NEW i \in 1..Len(s \o t) PROVE (s \o t)[i] \in Elements(s) \cup Elements(t)
    <3>1. CASE i <= Len(s)
      BY <2>1, <3>1 DEF Elements
    <3>2. CASE i > Len(s)
      BY <2>1, <3>2, i - Len(s) \in 1..Len(t) DEF Elements
    <3>. QED  BY <3>1, <3>2
  <2>3. ASSUME NEW i \in 1..Len(s) PROVE s[i] \in Elements(s \o t)
    BY <2>1, (s \o t)[i] = s[i], i \in 1..Len(s \o t) DEF Elements
  <2>4. ASSUME NEW i \in 1..Len(t) PROVE t[i] \in Elements(s \o t)
    BY <2>1, (s \o t)[Len(s) + i] = t[i], Len(s) + i \in 1..Len(s \o t) DEF Elements
  <2>5. Elements(s \o t) \subseteq Elements(s) \cup Elements(t)
    BY <2>2 DEF Elements
  <2>6. Elements(s) \subseteq Elements(s \o t)
    BY <2>3 DEF Elements
  <2>7. Elements(t) \subseteq Elements(s \o t)
    BY <2>4 DEF Elements
  <2>. QED  BY <2>1, <2>5, <2>6, <2>7
<1>3. ASSUME NEW s \in Seq(Keys), s # <<>>
      PROVE  /\ Head(s) \in Keys /\ Tail(s) \in Seq(Keys) /\ Len(Tail(s)) = Len(s) - 1
             /\ Elements(s) = {Head(s)} \cup Elements(Tail(s))
             /\ <<Head(s)>> \in Seq(Keys) /\ Elements(<<Head(s)>>) = {Head(s)}
  <2>1. Head(s) \in Keys /\ Tail(s) \in Seq(Keys) /\ Len(Tail(s)) = Len(s) - 1 /\ Len(s) >= 1
    BY <1>3
  <2>2. ASSUME NEW i \in 1..Len(s) PROVE s[i] \in {Head(s)} \cup Elements(Tail(s))
    <3>1. CASE i = 1
      BY <1>3, <3>1
    <3>2. CASE i # 1
      BY <1>3, <2>1, <3>2, i - 1 \in 1..Len(Tail(s)), Tail(s)[i - 1] = s[i] DEF Elements
    <3>. QED  BY <3>1, <3>2
  <2>3. Head(s) \in Elements(s)
    BY <1>3, <2>1, 1 \in 1..Len(s), Head(s) = s[1] DEF Elements
  <2>4. ASSUME NEW i \in 1..Len(Tail(s)) PROVE Tail(s)[i] \in Elements(s)
    BY <1>3, <2>1, i + 1 \in 1..Len(s), Tail(s)[i] = s[i + 1] DEF Elements
  <2>5. Elements(s) \subseteq {Head(s)} \cup Elements(Tail(s))
    BY <2>2 DEF Elements
  <2>6. Elements(Tail(s)) \subseteq Elements(s)
    BY <2>4 DEF Elements
  <2>7. <<Head(s)>> \in Seq(Keys) /\ Elements(<<Head(s)>>) = {Head(s)}
    BY <2>1 DEF Elements
  <2>. QED  BY <2>1, <2>3, <2>5, <2>6, <2>7
<1>4. \A s \in Seq(Keys) : Len(s) \in Nat /\ Elements(s) \subseteq Keys
  BY DEF Elements
<1>. QED  BY <1>1, <1>2, <1>3, <1>4

\* A sequence has at most as many elements as it is long.
LEMMA ElementsCount ==
    ASSUME NEW s \in Seq(Keys)
    PROVE  IsFiniteSet(Elements(s)) /\ Cardinality(Elements(s)) <= Len(s)
<1>. DEFINE n == Len(s)
<1>. n \in Nat
  OBVIOUS
<1>. HIDE DEF n
<1>1. IsFiniteSet(1..n) /\ Cardinality(1..n) = n
  BY FS_Interval
<1>2. s \in [1..n -> Elements(s)]
  BY DEF Elements, n
<1>3. s \in Surjection(1..n, Elements(s))
  BY <1>2, Fun_IsSurj DEF Elements, n
<1>4. IsFiniteSet(Elements(s)) /\ Cardinality(Elements(s)) <= n
  BY <1>1, <1>3, FS_Surjection
<1>. QED  BY <1>4 DEF n

-----------------------------------------------------------------------------
\* Types.

\* A write makes contents of contents.
LEMMA WriteType ==
    /\ \A d \in Contents, w \in Writes : Put(d, w[1], w[2]) \in Contents
    /\ \A d \in Contents : during \in [G -> [Keys -> SUBSET Cell]] =>
                               Seen(d) \in [G -> [Keys -> SUBSET Cell]]
BY DEF Contents, Writes, Cell, Put, Seen

\* The call that a goroutine is in, by the command it waits for.
LEMMA CallAt ==
    ASSUME TypeOK, NEW g \in G, Place(g)
    PROVE  /\ call[g].op # "none" => call[g] \in Calls
           /\ pc[g] = "set" => /\ call[g].op = "Store" /\ call[g].key \in Keys
                               /\ call[g].val \in Values
           /\ pc[g] = "get" => call[g].op = "Load" /\ call[g].key \in Keys
           /\ pc[g] \in {"scan", "scanned"} => call[g].op \in Scans
           /\ pc[g] = "del" => call[g].op \in {"Delete", "Clear", "Next"}
           /\ pc[g] = "nextget" => call[g].op = "Next"
           /\ pc[g] = "rangeget" => call[g].op = "Range"
           /\ pc[g] = "nilpanic" => call[g].op \in {"Next", "Range"}
           /\ pc[g] = "closing" => call[g].op = "Close"
           /\ pc[g] = "done" => call[g].op \in OpNames
           /\ pc[g] \in {"idle", "errpanic"} <=> call[g].op = "none"
<1>1. call[g] \in Calls \/ call[g] = NoCall
  BY DEF TypeOK
<1>2. call[g].op # "none" => call[g] \in Calls
  BY <1>1 DEF NoCall
<1>3. pc[g] \in Commands \cup Ends \cup {"idle", "scanned", "closing"}
  BY DEF TypeOK
<1>. QED  BY <1>2, <1>3, CallType DEF Place, OpsAt, Scans, OpNames, Commands, Ends

\* The keys that a call is about.
LEMMA ConcernsOf ==
    \A c \in Calls :
        /\ Concerns(c) \subseteq Keys
        /\ c.op \in Scans => Concerns(c) = Keys /\ FirstPc(c) = "scan"
        /\ c.op = "Load" => Concerns(c) = {c.key} /\ FirstPc(c) = "get"
        /\ c.op = "Delete" => Concerns(c) = c.keys /\ FirstPc(c) = "del"
        /\ c.op = "Store" => Concerns(c) = {} /\ FirstPc(c) = "set"
        /\ c.op = "Close" => Concerns(c) = {} /\ FirstPc(c) = "closing"
BY CallType DEF Concerns, FirstPc, Scans, OpNames

\* A command that asks for a write asks for one of a key of the store.
LEMMA AskedType ==
    ASSUME TypeOK, NEW g \in G, Place(g), Waiting(g)
    PROVE  Asked(g) \subseteq Writes
<1>1. CASE pc[g] = "set"
  BY <1>1, CallAt DEF Asked, Writes, Cell
<1>2. CASE pc[g] = "del"
  <2>1. keys[g] \in Seq(Keys) /\ keys[g] # <<>>
    BY <1>2 DEF Waiting, TypeOK
  <2>2. Head(keys[g]) \in Keys
    BY <2>1, ElementsOf
  <2>. QED  BY <1>2, <2>2 DEF Asked, Writes, Cell
<1>3. CASE pc[g] \notin {"set", "del"}
  BY <1>3 DEF Asked
<1>. QED  BY <1>1, <1>2, <1>3

\* What is lost on the way leaves contents and writes.
LEMMA LostType ==
    ASSUME TypeOK, NEW g \in G, Place(g), Waiting(g), Lost(g)
    PROVE  db' \in Contents /\ late' \in SUBSET Writes
BY AskedType, WriteType DEF Lost, TypeOK

-----------------------------------------------------------------------------
\* Type correctness is kept by the server on its own ...
LEMMA TypeServer ==
    ASSUME TypeOK, (\E k \in Keys : Expire(k)) \/ (\E w \in Writes : LateWrite(w))
    PROVE  TypeOK'
<1>1. ASSUME NEW k \in Keys, Expire(k) PROVE TypeOK'
  <2>1. db' \in Contents /\ during' = Seen(db')
    BY <1>1, ContentsType DEF Expire, Change, TypeOK
  <2>. QED  BY <1>1, <2>1, WriteType DEF Expire, TypeOK
<1>2. ASSUME NEW w \in Writes, LateWrite(w) PROVE TypeOK'
  <2>1. db' \in Contents /\ during' = Seen(db')
    BY <1>2, WriteType DEF LateWrite, Change, TypeOK
  <2>. QED  BY <1>2, <2>1, WriteType DEF LateWrite, TypeOK
<1>. QED  BY <1>1, <1>2

\* ... by a call ...
LEMMA TypeInvoke ==
    ASSUME TypeOK, NEW g \in G, NEW c \in Calls, Invoke(g, c)
    PROVE  TypeOK'
<1>1. pc' \in [G -> Commands \cup Ends \cup {"idle", "scanned", "closing"}]
  BY DEF Invoke, Goto, FirstPc, TypeOK, Commands
<1>2. keys' \in [G -> Seq(Keys)]
  <2>. DEFINE D == IF c.op = "Delete" THEN c.keys ELSE {}
  <2>1. D \in SUBSET Keys
    BY CallType
  <2>2. PICK s \in Orders(D) : keys' = [keys EXCEPT ![g] = s]
    BY DEF Invoke
  <2>3. s \in Seq(Keys)
    BY <2>1, OrdersElements
  <2>. QED  BY <2>2, <2>3 DEF TypeOK
<1>3. during' \in [G -> [Keys -> SUBSET Cell]]
  <2>1. \A k \in Keys : db[k] \in Cell
    BY DEF TypeOK, Contents, Cell
  <2>2. [k \in Keys |-> IF k \in Concerns(c) THEN {db[k]} ELSE {}] \in [Keys -> SUBSET Cell]
    BY <2>1
  <2>. QED  BY <2>2 DEF Invoke, TypeOK
<1>4. call' \in [G -> Calls \cup {NoCall}] /\ left' \in [G -> SUBSET Keys]
  BY DEF Invoke, TypeOK
<1>. QED  BY <1>1, <1>2, <1>3, <1>4 DEF Invoke, TypeOK

\* The locals that have gone out of scope are typed.
LEMMA ForgetType ==
    ASSUME TypeOK, NEW g \in G, Forget(g)
    PROVE  /\ keys' \in [G -> Seq(Keys)] /\ left' \in [G -> SUBSET Keys]
           /\ visited' \in [G -> SUBSET (Keys \X Values)]
BY DEF Forget, TypeOK

\* So are those of a client whose command has been answered.
LEMMA AnsweredType ==
    ASSUME TypeOK, NEW g \in G,
           NEW l \in Commands \cup Ends \cup {"idle", "scanned", "closing"}, Answered(g, l)
    PROVE  /\ late' \in SUBSET Writes /\ open' \in BOOLEAN
           /\ pc' \in [G -> Commands \cup Ends \cup {"idle", "scanned", "closing"}]
           /\ tries' \in [G -> 0..MaxRetries] /\ call' \in [G -> Calls \cup {NoCall}]
BY BoundsAreNat DEF Answered, Goto, TypeOK

\* ... and by every step of a goroutine.
LEMMA TypeStep ==
    ASSUME TypeOK, NEW g \in G, Place(g), Step(g)
    PROVE  TypeOK'
<1>. USE DEF Goto, Give
<1>1. CASE Set(g)
  <2>1. db' \in Contents /\ during' = Seen(db')
    BY <1>1, CallAt, ContentsType DEF Set, Change, TypeOK
  <2>. QED  BY <1>1, <2>1, WriteType, BoundsAreNat DEF Set, Answered, TypeOK, Ends
<1>2. CASE Get(g)
  <2>1. LoadResult(db[call[g].key]) \in Results
    BY <1>2, CallAt, ResultType DEF Get, TypeOK, Contents
  <2>. QED  BY <1>2, <2>1, BoundsAreNat DEF Get, Read, Answered, TypeOK, Ends
<1>3. CASE Scan(g)
  <2>1. PICK passed \in (SUBSET left[g]) \ {{}}, again \in SUBSET (Keys \ left[g]) :
            Page(g, (passed \cup again) \cap Present(db), left[g] \ passed)
    BY <1>3 DEF Scan
  <2>. DEFINE page == (passed \cup again) \cap Present(db)
  <2>2. PICK s \in Orders(page) : keys' = [keys EXCEPT ![g] = @ \o s]
    BY <2>1 DEF Page
  <2>3. s \in Seq(Keys) /\ keys[g] \in Seq(Keys)
    BY OrdersElements, page \in SUBSET Keys DEF Present, TypeOK
  <2>4. keys[g] \o s \in Seq(Keys)
    BY <2>3, ElementsOf
  <2>5. keys' \in [G -> Seq(Keys)]
    BY <2>2, <2>4 DEF TypeOK
  <2>6. left' \in [G -> SUBSET Keys]
    BY <2>1 DEF Page, TypeOK
  <2>. QED  BY <2>1, <2>5, <2>6, BoundsAreNat DEF Page, Read, Answered, TypeOK, Commands
<1>4. CASE KeysOf(g)
  <2>1. KeysResult(Elements(keys[g])) \in Results
    BY ElementsOf, ResultType DEF TypeOK
  <2>. QED  BY <1>4, <2>1 DEF KeysOf, Internal, Forget, server, TypeOK, Ends
<1>5. CASE LenOf(g)
  <2>1. LenResult(Len(keys[g])) \in Results
    BY ElementsOf, ResultType DEF TypeOK
  <2>. QED  BY <1>5, <2>1 DEF LenOf, Internal, Forget, server, TypeOK, Ends
<1>6. CASE LoopOver(g)
  <2>1. keys[g] \in Seq(Keys) /\ (keys[g] # <<>> => <<Head(keys[g])>> \in Seq(Keys))
    BY ElementsOf DEF TypeOK
  <2>2. NextResult({}) \in Results
    BY ResultType
  <2>3. /\ pc' \in [G -> Commands \cup Ends \cup {"idle", "scanned", "closing"}]
        /\ UNCHANGED <<server, call, tries, visited, left>>
    BY <1>6 DEF LoopOver, Internal, TypeOK, Ends, Commands
  <2>4. keys' \in [G -> Seq(Keys)]
    BY <1>6, <2>1 DEF LoopOver, TypeOK
  <2>5. res' \in [G -> Results]
    BY <1>6, <2>2 DEF LoopOver, TypeOK
  <2>. QED  BY <2>3, <2>4, <2>5 DEF server, TypeOK
<1>7. CASE Del(g)
  <2>1. db' \in Contents /\ during' = Seen(db')
    BY <1>7, ContentsType DEF Del, Change, TypeOK
  <2>2. Tail(keys[g]) \in Seq(Keys)
    BY <1>7, ElementsOf DEF Del, TypeOK
  <2>. QED  BY <1>7, <2>1, <2>2, WriteType, BoundsAreNat DEF Del, Answered, TypeOK, Commands
<1>8. CASE DelEnd(g) \/ Close(g)
  BY <1>8 DEF DelEnd, Close, Internal, server, TypeOK, Ends
<1>9. CASE NextGet(g)
  <2>1. Head(keys[g]) \in Keys
    BY <1>9, ElementsOf DEF NextGet, Place, TypeOK
  <2>2. NextResult({<<Head(keys[g]), db[Head(keys[g])]>>}) \in Results
    BY <1>9, <2>1, ResultType DEF NextGet, TypeOK, Contents
  <2>. QED  BY <1>9, <2>2, BoundsAreNat DEF NextGet, Read, Answered, TypeOK, Commands
<1>10. CASE RangeGet(g)
  <2>. DEFINE shown == visited[g] \cup {<<Head(keys[g]), db[Head(keys[g])]>>}
  <2>1. Head(keys[g]) \in Keys /\ Tail(keys[g]) \in Seq(Keys)
    BY <1>10, ElementsOf DEF RangeGet, TypeOK
  <2>2. shown \in SUBSET (Keys \X Values)
    BY <1>10, <2>1 DEF RangeGet, TypeOK, Contents
  <2>3. RangeResult(shown, TRUE) \in Results
    BY <2>2, ResultType
  <2>. HIDE DEF shown
  <2>4. \/ /\ Read(g, "rangeget")
           /\ visited' = [visited EXCEPT ![g] = shown]
           /\ keys' = [keys EXCEPT ![g] = Tail(@)]
           /\ UNCHANGED <<res, left>>
        \/ Read(g, "done") /\ Give(g, RangeResult(shown, TRUE)) /\ Forget(g)
    BY <1>10 DEF RangeGet, shown
  <2>5. CASE /\ Read(g, "rangeget")
             /\ visited' = [visited EXCEPT ![g] = shown]
             /\ keys' = [keys EXCEPT ![g] = Tail(@)]
             /\ UNCHANGED <<res, left>>
    <3>1. Answered(g, "rangeget") /\ UNCHANGED <<db, during>>
      BY <2>5 DEF Read
    <3>2. keys' \in [G -> Seq(Keys)] /\ visited' \in [G -> SUBSET (Keys \X Values)]
      BY <2>1, <2>2, <2>5 DEF TypeOK
    <3>. QED  BY <2>5, <3>1, <3>2, AnsweredType DEF TypeOK, Commands
  <2>6. CASE Read(g, "done") /\ Give(g, RangeResult(shown, TRUE)) /\ Forget(g)
    <3>1. Answered(g, "done") /\ UNCHANGED <<db, during>>
      BY <2>6 DEF Read
    <3>2. res' \in [G -> Results]
      BY <2>3, <2>6 DEF TypeOK
    <3>. QED  BY <2>6, <3>1, <3>2, AnsweredType, ForgetType DEF TypeOK, Ends
  <2>. QED  BY <2>4, <2>5, <2>6
<1>11. CASE RangeEnd(g)
  <2>1. RangeResult(visited[g], FALSE) \in Results
    BY ResultType DEF TypeOK
  <2>. QED  BY <1>11, <2>1 DEF RangeEnd, Internal, Forget, server, TypeOK, Ends
<1>12. CASE Gone(g)
  <2>1. Answered(g, "nilpanic") /\ UNCHANGED <<db, during>> /\ Forget(g)
    BY <1>12 DEF Gone, Read
  <2>2. res' \in [G -> Results]
    BY <1>12, ResultType DEF Gone, TypeOK
  <2>. QED  BY <2>1, <2>2, AnsweredType, ForgetType DEF TypeOK, Ends
<1>13. CASE Retry(g)
  <2>1. db' \in Contents /\ late' \in SUBSET Writes
    BY <1>13, LostType DEF Retry
  <2>2. during' \in [G -> [Keys -> SUBSET Cell]]
    BY <1>13, <2>1, WriteType DEF Retry, TypeOK
  <2>3. tries[g] \in 0..MaxRetries /\ tries[g] < MaxRetries
    BY <1>13 DEF Retry, TypeOK
  <2>4. tries[g] + 1 \in 0..MaxRetries
    BY <2>3, BoundsAreNat
  <2>5. tries' \in [G -> 0..MaxRetries]
    BY <1>13, <2>4 DEF Retry, TypeOK
  <2>. QED  BY <1>13, <2>1, <2>2, <2>5 DEF Retry, TypeOK
<1>14. CASE GiveUp(g)
  <2>1. db' \in Contents /\ late' \in SUBSET Writes
    BY <1>14, LostType DEF GiveUp, TypeOK
  <2>2. Seen(db') \in [G -> [Keys -> SUBSET Cell]] /\ Unseen \in [Keys -> SUBSET Cell]
    BY <2>1, WriteType DEF TypeOK, Unseen
  <2>3. during' \in [G -> [Keys -> SUBSET Cell]]
    BY <1>14, <2>2 DEF GiveUp
  <2>4. res' \in [G -> Results] /\ tries' \in [G -> 0..MaxRetries]
    BY <1>14, ResultType, BoundsAreNat DEF GiveUp, TypeOK
  <2>5. /\ pc' \in [G -> Commands \cup Ends \cup {"idle", "scanned", "closing"}]
        /\ call' \in [G -> Calls \cup {NoCall}] /\ open' \in BOOLEAN
    BY <1>14 DEF GiveUp, TypeOK, Ends
  <2>. QED  BY <1>14, <2>1, <2>3, <2>4, <2>5, ForgetType DEF GiveUp, TypeOK
<1>15. CASE Return(g)
  <2>1. Unseen \in [Keys -> SUBSET Cell]
    BY DEF Unseen
  <2>. QED  BY <1>15, <2>1, ResultType DEF Return, TypeOK
<1>. QED  BY <1>1, <1>2, <1>3, <1>4, <1>5, <1>6, <1>7, <1>8, <1>9, <1>10, <1>11, <1>12,
             <1>13, <1>14, <1>15 DEF Step

-----------------------------------------------------------------------------
\* What the others do to a call.

\* The locals of g, and the history of its call when something happens.
Locals(g) == <<pc[g], call[g], res[g], visited[g], left[g], keys[g]>>
Watched(g) == (db' = db /\ during'[g] = during[g]) \/ during'[g] = Seen(db')[g]

\* The keys that were there throughout get fewer, those that were there at
\* some time more.
LEMMA Grows ==
    ASSUME TypeOK, TypeOK', NEW g \in G, Place(g), Window(g), Watched(g),
           call'[g] = call[g], call[g].op # "none"
    PROVE  /\ Window(g)'
           /\ \A k \in Keys : during[g][k] \subseteq during'[g][k]
           /\ Throughout(g)' \subseteq Throughout(g)
           /\ Sometime(g) \subseteq Sometime(g)'
<1>1. call[g] \in Calls /\ Concerns(call[g]) \subseteq Keys
  BY CallAt, ConcernsOf
<1>2. Concerns(call[g])' = Concerns(call[g])
  OBVIOUS
<1>3. \A k \in Keys : during[g][k] \subseteq during'[g][k]
  BY DEF Watched, Seen
<1>4. \A k \in Concerns(call[g]) : db'[k] \in during'[g][k]
  BY <1>1 DEF Watched, Seen, Window
<1>. QED  BY <1>1, <1>2, <1>3, <1>4 DEF Window, Throughout, Sometime

\* Throughout is a finite set.
LEMMA ThroughoutFinite ==
    ASSUME NEW g \in G, call[g] \in Calls
    PROVE  IsFiniteSet(Throughout(g))
<1>1. Throughout(g) \subseteq Keys
  BY ConcernsOf DEF Throughout
<1>. QED  BY <1>1, KeysFinite, FS_Subset

\* A step in which g has no part keeps what the invariant says of g.
LEMMA QuietStep ==
    ASSUME TypeOK, TypeOK', NEW g \in G, GoInv(g), Locals(g)' = Locals(g), Watched(g)
    PROVE  GoInv(g)'
<1>. USE DEF GoInv
<1>1. /\ pc'[g] = pc[g] /\ call'[g] = call[g] /\ res'[g] = res[g]
      /\ visited'[g] = visited[g] /\ left'[g] = left[g] /\ keys'[g] = keys[g]
  BY DEF Locals
<1>2. Place(g)' /\ Shape(g)'
  BY <1>1 DEF Place, OpsAt, Shape
<1>3. CASE call[g].op = "none"
  <2>1. pc[g] \in {"idle", "errpanic"}
    BY <1>3, CallAt
  <2>. QED  BY <1>1, <1>2, <1>3, <2>1 DEF Window, Scanning, Removing, Finished
<1>4. CASE call[g].op # "none"
  <2>1. /\ Window(g)'
        /\ \A k \in Keys : during[g][k] \subseteq during'[g][k]
        /\ Throughout(g)' \subseteq Throughout(g)
        /\ Sometime(g) \subseteq Sometime(g)'
    BY <1>1, <1>4, Grows
  <2>2. Scanning(g)'
    <3>1. visited[g] \in SUBSET (Keys \X Values)
      BY DEF TypeOK
    <3>2. Elements(keys[g])' = Elements(keys[g])
      BY <1>1 DEF Elements
    <3>3. pc[g] = "rangeget" => \A p \in visited[g] : p[2] \in during'[g][p[1]]
      BY <2>1, <3>1 DEF Scanning
    <3>. QED  BY <1>1, <2>1, <3>2, <3>3 DEF Scanning
  <2>3. Doomed(g)' = Doomed(g)
    BY <1>1 DEF Doomed
  <2>4. ASSUME Current(g), pc[g] = "done" \/ (pc[g] = "del" /\ call[g].op = "Next")
        PROVE  Current(g)'
    <3>1. call[g].op = "Load" => call[g].key \in Keys
      BY <1>4, CallAt, CallType
    <3>2. call[g].op = "Load" => res'[g].val \in during'[g][call'[g].key]
      BY <1>1, <2>1, <2>4, <3>1 DEF Current
    <3>3. call[g].op = "Range" => \A p \in res[g].pairs : p[2] \in during'[g][p[1]]
      BY <2>1, <2>4 DEF Current, Shape
    <3>4. call[g].op = "Next" => \A p \in res[g].taken : p[2] \in during'[g][p[1]]
      BY <2>1, <2>4 DEF Current, Shape
    <3>. QED  BY <1>1, <3>2, <3>3, <3>4 DEF Current
  <2>5. Removing(g)'
    <3>1. Elements(keys[g])' = Elements(keys[g])
      BY <1>1 DEF Elements
    <3>. QED  BY <1>1, <2>1, <2>3, <2>4, <3>1 DEF Removing
  <2>6. ASSUME pc[g] = "done" PROVE Complete(g)'
    <3>1. Complete(g)
      BY <2>6 DEF Finished
    <3>2. call[g].op = "Len" => /\ Cardinality(Throughout(g)') <= res[g].len
                                /\ (res[g].len > 0 => Sometime(g)' # {})
      <4>. SUFFICES ASSUME call[g].op = "Len" PROVE Cardinality(Throughout(g)') <= res[g].len
        BY <2>1, <3>1 DEF Complete
      <4>1. IsFiniteSet(Throughout(g))
        BY <1>4, CallAt, ThroughoutFinite
      <4>2. /\ Cardinality(Throughout(g)') <= Cardinality(Throughout(g))
            /\ Cardinality(Throughout(g)') \in Nat /\ Cardinality(Throughout(g)) \in Nat
        BY <2>1, <4>1, FS_Subset, FS_CardinalityType
      <4>3. Cardinality(Throughout(g)) <= res[g].len /\ res[g].len \in Nat
        BY <2>6, <3>1 DEF Complete, Shape
      <4>. QED  BY <4>2, <4>3
    <3>. QED  BY <1>1, <2>1, <3>1, <3>2 DEF Complete
  <2>7. Finished(g)'
    <3>1. ASSUME pc[g] = "done"
          PROVE  Complete(g)' /\ Current(g)' /\ Doomed(g)' \cap Throughout(g)' = {}
      <4>1. Complete(g)'
        BY <2>6, <3>1
      <4>2. Current(g)
        BY <3>1 DEF Finished
      <4>3. Current(g)'
        BY <2>4, <3>1, <4>2
      <4>4. Doomed(g)' \cap Throughout(g)' = {}
        BY <2>1, <2>3, <3>1 DEF Finished
      <4>. QED  BY <4>1, <4>3, <4>4
    <3>. QED  BY <1>1, <3>1 DEF Finished
  <2>. QED  BY <1>2, <2>1, <2>2, <2>5, <2>7
<1>. QED  BY <1>3, <1>4

\* A step of another goroutine is such a step, and so is one of the server.
LEMMA OthersStep ==
    ASSUME TypeOK, NEW h \in G, NEW g \in G, g # h,
           (\E c \in Calls : Invoke(h, c)) \/ Step(h)
    PROVE  Locals(g)' = Locals(g) /\ Watched(g)
<1>. USE DEF Goto, Give, Locals, Watched, TypeOK
<1>1. CASE \E c \in Calls : Invoke(h, c)
  BY <1>1 DEF Invoke
<1>2. CASE Set(h) \/ Del(h)
  BY <1>2 DEF Set, Del, Change, Answered
<1>3. CASE Get(h) \/ NextGet(h)
  BY <1>3 DEF Get, NextGet, Read, Answered
<1>4. CASE Scan(h)
  BY <1>4 DEF Scan, Page, Read, Answered
<1>5. CASE KeysOf(h) \/ LenOf(h) \/ RangeEnd(h)
  BY <1>5 DEF KeysOf, LenOf, RangeEnd, Internal, Forget, server
<1>6. CASE LoopOver(h)
  BY <1>6 DEF LoopOver, Internal, server
<1>7. CASE RangeGet(h) \/ Gone(h)
  BY <1>7 DEF RangeGet, Gone, Read, Answered, Forget
<1>8. CASE Retry(h)
  BY <1>8 DEF Retry
<1>9. CASE GiveUp(h)
  <2>1. during'[g] = Seen(db')[g]
    BY <1>9 DEF GiveUp, Seen
  <2>. QED  BY <1>9, <2>1 DEF GiveUp, Forget
<1>10. CASE Close(h) \/ Return(h)
  BY <1>10 DEF Close, Return
<1>11. CASE DelEnd(h)
  BY <1>11 DEF DelEnd, Internal, server
<1>. QED  BY <1>1, <1>2, <1>3, <1>4, <1>5, <1>6, <1>7, <1>8, <1>9, <1>10, <1>11 DEF Step

\* The server on its own changes no locals.
LEMMA ServerStep ==
    ASSUME NEW g \in G, (\E k \in Keys : Expire(k)) \/ (\E w \in Writes : LateWrite(w))
    PROVE  Locals(g)' = Locals(g) /\ Watched(g)
BY DEF Expire, LateWrite, Change, Locals, Watched

-----------------------------------------------------------------------------
\* What the steps of a goroutine do to its own call.

\* At the end of a call that neither scans nor removes, the result is all
\* that matters.
LEMMA OwnEnd ==
    ASSUME TypeOK, TypeOK', NEW g \in G, Place(g)', Window(g)', Shape(g)',
           pc'[g] = "done", Complete(g)', Current(g)', Doomed(g)' \cap Throughout(g)' = {}
    PROVE  GoInv(g)'
BY DEF GoInv, Scanning, Removing, Finished

\* A call begins: nothing has been seen but what is there now.
LEMMA OwnInvoke ==
    ASSUME TypeOK, TypeOK', NEW g \in G, GoInv(g), NEW c \in Calls, Invoke(g, c)
    PROVE  GoInv(g)'
<1>. DEFINE D == IF c.op = "Delete" THEN c.keys ELSE {}
<1>1. PICK s \in Orders(D) : keys' = [keys EXCEPT ![g] = s]
  BY DEF Invoke
<1>2. D \in SUBSET Keys
  BY CallType
<1>3. s \in Seq(Keys) /\ Elements(s) = D /\ (c.op # "Delete" => s = <<>>)
  BY <1>1, <1>2, OrdersElements, OrdersEmpty
<1>4. /\ pc'[g] = FirstPc(c) /\ call'[g] = c /\ keys'[g] = s /\ res'[g] = res[g]
      /\ left'[g] = (IF FirstPc(c) = "scan" THEN Keys ELSE {})
      /\ visited'[g] = {} /\ db' = db
      /\ during'[g] = [k \in Keys |-> IF k \in Concerns(c) THEN {db[k]} ELSE {}]
  BY <1>1 DEF Invoke, Goto, TypeOK, GoInv, Place
<1>5. c.op \in OpNames
  BY CallType
<1>6. CASE c.op \in Scans
  <2>1. FirstPc(c) = "scan" /\ c.op # "Delete" /\ c.op # "none"
    BY <1>6, ConcernsOf DEF Scans
  <2>2. Throughout(g)' \subseteq Keys /\ Elements(keys'[g]) = {} /\ left'[g] = Keys
    BY <1>3, <1>4, <1>6, <2>1, ConcernsOf, ElementsOf DEF Throughout
  <2>. QED  BY <1>3, <1>4, <1>6, <2>1, <2>2, ConcernsOf
            DEF GoInv, Place, OpsAt, Shape, Window, Scanning, Removing, Finished
<1>7. CASE c.op = "Delete"
  <2>1. FirstPc(c) = "del" /\ Concerns(c) = c.keys /\ c.keys \subseteq Keys
    BY <1>7, ConcernsOf, CallType
  <2>2. Doomed(g)' = c.keys /\ Elements(keys'[g]) = c.keys
    BY <1>3, <1>4, <1>7 DEF Doomed
  <2>. QED  BY <1>3, <1>4, <1>7, <2>1, <2>2
            DEF GoInv, Place, OpsAt, Shape, Window, Scanning, Removing, Finished
<1>8. CASE c.op \in {"Load", "Store", "Close"}
  <2>1. /\ FirstPc(c) \in {"get", "set", "closing"} /\ c.op # "Delete" /\ c.op # "none"
        /\ c.op = "Load" => FirstPc(c) = "get" /\ Concerns(c) = {c.key} /\ c.key \in Keys
        /\ c.op = "Store" => FirstPc(c) = "set" /\ Concerns(c) = {}
        /\ c.op = "Close" => FirstPc(c) = "closing" /\ Concerns(c) = {}
    BY <1>8, ConcernsOf, CallType
  <2>. QED  BY <1>3, <1>4, <1>8, <2>1
            DEF GoInv, Place, OpsAt, Shape, Window, Scanning, Removing, Finished
<1>. QED  BY <1>5, <1>6, <1>7, <1>8 DEF OpNames, Scans

\* Store and Load end with their command, and Close.
LEMMA OwnSimple ==
    ASSUME TypeOK, TypeOK', NEW g \in G, GoInv(g), Set(g) \/ Get(g) \/ Close(g)
    PROVE  GoInv(g)'
<1>1. /\ pc'[g] = "done" /\ call'[g] = call[g] /\ Watched(g)
      /\ visited'[g] = visited[g] /\ left'[g] = left[g] /\ keys'[g] = keys[g]
  BY DEF Set, Get, Close, Read, Answered, Change, Goto, Watched, TypeOK
<1>2. call[g].op \in {"Store", "Load", "Close"} /\ Place(g) /\ Window(g)
  BY CallAt DEF GoInv, Set, Get, Close
<1>3. Window(g)'
  BY <1>1, <1>2, Grows
<1>4. pc[g] \in {"set", "get", "closing"}
  BY DEF Set, Get, Close
<1>5. Place(g)'
  BY <1>1, <1>2, <1>4 DEF Place, OpsAt, OpNames
<1>6. Shape(g)' /\ Complete(g)'
  BY <1>1, <1>2 DEF Shape, Complete
<1>7. Doomed(g)' \cap Throughout(g)' = {}
  BY <1>1, <1>2 DEF Doomed
<1>8. Current(g)'
  <2>. SUFFICES ASSUME call[g].op = "Load" PROVE res'[g].val \in during'[g][call[g].key]
    BY <1>1, <1>2 DEF Current
  <2>1. Get(g)
    BY <1>2, CallAt DEF Set, Close
  <2>2. res'[g].val = db[call[g].key] /\ during' = during
    BY <2>1 DEF Get, Read, Give, LoadResult, TypeOK
  <2>3. call[g] \in Calls /\ Concerns(call[g]) = {call[g].key}
    BY <1>2, CallAt, ConcernsOf
  <2>. QED  BY <1>2, <2>2, <2>3 DEF Window
<1>. QED  BY <1>1, <1>3, <1>5, <1>6, <1>7, <1>8, OwnEnd

\* A page of the scan reports the keys that the cursor passes and that are
\* there, so that none of those that are there throughout is missed.
LEMMA OwnScan ==
    ASSUME TypeOK, TypeOK', NEW g \in G, GoInv(g), Scan(g)
    PROVE  GoInv(g)'
<1>1. PICK passed \in (SUBSET left[g]) \ {{}}, again \in SUBSET (Keys \ left[g]) :
          Page(g, (passed \cup again) \cap Present(db), left[g] \ passed)
  BY DEF Scan
<1>. DEFINE page == (passed \cup again) \cap Present(db)
<1>2. PICK s \in Orders(page) : keys' = [keys EXCEPT ![g] = @ \o s]
  BY <1>1 DEF Page
<1>3. s \in Seq(Keys) /\ Elements(s) = page /\ keys[g] \in Seq(Keys) /\ page \subseteq Keys
  BY OrdersElements, page \in SUBSET Keys DEF Present, TypeOK
<1>4. /\ pc'[g] \in {"scan", "scanned"} /\ (pc'[g] = "scanned" => left'[g] = {})
      /\ call'[g] = call[g] /\ visited'[g] = visited[g] /\ res'[g] = res[g]
      /\ left'[g] = left[g] \ passed /\ keys'[g] = keys[g] \o s
      /\ db' = db /\ during' = during
  <2>1. /\ \E l \in {"scan", "scanned"} :
              pc' = [pc EXCEPT ![g] = l] /\ (l = "scanned" => left[g] \ passed = {})
        /\ left' = [left EXCEPT ![g] = left[g] \ passed]
        /\ UNCHANGED <<call, visited, res, db, during>>
    BY <1>1 DEF Page, Read, Answered, Goto
  <2>. QED  BY <1>2, <2>1 DEF TypeOK
<1>5. /\ pc[g] = "scan" /\ call[g].op \in Scans /\ call[g] \in Calls /\ call[g].op # "none"
      /\ Concerns(call[g]) = Keys
  BY CallAt, ConcernsOf DEF Scan, GoInv, Scans
<1>6. Throughout(g)' = Throughout(g) /\ Sometime(g)' = Sometime(g) /\ Window(g)'
  BY <1>4 DEF Throughout, Sometime, GoInv, Window
<1>7. Elements(keys'[g]) = Elements(keys[g]) \cup page
  BY <1>3, <1>4, ElementsOf
<1>8. \A k \in Keys : db[k] \in during[g][k] /\ db[k] \in Cell
  BY <1>5 DEF GoInv, Window, TypeOK, Contents, Cell
<1>9. Throughout(g) \cap passed \subseteq page
  BY <1>8 DEF Throughout, Present, TypeOK
<1>10. page \subseteq Sometime(g)
  BY <1>3, <1>8 DEF Sometime, Present, Cell
<1>11. Scanning(g)'
  <2>1. Throughout(g) \subseteq Elements(keys[g]) \cup left[g]
    BY <1>5 DEF GoInv, Scanning
  <2>2. Elements(keys[g]) \subseteq Sometime(g)
    BY <1>5 DEF GoInv, Scanning
  <2>. HIDE DEF page
  <2>. QED  BY <1>4, <1>6, <1>7, <1>9, <1>10, <2>1, <2>2 DEF Scanning
<1>12. Place(g)'
  BY <1>4, <1>5 DEF GoInv, Place, OpsAt
<1>. QED  BY <1>4, <1>6, <1>11, <1>12 DEF GoInv, Shape, Removing, Finished

\* What Keys and Len make of the keys.
LEMMA OwnScanned ==
    ASSUME TypeOK, TypeOK', NEW g \in G, GoInv(g), KeysOf(g) \/ LenOf(g)
    PROVE  GoInv(g)'
<1>1. /\ pc'[g] = "done" /\ call'[g] = call[g] /\ db' = db /\ during' = during
      /\ visited'[g] = {} /\ left'[g] = {} /\ keys'[g] = <<>>
  BY DEF KeysOf, LenOf, Internal, Forget, Goto, server, TypeOK
<1>2. call[g].op \in {"Keys", "Len"} /\ pc[g] = "scanned"
  BY DEF KeysOf, LenOf, Scanned
<1>3. Throughout(g)' = Throughout(g) /\ Sometime(g)' = Sometime(g) /\ Window(g)'
  BY <1>1 DEF Throughout, Sometime, GoInv, Window
<1>4. Throughout(g) \subseteq Elements(keys[g]) /\ Elements(keys[g]) \subseteq Sometime(g)
  BY <1>2 DEF GoInv, Place, Scanning
<1>5. Place(g)'
  BY <1>1, <1>2 DEF Place, OpsAt, OpNames
<1>6. Current(g)' /\ Doomed(g)' = {}
  BY <1>1, <1>2 DEF Current, Doomed
<1>7. CASE KeysOf(g)
  <2>1. call[g].op = "Keys" /\ res'[g].keys = Elements(keys[g])
    BY <1>7 DEF KeysOf, Scanned, Give, KeysResult, TypeOK
  <2>2. Shape(g)' /\ Complete(g)'
    BY <1>1, <1>3, <1>4, <2>1 DEF Shape, Complete
  <2>. QED  BY <1>1, <1>3, <1>5, <1>6, <2>2, OwnEnd
<1>8. CASE LenOf(g)
  <2>1. call[g].op = "Len" /\ res'[g].len = Len(keys[g]) /\ keys[g] \in Seq(Keys)
    BY <1>8 DEF LenOf, Scanned, Give, LenResult, TypeOK
  <2>2. Len(keys[g]) \in Nat /\ (Len(keys[g]) > 0 => Elements(keys[g]) # {})
    <3>1. Len(keys[g]) > 0 => keys[g] # <<>>
      BY <2>1
    <3>. QED  BY <2>1, <3>1, ElementsOf
  <2>3. /\ IsFiniteSet(Elements(keys[g]))
        /\ Cardinality(Elements(keys[g])) <= Len(keys[g])
    BY <2>1, ElementsCount
  <2>4. /\ Cardinality(Throughout(g)) <= Cardinality(Elements(keys[g]))
        /\ Cardinality(Throughout(g)) \in Nat /\ Cardinality(Elements(keys[g])) \in Nat
    BY <1>4, <2>3, FS_Subset, FS_CardinalityType
  <2>5. Cardinality(Throughout(g)) <= Len(keys[g])
    BY <2>2, <2>3, <2>4
  <2>6. Shape(g)' /\ Complete(g)'
    BY <1>1, <1>3, <1>4, <2>1, <2>2, <2>5 DEF Shape, Complete
  <2>. QED  BY <1>1, <1>3, <1>5, <1>6, <2>6, OwnEnd
<1>. QED  BY <1>7, <1>8

\* Clear, Range and Next begin their loops with all that the scan found.
LEMMA OwnLoopOver ==
    ASSUME TypeOK, TypeOK', NEW g \in G, GoInv(g), LoopOver(g)
    PROVE  GoInv(g)'
<1>1. /\ call'[g] = call[g] /\ db' = db /\ during' = during /\ pc[g] = "scanned"
      /\ visited'[g] = visited[g] /\ left'[g] = left[g]
  BY DEF LoopOver, Scanned, Internal, Goto, server, TypeOK
<1>2. left[g] = {} /\ visited[g] = {} /\ keys[g] \in Seq(Keys)
  BY <1>1 DEF GoInv, Place, TypeOK
<1>3. Throughout(g)' = Throughout(g) /\ Sometime(g)' = Sometime(g) /\ Window(g)'
  BY <1>1 DEF Throughout, Sometime, GoInv, Window
<1>4. Throughout(g) \subseteq Elements(keys[g]) /\ Elements(keys[g]) \subseteq Sometime(g)
  BY <1>1, <1>2 DEF GoInv, Scanning
<1>5. CASE Scanned(g, "Clear") /\ Internal(g, "del") /\ UNCHANGED <<res, visited, left, keys>>
  <2>1. call[g].op = "Clear" /\ pc'[g] = "del" /\ keys'[g] = keys[g]
    BY <1>5 DEF Scanned, Internal, Goto, TypeOK
  <2>. QED  BY <1>1, <1>2, <1>3, <1>4, <2>1
            DEF GoInv, Place, OpsAt, Shape, Scanning, Removing, Finished
<1>6. CASE Scanned(g, "Range") /\ Internal(g, "rangeget") /\ UNCHANGED <<res, visited, left, keys>>
  <2>1. call[g].op = "Range" /\ pc'[g] = "rangeget" /\ keys'[g] = keys[g]
    BY <1>6 DEF Scanned, Internal, Goto, TypeOK
  <2>. QED  BY <1>1, <1>2, <1>3, <1>4, <2>1
            DEF GoInv, Place, OpsAt, Shape, Scanning, Removing, Finished
<1>7. CASE /\ Scanned(g, "Next") /\ keys[g] # <<>> /\ Internal(g, "nextget")
           /\ keys' = [keys EXCEPT ![g] = <<Head(@)>>]
  <2>1. call[g].op = "Next" /\ pc'[g] = "nextget" /\ keys'[g] = <<Head(keys[g])>>
    BY <1>7 DEF Scanned, Internal, Goto, TypeOK
  <2>2. Elements(keys'[g]) \subseteq Elements(keys[g]) /\ keys'[g] # <<>>
    BY <1>2, <1>7, <2>1, ElementsOf
  <2>. QED  BY <1>1, <1>2, <1>3, <1>4, <2>1, <2>2
            DEF GoInv, Place, OpsAt, Shape, Scanning, Removing, Finished
<1>8. CASE /\ Scanned(g, "Next") /\ keys[g] = <<>> /\ Internal(g, "done")
           /\ Give(g, NextResult({})) /\ UNCHANGED <<visited, left, keys>>
  <2>1. /\ call[g].op = "Next" /\ pc'[g] = "done" /\ keys'[g] = <<>>
        /\ res'[g].taken = {}
    BY <1>8 DEF Scanned, Internal, Goto, Give, NextResult, TypeOK
  <2>2. Throughout(g) = {}
    BY <1>4, <1>8, ElementsOf
  <2>3. Place(g)' /\ Shape(g)'
    BY <1>1, <1>2, <2>1 DEF Place, OpsAt, OpNames, Shape
  <2>4. Complete(g)' /\ Current(g)'
    BY <1>1, <1>3, <2>1, <2>2 DEF Complete, Current
  <2>. QED  BY <1>3, <2>1, <2>2, <2>3, <2>4, OwnEnd
<1>. QED  BY <1>5, <1>6, <1>7, <1>8 DEF LoopOver

\* DEL of a key: that key was not there all the time.
LEMMA OwnDel ==
    ASSUME TypeOK, TypeOK', NEW g \in G, GoInv(g), Del(g)
    PROVE  GoInv(g)'
<1>1. /\ pc[g] = "del" /\ pc'[g] = "del" /\ call'[g] = call[g] /\ res'[g] = res[g]
      /\ visited'[g] = visited[g] /\ left'[g] = left[g] /\ keys'[g] = Tail(keys[g])
      /\ db' = Remove(db, {Head(keys[g])}) /\ during' = Seen(db')
      /\ keys[g] # <<>> /\ keys[g] \in Seq(Keys)
  BY DEF Del, Change, Answered, Goto, TypeOK
<1>2. call[g].op \in {"Delete", "Clear", "Next"} /\ call[g] \in Calls /\ call[g].op # "none"
  BY <1>1, CallAt DEF GoInv
<1>3. /\ Window(g)'
      /\ \A k \in Keys : during[g][k] \subseteq during'[g][k]
      /\ Throughout(g)' \subseteq Throughout(g)
  BY <1>1, <1>2, Grows DEF GoInv, Watched
<1>4. /\ Head(keys[g]) \in Keys
      /\ Elements(keys[g]) = {Head(keys[g])} \cup Elements(keys'[g])
  BY <1>1, ElementsOf
<1>5. Head(keys[g]) \notin Throughout(g)'
  BY <1>1, <1>2, <1>3, <1>4 DEF Throughout, Window, Remove
<1>6. Doomed(g)' = Doomed(g)
  BY <1>1 DEF Doomed
<1>7. Doomed(g) \cap Throughout(g) \subseteq Elements(keys[g])
  BY <1>1 DEF GoInv, Removing
<1>8. (Doomed(g) \cap Throughout(g) \subseteq Elements(keys[g]))'
  BY <1>3, <1>4, <1>5, <1>6, <1>7
<1>9. ASSUME call[g].op = "Next" PROVE (res[g].taken # {} /\ Current(g))'
  <2>1. res[g].taken # {} /\ res[g].taken \in SUBSET (Keys \X Values)
    BY <1>1, <1>9 DEF GoInv, Removing, Shape
  <2>2. \A p \in res[g].taken : p[2] \in during[g][p[1]]
    BY <1>1, <1>9 DEF GoInv, Removing, Current
  <2>3. \A p \in res'[g].taken : p[2] \in during'[g][p[1]]
    <3>. TAKE p \in res'[g].taken
    <3>1. p \in res[g].taken /\ p[1] \in Keys
      BY <1>1, <2>1
    <3>2. p[2] \in during[g][p[1]]
      BY <2>2, <3>1
    <3>. QED  BY <1>3, <3>1, <3>2
  <2>. QED  BY <1>1, <1>9, <2>1, <2>3 DEF Current
<1>10. Place(g)' /\ Shape(g)'
  BY <1>1 DEF GoInv, Place, OpsAt, Shape
<1>. QED  BY <1>1, <1>3, <1>8, <1>9, <1>10 DEF GoInv, Scanning, Removing, Finished

\* The loop of Delete ends when there are no keys left.
LEMMA OwnDelEnd ==
    ASSUME TypeOK, TypeOK', NEW g \in G, GoInv(g), DelEnd(g)
    PROVE  GoInv(g)'
<1>1. /\ pc[g] = "del" /\ pc'[g] = "done" /\ call'[g] = call[g] /\ res'[g] = res[g]
      /\ visited'[g] = visited[g] /\ left'[g] = left[g] /\ keys'[g] = <<>> /\ keys[g] = <<>>
      /\ db' = db /\ during' = during
  BY DEF DelEnd, Internal, Goto, server, TypeOK
<1>2. call[g].op \in {"Delete", "Clear", "Next"}
  BY <1>1, CallAt DEF GoInv
<1>3. Throughout(g)' = Throughout(g) /\ Sometime(g)' = Sometime(g) /\ Window(g)'
  BY <1>1 DEF Throughout, Sometime, GoInv, Window
<1>4. Doomed(g)' = Doomed(g)
  BY <1>1 DEF Doomed
<1>5. Doomed(g)' \cap Throughout(g)' = {}
  BY <1>1, <1>3, <1>4, ElementsOf DEF GoInv, Removing
<1>6. Place(g)' /\ Shape(g)'
  BY <1>1, <1>2 DEF GoInv, Place, OpsAt, OpNames, Shape
<1>7. call[g].op = "Next" => res[g].taken # {} /\ Current(g)
  BY <1>1 DEF GoInv, Removing
<1>8. Complete(g)' /\ Current(g)'
  BY <1>1, <1>2, <1>7 DEF Complete, Current
<1>. QED  BY <1>1, <1>3, <1>5, <1>6, <1>8, OwnEnd

\* Next has got the value of the first key, and goes on to delete the key.
LEMMA OwnNextGet ==
    ASSUME TypeOK, TypeOK', NEW g \in G, GoInv(g), NextGet(g)
    PROVE  GoInv(g)'
<1>. DEFINE k == Head(keys[g])
<1>1. /\ pc[g] = "nextget" /\ pc'[g] = "del" /\ call'[g] = call[g]
      /\ visited'[g] = visited[g] /\ left'[g] = left[g] /\ keys'[g] = keys[g]
      /\ db' = db /\ during' = during /\ res'[g].taken = {<<k, db[k]>>} /\ db[k] # Absent
  <2>1. /\ pc' = [pc EXCEPT ![g] = "del"] /\ res' = [res EXCEPT ![g] = NextResult({<<k, db[k]>>})]
        /\ pc[g] = "nextget" /\ db[k] # Absent
        /\ UNCHANGED <<call, visited, left, keys, db, during>>
    BY DEF NextGet, Read, Answered, Goto, Give
  <2>2. pc'[g] = "del" /\ res'[g] = NextResult({<<k, db[k]>>})
    BY <2>1 DEF TypeOK
  <2>. QED  BY <2>1, <2>2 DEF NextResult
<1>2. call[g].op = "Next" /\ call[g] \in Calls /\ Concerns(call[g]) = Keys
  BY <1>1, CallAt, ConcernsOf DEF GoInv, Scans
<1>3. k \in Keys /\ k \in Elements(keys[g])
  <2>1. keys[g] \in Seq(Keys) /\ keys[g] # <<>>
    BY <1>1 DEF GoInv, Place, TypeOK
  <2>. QED  BY <2>1, ElementsOf
<1>4. db[k] \in Values /\ db[k] \in during[g][k]
  BY <1>1, <1>2, <1>3 DEF GoInv, Window, TypeOK, Contents
<1>. HIDE DEF k
<1>5. Throughout(g)' = Throughout(g) /\ Window(g)'
  BY <1>1 DEF Throughout, GoInv, Window
<1>6. Doomed(g)' = {k}
  BY <1>1, <1>2 DEF Doomed
<1>7. Place(g)' /\ Shape(g)'
  BY <1>1, <1>2, <1>3, <1>4 DEF GoInv, Place, OpsAt, Shape
<1>8. res'[g].taken # {} /\ Current(g)'
  BY <1>1, <1>2, <1>4 DEF Current
<1>. QED  BY <1>1, <1>3, <1>5, <1>6, <1>7, <1>8 DEF GoInv, Scanning, Removing, Finished

\* Range shows a pair, and goes on or is stopped.
LEMMA OwnRangeGet ==
    ASSUME TypeOK, TypeOK', NEW g \in G, GoInv(g), RangeGet(g)
    PROVE  GoInv(g)'
<1>. DEFINE k == Head(keys[g])
            shown == visited[g] \cup {<<k, db[k]>>}
<1>1. /\ pc[g] = "rangeget" /\ call'[g] = call[g] /\ keys[g] # <<>>
      /\ db' = db /\ during' = during /\ db[k] # Absent
      /\ \/ /\ pc'[g] = "rangeget" /\ visited'[g] = shown /\ keys'[g] = Tail(keys[g])
            /\ left'[g] = left[g]
         \/ /\ pc'[g] = "done" /\ visited'[g] = {} /\ keys'[g] = <<>> /\ left'[g] = {}
            /\ res'[g].pairs = shown /\ res'[g].stopped = TRUE
  BY DEF RangeGet, Read, Answered, Goto, Give, Forget, RangeResult, TypeOK
<1>2. call[g].op = "Range" /\ call[g] \in Calls /\ Concerns(call[g]) = Keys
  BY <1>1, CallAt, ConcernsOf DEF GoInv, Scans
<1>3. k \in Keys /\ Elements(keys[g]) = {k} \cup Elements(Tail(keys[g]))
  BY <1>1, ElementsOf DEF TypeOK
<1>4. db[k] \in Values /\ db[k] \in during[g][k]
  BY <1>1, <1>2, <1>3 DEF GoInv, Window, TypeOK, Contents
<1>5. Throughout(g)' = Throughout(g) /\ Sometime(g)' = Sometime(g) /\ Window(g)'
  BY <1>1 DEF Throughout, Sometime, GoInv, Window
<1>6. /\ Throughout(g) \subseteq Elements(keys[g]) \cup {p[1] : p \in visited[g]}
      /\ \A p \in visited[g] : p[2] \in during[g][p[1]]
      /\ Elements(keys[g]) \subseteq Sometime(g) /\ left[g] = {}
      /\ visited[g] \in SUBSET (Keys \X Values)
  BY <1>1 DEF GoInv, Scanning, Place, TypeOK
<1>. HIDE DEF k
<1>7. shown \in SUBSET (Keys \X Values) /\ \A p \in shown : p[2] \in during[g][p[1]]
  BY <1>3, <1>4, <1>6
<1>8. {p[1] : p \in shown} = {p[1] : p \in visited[g]} \cup {k}
  <2>1. <<k, db[k]>>[1] = k /\ <<k, db[k]>> \in shown /\ visited[g] \subseteq shown
    OBVIOUS
  <2>2. \A p \in shown : p \in visited[g] \/ p[1] = k
    OBVIOUS
  <2>. HIDE DEF shown
  <2>. QED  BY <2>1, <2>2, Zenon
<1>. HIDE DEF shown
<1>9. CASE /\ pc'[g] = "rangeget" /\ visited'[g] = shown /\ keys'[g] = Tail(keys[g])
           /\ left'[g] = left[g]
  <2>1. Scanning(g)'
    BY <1>1, <1>3, <1>5, <1>6, <1>7, <1>8, <1>9 DEF Scanning
  <2>2. Place(g)'
    BY <1>1, <1>2, <1>6, <1>9 DEF Place, OpsAt
  <2>. QED  BY <1>5, <1>9, <2>1, <2>2 DEF GoInv, Shape, Removing, Finished
<1>10. CASE /\ pc'[g] = "done" /\ visited'[g] = {} /\ keys'[g] = <<>> /\ left'[g] = {}
            /\ res'[g].pairs = shown /\ res'[g].stopped = TRUE
  <2>1. Place(g)' /\ Shape(g)'
    BY <1>1, <1>2, <1>7, <1>10 DEF Place, OpsAt, OpNames, Shape
  <2>2. Complete(g)' /\ Current(g)'
    BY <1>1, <1>2, <1>7, <1>10 DEF Complete, Current
  <2>3. Doomed(g)' = {}
    BY <1>1, <1>2 DEF Doomed
  <2>. QED  BY <1>5, <1>10, <2>1, <2>2, <2>3, OwnEnd
<1>. QED  BY <1>1, <1>9, <1>10

\* Range ends when there are no keys left.
LEMMA OwnRangeEnd ==
    ASSUME TypeOK, TypeOK', NEW g \in G, GoInv(g), RangeEnd(g)
    PROVE  GoInv(g)'
<1>1. /\ pc[g] = "rangeget" /\ pc'[g] = "done" /\ call'[g] = call[g] /\ keys[g] = <<>>
      /\ db' = db /\ during' = during /\ visited'[g] = {} /\ keys'[g] = <<>> /\ left'[g] = {}
      /\ res'[g].pairs = visited[g]
  BY DEF RangeEnd, Internal, Goto, Give, Forget, RangeResult, server, TypeOK
<1>2. call[g].op = "Range"
  BY <1>1, CallAt DEF GoInv
<1>3. Throughout(g)' = Throughout(g) /\ Window(g)'
  BY <1>1 DEF Throughout, GoInv, Window
<1>4. /\ Throughout(g) \subseteq {p[1] : p \in visited[g]}
      /\ \A p \in visited[g] : p[2] \in during[g][p[1]]
      /\ visited[g] \in SUBSET (Keys \X Values)
  BY <1>1, ElementsOf DEF GoInv, Scanning, TypeOK
<1>5. Place(g)' /\ Shape(g)'
  BY <1>1, <1>2, <1>4 DEF Place, OpsAt, OpNames, Shape
<1>6. Complete(g)' /\ Current(g)'
  BY <1>1, <1>2, <1>3, <1>4 DEF Complete, Current
<1>7. Doomed(g)' = {}
  BY <1>1, <1>2 DEF Doomed
<1>. QED  BY <1>1, <1>3, <1>5, <1>6, <1>7, OwnEnd

\* A GET of Next or Range finds that a key is gone.
LEMMA OwnGone ==
    ASSUME TypeOK, TypeOK', NEW g \in G, GoInv(g), Gone(g)
    PROVE  GoInv(g)'
<1>1. /\ pc[g] \in {"nextget", "rangeget"} /\ pc'[g] = "nilpanic" /\ call'[g] = call[g]
      /\ db' = db /\ during' = during
      /\ visited'[g] = {} /\ keys'[g] = <<>> /\ left'[g] = {}
  BY DEF Gone, Read, Answered, Goto, Forget, TypeOK
<1>2. call[g].op \in {"Next", "Range"}
  BY <1>1, CallAt DEF GoInv
<1>3. Window(g)'
  BY <1>1 DEF GoInv, Window
<1>4. Place(g)' /\ Shape(g)'
  BY <1>1, <1>2 DEF Place, OpsAt, Shape
<1>. QED  BY <1>1, <1>3, <1>4 DEF GoInv, Scanning, Removing, Finished

\* A goroutine that is in no call has nothing to answer for.
LEMMA OwnNoCall ==
    ASSUME TypeOK, TypeOK', NEW g \in G, GoInv(g), GiveUp(g) \/ Return(g)
    PROVE  GoInv(g)'
<1>1. /\ pc'[g] \in {"idle", "errpanic"} /\ call'[g] = NoCall
      /\ visited'[g] = {} /\ keys'[g] = <<>> /\ left'[g] = {}
  BY DEF GiveUp, Return, Goto, Forget, GoInv, Place, Ends, TypeOK
<1>. QED  BY <1>1 DEF GoInv, Place, OpsAt, NoCall, Shape, Window, Scanning, Removing, Finished

\* A command that is sent again is for its own call what it is for others.
LEMMA OwnRetry ==
    ASSUME TypeOK, NEW g \in G, Retry(g)
    PROVE  Locals(g)' = Locals(g) /\ Watched(g)
BY DEF Retry, Locals, Watched

-----------------------------------------------------------------------------
\* The invariant.

\* The invariant holds when the storage has been made ...
LEMMA RedisInit == Init => RedisInv
<1>. SUFFICES ASSUME Init PROVE RedisInv
  OBVIOUS
<1>1. TypeOK
  BY ResultType, BoundsAreNat DEF Init, TypeOK, Unseen
<1>2. ASSUME NEW g \in G PROVE GoInv(g)
  BY DEF Init, GoInv, Place, OpsAt, NoCall, Shape, Window, Scanning, Removing, Finished
<1>. QED  BY <1>1, <1>2 DEF RedisInv

\* ... and is kept by every step.
LEMMA RedisStep ==
    ASSUME RedisInv, [Next]_vars
    PROVE  RedisInv'
<1>1. TypeOK /\ \A g \in G : GoInv(g) /\ Place(g)
  BY DEF RedisInv, GoInv
<1>2. CASE UNCHANGED vars
  <2>1. TypeOK'
    BY <1>1, <1>2 DEF vars, TypeOK
  <2>2. ASSUME NEW g \in G PROVE GoInv(g)'
    <3>1. Locals(g)' = Locals(g) /\ Watched(g)
      BY <1>2 DEF vars, Locals, Watched
    <3>. QED  BY <1>1, <2>1, <3>1, QuietStep
  <2>. QED  BY <2>1, <2>2 DEF RedisInv
<1>3. CASE (\E k \in Keys : Expire(k)) \/ (\E w \in Writes : LateWrite(w))
  <2>1. TypeOK'
    BY <1>1, <1>3, TypeServer
  <2>2. ASSUME NEW g \in G PROVE GoInv(g)'
    BY <1>1, <1>3, <2>1, ServerStep, QuietStep
  <2>. QED  BY <2>1, <2>2 DEF RedisInv
<1>4. ASSUME NEW h \in G, (\E c \in Calls : Invoke(h, c)) \/ Step(h) PROVE RedisInv'
  <2>1. TypeOK'
    BY <1>1, <1>4, TypeInvoke, TypeStep
  <2>2. GoInv(h)'
    <3>1. CASE \E c \in Calls : Invoke(h, c)
      BY <1>1, <2>1, <3>1, OwnInvoke
    <3>2. CASE Set(h) \/ Get(h) \/ Close(h) \/ Scan(h) \/ KeysOf(h) \/ LenOf(h) \/ LoopOver(h)
      BY <1>1, <2>1, <3>2, OwnSimple, OwnScan, OwnScanned, OwnLoopOver
    <3>3. CASE Del(h) \/ DelEnd(h) \/ NextGet(h) \/ RangeGet(h) \/ RangeEnd(h) \/ Gone(h)
      BY <1>1, <2>1, <3>3, OwnDel, OwnDelEnd, OwnNextGet, OwnRangeGet, OwnRangeEnd, OwnGone
    <3>4. CASE Retry(h)
      BY <1>1, <2>1, <3>4, OwnRetry, QuietStep
    <3>5. CASE GiveUp(h) \/ Return(h)
      BY <1>1, <2>1, <3>5, OwnNoCall
    <3>. QED  BY <1>4, <3>1, <3>2, <3>3, <3>4, <3>5 DEF Step
  <2>3. ASSUME NEW g \in G, g # h PROVE GoInv(g)'
    <3>1. Locals(g)' = Locals(g) /\ Watched(g)
      BY <1>1, <1>4, <2>3, OthersStep
    <3>. QED  BY <1>1, <2>1, <3>1, QuietStep
  <2>. QED  BY <2>1, <2>2, <2>3 DEF RedisInv
<1>. QED  BY <1>2, <1>3, <1>4 DEF Next

\* It holds in every state.
LEMMA RedisInvariance == Spec => []RedisInv
BY RedisInit, RedisStep, PTL DEF Spec

-----------------------------------------------------------------------------
\* The server and the goroutines that use it are well typed.
THEOREM RedisTypeCorrect == Spec => []TypeOK
BY RedisInvariance, PTL DEF RedisInv

\* A scan in pages misses no key that was there throughout the call, and
\* reports none that never was, whatever the others write meanwhile.
THEOREM ScansComplete == Spec => []ScanComplete
<1>1. RedisInv => ScanComplete
  BY DEF RedisInv, GoInv, Finished, ScanComplete
<1>. QED  BY RedisInvariance, <1>1, PTL

\* What Load, Range and Next hand out was true at some time in the call.
THEOREM AnswersTrue == Spec => []AnswersTrueDuringCall
<1>1. RedisInv => AnswersTrueDuringCall
  BY DEF RedisInv, GoInv, Finished, AnswersTrueDuringCall
<1>. QED  BY RedisInvariance, <1>1, PTL

\* Delete, Clear and Next leave no key that was there all the time.
THEOREM RemovalsEffective == Spec => []RemovalsTakeEffect
<1>1. RedisInv => RemovalsTakeEffect
  BY DEF RedisInv, GoInv, Finished, RemovalsTakeEffect
<1>. QED  BY RedisInvariance, <1>1, PTL

\* No other command ends in that panic: Load expects redis.Nil.
LEMMA OnlyGonePanics ==
    ASSUME TypeOK, Next, NEW g \in G, pc[g] # "nilpanic", pc'[g] = "nilpanic"
    PROVE  Gone(g)
<1>. USE DEF TypeOK
<1>1. PICK h \in G : (\E c \in Calls : Invoke(h, c)) \/ Step(h)
  BY DEF Next, Expire, LateWrite
<1>2. CASE \E c \in Calls : Invoke(h, c)
  BY <1>2 DEF Invoke, Goto, FirstPc
<1>3. CASE Set(h) \/ Get(h) \/ Close(h) \/ Retry(h) \/ GiveUp(h) \/ Return(h)
  BY <1>3 DEF Set, Get, Close, Retry, GiveUp, Return, Read, Answered, Goto
<1>4. CASE Scan(h)
  BY <1>4 DEF Scan, Page, Read, Answered, Goto
<1>5. CASE KeysOf(h) \/ LenOf(h) \/ LoopOver(h)
  BY <1>5 DEF KeysOf, LenOf, LoopOver, Internal, Goto
<1>6. CASE Del(h) \/ DelEnd(h) \/ NextGet(h) \/ RangeGet(h) \/ RangeEnd(h)
  BY <1>6 DEF Del, DelEnd, NextGet, RangeGet, RangeEnd, Read, Answered, Internal, Goto
<1>7. CASE Gone(h)
  BY <1>7 DEF Gone, Read, Answered, Goto
<1>. QED  BY <1>1, <1>2, <1>3, <1>4, <1>5, <1>6, <1>7 DEF Step

\* Next and Range panic on a missing key only if that key was there during
\* the call and has been removed since.
THEOREM NilPanicsExplained == Spec => NilPanicsNeedARemoval
<1>1. ASSUME RedisInv, Next, NEW g \in G, pc[g] # "nilpanic", pc'[g] = "nilpanic"
      PROVE  \E k \in Wanted(g) : k \in Sometime(g) /\ db[k] = Absent
  <2>1. TypeOK /\ GoInv(g) /\ Gone(g)
    BY <1>1, OnlyGonePanics DEF RedisInv
  <2>2. /\ pc[g] \in {"nextget", "rangeget"} /\ keys[g] # <<>> /\ keys[g] \in Seq(Keys)
        /\ db[Head(keys[g])] = Absent
    BY <2>1 DEF Gone, TypeOK
  <2>3. Head(keys[g]) \in Elements(keys[g])
    BY <2>2, ElementsOf
  <2>4. Head(keys[g]) \in Sometime(g)
    BY <2>1, <2>2, <2>3 DEF GoInv, Scanning
  <2>. QED  BY <2>2, <2>4 DEF Wanted
<1>2. RedisInv /\ [Next]_vars =>
          [\A g \in G : (pc[g] # "nilpanic" /\ pc'[g] = "nilpanic") =>
              \E k \in Wanted(g) : k \in Sometime(g) /\ db[k] = Absent]_vars
  BY <1>1
<1>. QED  BY RedisInvariance, <1>2, PTL DEF Spec, NilPanicsNeedARemoval

-----------------------------------------------------------------------------
\* Every call comes to its end.

\* A product gets smaller by the second factor with the first.
LEMMA Products ==
    ASSUME NEW a \in Nat, NEW b \in Nat, NEW c \in Nat, a < b
    PROVE  a * c \in Nat /\ b * c \in Nat /\ a * c + c <= b * c
<1>1. b - a - 1 \in Nat
  OBVIOUS
<1>2. \A x, y \in Nat : x * y \in Nat
  OBVIOUS
<1>3. (b - a - 1) * c \in Nat
  BY <1>1, <1>2
<1>4. (b - a - 1) * c = b * c - a * c - c
  OBVIOUS
<1>. QED  BY <1>2, <1>3, <1>4

\* The number of steps that are left is a number.
LEMMA StepsLeftType ==
    ASSUME TypeOK, NEW g \in G
    PROVE  /\ StepsLeft(g) \in Nat /\ Len(keys[g]) \in Nat
           /\ Cardinality(left[g]) \in Nat /\ Cardinality(Keys) \in Nat
<1>1. Len(keys[g]) \in Nat
  BY ElementsOf DEF TypeOK
<1>2. Cardinality(left[g]) \in Nat /\ Cardinality(Keys) \in Nat
  BY KeysFinite, FS_Subset, FS_CardinalityType DEF TypeOK
<1>3. Cardinality(left[g]) * (Cardinality(Keys) + 1) \in Nat
  BY <1>2
<1>. QED  BY <1>1, <1>2, <1>3 DEF StepsLeft

\* A page of a scan costs less than the keys that the cursor passes save.
LEMMA ScanRunsOut ==
    ASSUME TypeOK, TypeOK', NEW g \in G, GoInv(g), Scan(g)
    PROVE  StepsLeft(g)' < StepsLeft(g)
<1>1. PICK passed \in (SUBSET left[g]) \ {{}}, again \in SUBSET (Keys \ left[g]) :
          Page(g, (passed \cup again) \cap Present(db), left[g] \ passed)
  BY DEF Scan
<1>. DEFINE page == (passed \cup again) \cap Present(db)
<1>2. PICK s \in Orders(page) : keys' = [keys EXCEPT ![g] = @ \o s]
  BY <1>1 DEF Page
<1>3. s \in Seq(Keys) /\ keys[g] \in Seq(Keys) /\ Len(s) \in Nat /\ Len(s) <= Cardinality(Keys)
  BY OrdersElements, page \in SUBSET Keys DEF Present, TypeOK
<1>4. Len(keys'[g]) = Len(keys[g]) + Len(s)
  BY <1>2, <1>3, ElementsOf DEF TypeOK
<1>5. pc[g] = "scan" /\ pc'[g] \in {"scan", "scanned"} /\ left'[g] = left[g] \ passed
  BY <1>1 DEF Scan, Page, Read, Answered, Goto, TypeOK
<1>6. Cardinality(left'[g]) < Cardinality(left[g])
  <2>1. IsFiniteSet(left[g]) /\ left'[g] \subseteq left[g] /\ left'[g] # left[g]
    BY <1>5, KeysFinite, FS_Subset DEF TypeOK
  <2>. QED  BY <2>1, FS_Subset, FS_CardinalityType
<1>. DEFINE K == Cardinality(Keys) + 1
            a == Cardinality(left'[g])
            b == Cardinality(left[g])
<1>7. K \in Nat /\ a \in Nat /\ b \in Nat /\ Len(keys[g]) \in Nat
  BY StepsLeftType, FS_Subset, FS_CardinalityType, KeysFinite DEF TypeOK
<1>8. a * K \in Nat /\ b * K \in Nat /\ a * K + K <= b * K
  BY <1>6, <1>7, Products
<1>9. StepsLeft(g) = Len(keys[g]) + 4 + b * K
  BY <1>5 DEF StepsLeft, Ends
<1>10. StepsLeft(g)' \in {Len(keys'[g]) + 4, Len(keys'[g]) + 4 + a * K}
  BY <1>5 DEF StepsLeft, Ends
<1>11. Len(s) < K
  <2>1. Cardinality(Keys) \in Nat
    BY StepsLeftType
  <2>. QED  BY <1>3, <2>1
<1>. DEFINE x == Len(keys[g])
            y == Len(s)
            aK == a * K
            bK == b * K
<1>. HIDE DEF x, y, aK, bK, K, a, b
<1>12. /\ x \in Nat /\ y \in Nat /\ aK \in Nat /\ bK \in Nat /\ K \in Nat
       /\ aK + K <= bK /\ y < K /\ Len(keys'[g]) = x + y
  BY <1>3, <1>4, <1>7, <1>8, <1>11 DEF x, y, aK, bK
<1>13. StepsLeft(g) = x + 4 + bK /\ StepsLeft(g)' \in {x + y + 4, x + y + 4 + aK}
  BY <1>9, <1>10, <1>12 DEF x, aK, bK
<1>. QED  BY <1>12, <1>13

\* Every step of a goroutine but a retry leaves fewer steps.
LEMMA StepsRun ==
    ASSUME TypeOK, TypeOK', NEW g \in G, GoInv(g), Step(g), ~Retry(g)
    PROVE  StepsLeft(g)' < StepsLeft(g)
<1>. DEFINE n == Len(keys[g])
<1>1. n \in Nat /\ keys[g] \in Seq(Keys) /\ Len(<<>>) = 0
  BY StepsLeftType DEF TypeOK
<1>2. keys[g] # <<>> => n >= 1
  BY <1>1
<1>. USE DEF Goto, TypeOK
<1>3. CASE Set(g) \/ Get(g) \/ Close(g)
  <2>1. pc[g] \in {"set", "get", "closing"} /\ pc'[g] = "done"
    BY <1>3 DEF Set, Get, Close, Read, Answered
  <2>. QED  BY <2>1 DEF StepsLeft, Ends
<1>4. CASE Scan(g)
  BY <1>4, ScanRunsOut
<1>5. CASE KeysOf(g) \/ LenOf(g)
  <2>1. pc[g] = "scanned" /\ pc'[g] = "done"
    BY <1>5 DEF KeysOf, LenOf, Scanned, Internal
  <2>. QED  BY <1>1, <2>1 DEF StepsLeft, Ends
<1>6. CASE LoopOver(g)
  <2>1. /\ pc[g] = "scanned"
        /\ \/ pc'[g] \in {"del", "rangeget"} /\ keys'[g] = keys[g]
           \/ pc'[g] = "nextget" /\ keys'[g] = <<Head(keys[g])>> /\ keys[g] # <<>>
           \/ pc'[g] = "done"
    BY <1>6 DEF LoopOver, Scanned, Internal
  <2>2. Len(<<Head(keys[g])>>) = 1
    OBVIOUS
  <2>3. StepsLeft(g) = n + 4
    BY <2>1 DEF StepsLeft, Ends
  <2>4. CASE pc'[g] \in {"del", "rangeget"} /\ keys'[g] = keys[g]
    <3>1. StepsLeft(g)' = n + 2
      BY <2>4 DEF StepsLeft, Ends
    <3>. QED  BY <1>1, <2>3, <3>1
  <2>5. CASE pc'[g] = "nextget" /\ keys'[g] = <<Head(keys[g])>> /\ keys[g] # <<>>
    <3>1. StepsLeft(g)' = 4
      BY <2>2, <2>5 DEF StepsLeft, Ends
    <3>. QED  BY <1>1, <1>2, <2>3, <2>5, <3>1
  <2>6. CASE pc'[g] = "done"
    <3>1. StepsLeft(g)' = 1
      BY <2>6 DEF StepsLeft, Ends
    <3>. QED  BY <1>1, <2>3, <3>1
  <2>. QED  BY <2>1, <2>4, <2>5, <2>6
<1>7. CASE Del(g) \/ (RangeGet(g) /\ pc'[g] = "rangeget")
  <2>1. /\ pc[g] \in {"del", "rangeget"} /\ pc'[g] \in {"del", "rangeget"}
        /\ keys'[g] = Tail(keys[g]) /\ keys[g] # <<>>
    BY <1>7 DEF Del, RangeGet, Answered, Read
  <2>2. Len(keys'[g]) = n - 1
    BY <1>1, <2>1, ElementsOf
  <2>3. StepsLeft(g) = n + 2 /\ StepsLeft(g)' = Len(keys'[g]) + 2
    BY <2>1 DEF StepsLeft, Ends
  <2>. QED  BY <1>1, <2>2, <2>3
<1>8. CASE NextGet(g)
  <2>1. pc[g] = "nextget" /\ pc'[g] = "del" /\ keys'[g] = keys[g]
    BY <1>8 DEF NextGet, Read, Answered
  <2>2. StepsLeft(g) = n + 3 /\ StepsLeft(g)' = n + 2
    BY <2>1 DEF StepsLeft, Ends
  <2>. QED  BY <1>1, <2>2
<1>9. CASE DelEnd(g) \/ RangeEnd(g) \/ Gone(g) \/ (RangeGet(g) /\ pc'[g] = "done")
  <2>1. pc[g] \in {"del", "rangeget", "nextget"} /\ pc'[g] \in Ends
    BY <1>9 DEF DelEnd, RangeEnd, Gone, RangeGet, Internal, Read, Answered, Ends
  <2>2. StepsLeft(g)' = 1
    BY <2>1 DEF StepsLeft, Ends
  <2>3. StepsLeft(g) \in {n + 2, n + 3}
    BY <2>1 DEF StepsLeft, Ends
  <2>. QED  BY <1>1, <2>2, <2>3
<1>10. RangeGet(g) => pc'[g] \in {"rangeget", "done"}
  BY DEF RangeGet, Read, Answered
<1>11. CASE GiveUp(g)
  <2>1. pc[g] \in Commands /\ pc'[g] = "errpanic"
    BY <1>11 DEF GiveUp, Waiting
  <2>2. StepsLeft(g)' = 1
    BY <2>1 DEF StepsLeft, Ends
  <2>3. StepsLeft(g) >= 2
    <3>1. Cardinality(left[g]) * (Cardinality(Keys) + 1) \in Nat
      BY StepsLeftType
    <3>. QED  BY <1>1, <2>1, <3>1 DEF StepsLeft, Ends, Commands
  <2>. QED  BY <2>2, <2>3, StepsLeftType
<1>12. CASE Return(g)
  <2>1. pc[g] \in Ends /\ pc'[g] = "idle"
    BY <1>12 DEF Return
  <2>. QED  BY <2>1 DEF StepsLeft, Ends
<1>. QED  BY <1>3, <1>4, <1>5, <1>6, <1>7, <1>8, <1>9, <1>10, <1>11, <1>12 DEF Step

\* A retry uses up one of the retries of its command, every other step one of
\* the steps that are left: no call goes on for ever.
THEOREM CallsRunOut == Spec => StepsRunOut
<1>. DEFINE LeftIsNat == \A h \in G : StepsLeft(h) \in Nat
<1>0. RedisInv => LeftIsNat
  BY StepsLeftType DEF RedisInv
<1>1. ASSUME RedisInv, RedisInv', LeftIsNat', NEW g \in G, Step(g) PROVE Rank(g)' < Rank(g)
  <2>. DEFINE R == MaxRetries + 1
              a == StepsLeft(g)'
              b == StepsLeft(g)
  <2>1. TypeOK /\ TypeOK' /\ GoInv(g)
    BY <1>1 DEF RedisInv
  <2>2. R \in Nat /\ a \in Nat /\ b \in Nat
    BY <1>1, <2>1, StepsLeftType, BoundsAreNat
  <2>3. tries[g] \in 0..MaxRetries /\ tries'[g] \in 0..MaxRetries
    BY <2>1 DEF TypeOK
  <2>4. CASE Retry(g)
    <3>1. tries'[g] = tries[g] + 1 /\ a = b
      BY <2>1, <2>4 DEF Retry, StepsLeft, TypeOK
    <3>2. b * R \in Nat
      BY <2>2
    <3>. DEFINE bR == b * R
    <3>. HIDE DEF bR, b, a, R
    <3>3. Rank(g) = bR + (MaxRetries - tries[g]) /\ Rank(g)' = bR + (MaxRetries - tries'[g])
      BY <3>1 DEF Rank, bR, a, b, R
    <3>. QED  BY <2>3, <3>1, <3>2, <3>3, BoundsAreNat DEF bR
  <2>5. CASE ~Retry(g)
    <3>1. a < b
      BY <1>1, <2>1, <2>5, StepsRun
    <3>2. a * R \in Nat /\ b * R \in Nat /\ a * R + R <= b * R
      BY <2>2, <3>1, Products
    <3>. DEFINE aR == a * R
                bR == b * R
    <3>3. Rank(g) = bR + (MaxRetries - tries[g]) /\ Rank(g)' = aR + (MaxRetries - tries'[g])
      BY DEF Rank
    <3>4. aR \in Nat /\ bR \in Nat /\ aR + (MaxRetries + 1) <= bR
      BY <3>2
    <3>. HIDE DEF aR, bR
    <3>. QED  BY <2>3, <3>3, <3>4, BoundsAreNat
  <2>. QED  BY <2>4, <2>5
<1>2. RedisInv /\ RedisInv' /\ LeftIsNat' /\ [Next]_vars =>
          [\A g \in G : Step(g) => Rank(g)' < Rank(g)]_vars
  BY <1>1
<1>. HIDE DEF LeftIsNat
<1>. QED  BY RedisInvariance, <1>0, <1>2, PTL DEF Spec, StepsRunOut
=============================================================================
