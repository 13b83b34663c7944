-------------------------- MODULE MightyMapProofs ---------------------------
(***************************************************************************)
(* Proofs about MightyMap, for any number of goroutines, keys and values   *)
(* and for storages with and without an atomic Next and Delete: its types, *)
(* that its methods say what was so during their call, and, as long as no  *)
(* two goroutines use the same key, that a map that does not allow         *)
(* overwriting never overwrites, that Pop takes the pair it found and that *)
(* every method is one atomic step of the map its comments describe.       *)
(***************************************************************************)
EXTENDS MightyMap, StorageContractProofs

-----------------------------------------------------------------------------
\* The calls of a goroutine name keys it owns, and are calls of the storage
\* when they are handed on.
LEMMA MapCallType ==
    ASSUME NEW g \in G, NEW m \in MapCalls(g)
    PROVE  /\ m.op \in KeyOps => m.key \in Owned[g] /\ m.key \in Keys
           /\ m.op = "Store" => m \in Calls /\ m.val \in Values
           /\ FirstCall(m) \in Calls
           /\ m.op \in {"Store", "Pop"} => SecondCall(m) \in Calls
<1>1. Owned[g] \subseteq Keys
  BY OwnedAreKeys
<1>2. CASE m \in [op : {"Load", "Has", "Pop"}, key : Owned[g]]
  BY <1>1, <1>2, AllStorageOps
     DEF KeyOps, Calls, FirstCall, SecondCall, LoadsFirst, OpNames
<1>3. CASE m \in [op : {"Store"}, key : Owned[g], val : Values]
  BY <1>1, <1>3, AllStorageOps
     DEF KeyOps, Calls, FirstCall, SecondCall, LoadsFirst, OpNames
<1>4. CASE m \in [op : {"Delete"}, keys : SUBSET Owned[g]]
  BY <1>1, <1>4, AllStorageOps
     DEF KeyOps, Calls, FirstCall, SecondCall, LoadsFirst, OpNames
<1>5. CASE m \in [op : {"Range", "Keys", "Next", "Len", "Clear", "Close"}]
  BY <1>5, AllStorageOps
     DEF KeyOps, Calls, FirstCall, SecondCall, LoadsFirst, OpNames
<1>. QED  BY <1>2, <1>3, <1>4, <1>5 DEF MapCalls

-----------------------------------------------------------------------------
\* How the method a goroutine runs and the call it makes on the storage go
\* together.  Types alone are not inductive: Pop's and Store's second call is
\* a call of the storage because only they reach "between".
Agree(g) ==
    /\ mpc[g] # "idle" => mcall[g] \in MapCalls(g)
    /\ mpc[g] \in {"idle", "between", "done"} => phase[g] = "idle"
    /\ phase[g] = "ranging" => call[g].op = "Range"
    /\ phase[g] = "peeked" => call[g].op = "Next"
    /\ mpc[g] = "between" => mcall[g].op = "Pop" \/ (mcall[g].op = "Store" /\ ~allowOverwrite)
    /\ (phase[g] # "idle" /\ call[g].op = "Store") => call[g] = mcall[g]
    /\ (mpc[g] = "first" /\ mcall[g].op \in KeyOps) => call[g] = FirstCall(mcall[g])
    /\ (mpc[g] = "last" /\ mcall[g].op = "Store") => call[g] = mcall[g]

Agreement == \A g \in G : Agree(g)
MapInv == MapTypeOK /\ Agreement

\* A storage call of g leaves the method calls of the others as they were.
LEMMA EffectAgreement ==
    ASSUME MapInv, NEW g \in G, StorageStep(g)
    PROVE  Agreement'
<1>1. EffectShape(g) /\ UNCHANGED <<allowOverwrite, mpc, mcall>>
  BY EffectFrame DEF StorageStep, MapInv, MapTypeOK
<1>2. ASSUME NEW h \in G, h # g PROVE Agree(h)'
  BY <1>1, <1>2 DEF MapInv, Agreement, Agree, EffectShape, FirstCall, LoadsFirst
<1>3. Agree(g)'
  BY <1>1 DEF MapInv, Agreement, Agree, EffectShape, FirstCall, LoadsFirst, KeyOps
<1>. QED  BY <1>2, <1>3 DEF Agreement

\* The invariant is kept by every step of the map.
LEMMA MapInvStep ==
    ASSUME MapInv, [MapNext]_vars
    PROVE  MapInv'
<1>. USE DEF MapInv
<1>1. ASSUME NEW g \in G, NEW m \in MapCalls(g), MapInvoke(g, m) PROVE MapInv'
  <2>1. TypeOK'
    BY <1>1, MapCallType, StorageInvokeType DEF MapInvoke, MapTypeOK
  <2>2. (IF m.op \in KeyOps THEN {contents[m.key]} ELSE {}) \in SUBSET (Values \cup {Absent})
    BY <1>1, MapCallType DEF MapTypeOK, TypeOK, Contents
  <2>3. MapTypeOK'
    BY <1>1, <2>1, <2>2 DEF MapInvoke, MapTypeOK
  <2>4. ASSUME NEW h \in G, h # g PROVE Agree(h)'
    BY <1>1, <2>4 DEF MapInvoke, Invoke, MapTypeOK, TypeOK, Agreement, Agree,
                      FirstCall, LoadsFirst
  <2>5. Agree(g)'
    <3>1. /\ mpc'[g] = "first" /\ phase'[g] = "pending"
          /\ mcall'[g] = m /\ call'[g] = FirstCall(m)
          /\ allowOverwrite' = allowOverwrite
      BY <1>1 DEF MapInvoke, Invoke, MapTypeOK, TypeOK
    <3>. QED  BY <1>1, <3>1 DEF Agree, FirstCall, LoadsFirst
  <2>. QED  BY <2>3, <2>4, <2>5 DEF Agreement
<1>2. ASSUME NEW g \in G, FirstReturns(g) PROVE MapInv'
  <2>1. TypeOK'
    BY <1>2, StorageReturnType DEF FirstReturns, MapTypeOK
  <2>2. ResultOf(mcall[g], res[g]) \in MapResults
    BY ResultType DEF ResultOf, MapResults, HasResult, MapTypeOK, TypeOK
  <2>3. MapTypeOK'
    BY <1>2, <2>1, <2>2 DEF FirstReturns, MapTypeOK
  <2>4. ASSUME NEW h \in G, h # g PROVE Agree(h)'
    BY <1>2, <2>4 DEF FirstReturns, Return, MapTypeOK, TypeOK, Agreement, Agree,
                      FirstCall, LoadsFirst
  <2>5. Agree(g)'
    BY <1>2 DEF FirstReturns, Return, CallsAgain, MapTypeOK, TypeOK, Agreement, Agree
  <2>. QED  BY <2>3, <2>4, <2>5 DEF Agreement
<1>3. ASSUME NEW g \in G, CallAgain(g) PROVE MapInv'
  <2>1. mcall[g] \in MapCalls(g) /\ mcall[g].op \in {"Store", "Pop"}
    BY <1>3 DEF CallAgain, Agreement, Agree
  <2>2. TypeOK'
    BY <1>3, <2>1, MapCallType, StorageInvokeType DEF CallAgain, MapTypeOK
  <2>3. MapTypeOK'
    BY <1>3, <2>2 DEF CallAgain, MapTypeOK
  <2>4. ASSUME NEW h \in G, h # g PROVE Agree(h)'
    BY <1>3, <2>4 DEF CallAgain, Invoke, MapTypeOK, TypeOK, Agreement, Agree,
                      FirstCall, LoadsFirst
  <2>5. Agree(g)'
    BY <1>3, <2>1 DEF CallAgain, Invoke, SecondCall, MapTypeOK, TypeOK, Agreement, Agree
  <2>. QED  BY <2>3, <2>4, <2>5 DEF Agreement
<1>4. ASSUME NEW g \in G, SecondReturns(g) PROVE MapInv'
  <2>1. TypeOK'
    BY <1>4, StorageReturnType DEF SecondReturns, MapTypeOK
  <2>2. MapTypeOK'
    BY <1>4, <2>1 DEF SecondReturns, MapTypeOK
  <2>3. ASSUME NEW h \in G PROVE Agree(h)'
    BY <1>4, <2>3 DEF SecondReturns, Return, MapTypeOK, TypeOK, Agreement, Agree,
                      FirstCall, LoadsFirst
  <2>. QED  BY <2>2, <2>3 DEF Agreement
<1>5. ASSUME NEW g \in G, MapReturn(g) PROVE MapInv'
  <2>1. TypeOK'
    BY <1>5 DEF MapReturn, cvars, MapTypeOK, TypeOK
  <2>2. MapTypeOK'
    <3>1. NoResult \in MapResults
      BY ResultType DEF MapResults
    <3>2. mcall' \in [G -> (UNION {MapCalls(h) : h \in G}) \cup {NoCall}]
      BY <1>5 DEF MapReturn, MapTypeOK
    <3>3. mres' \in [G -> MapResults]
      BY <1>5, <3>1 DEF MapReturn, MapTypeOK
    <3>4. window' \in [G -> SUBSET (Values \cup {Absent})]
      BY <1>5 DEF MapReturn, MapTypeOK
    <3>. QED  BY <1>5, <2>1, <3>2, <3>3, <3>4 DEF MapReturn, MapTypeOK
  <2>3. ASSUME NEW h \in G PROVE Agree(h)'
    BY <1>5, <2>3 DEF MapReturn, cvars, MapTypeOK, TypeOK, Agreement, Agree,
                      FirstCall, LoadsFirst
  <2>. QED  BY <2>2, <2>3 DEF Agreement
<1>6. ASSUME NEW g \in G, StorageStep(g) PROVE MapInv'
  <2>1. TypeOK'
    BY <1>6, StorageEffectType DEF StorageStep, MapTypeOK
  <2>2. ASSUME NEW h \in G, mpc[h] # "idle", mcall[h].op \in KeyOps
        PROVE  contents'[mcall[h].key] \in Values \cup {Absent}
    BY <2>1, <2>2, MapCallType DEF Agreement, Agree, TypeOK, Contents
  <2>3. window' \in [G -> SUBSET (Values \cup {Absent})]
    BY <1>6, <2>2 DEF StorageStep, MapTypeOK
  <2>4. MapTypeOK'
    BY <1>6, <2>1, <2>3 DEF StorageStep, MapTypeOK
  <2>. QED  BY <1>6, <2>4, EffectAgreement
<1>7. CASE UNCHANGED vars
  BY <1>7 DEF vars, MapTypeOK, TypeOK, Agreement, Agree, FirstCall, LoadsFirst
<1>. QED
  BY <1>1, <1>2, <1>3, <1>4, <1>5, <1>6, <1>7 DEF MapNext, MapStep

\* The map starts in the invariant.
LEMMA MapInvInit == MapInit => MapInv
<1>1. NoResult \in Results /\ NoResult \in MapResults
  BY ResultType DEF MapResults
<1>2. MapInit => TypeOK
  BY <1>1 DEF MapInit, Init, TypeOK, Phases
<1>3. MapInit => MapTypeOK
  <2>. SUFFICES ASSUME MapInit PROVE MapTypeOK
    OBVIOUS
  <2>1. mcall \in [G -> (UNION {MapCalls(h) : h \in G}) \cup {NoCall}]
    BY DEF MapInit
  <2>2. mres \in [G -> MapResults]
    BY <1>1 DEF MapInit
  <2>3. window \in [G -> SUBSET (Values \cup {Absent})]
    BY DEF MapInit
  <2>4. mpc \in [G -> {"idle", "first", "between", "last", "done"}]
    BY DEF MapInit
  <2>5. allowOverwrite \in BOOLEAN
    BY DEF MapInit
  <2>. QED  BY <1>2, <2>1, <2>2, <2>3, <2>4, <2>5 DEF MapTypeOK
<1>4. MapInit => Agreement
  BY DEF MapInit, Init, Agreement, Agree
<1>. QED  BY <1>3, <1>4 DEF MapInv

\* The map is type correct, and so are the calls it makes on its storage.
THEOREM MapTypeCorrect == MapSpec => []MapTypeOK
<1>1. MapInit => MapInv
  BY MapInvInit
<1>2. MapInv => MapTypeOK
  BY DEF MapInv
<1>. QED  BY <1>1, <1>2, MapInvStep, PTL DEF MapSpec

-----------------------------------------------------------------------------
\* What the history of a call knows.  The key's present value is in it, so is
\* what the storage's Load answered and what the method will return of it; a
\* Store that goes on to insert has seen the key absent.
Witnessed(g) ==
    (mpc[g] # "idle" /\ mcall[g].op \in KeyOps) =>
        /\ contents[mcall[g].key] \in window[g]
        /\ (mpc[g] = "first" /\ phase[g] = "done" /\ call[g].op = "Load") =>
               res[g].val \in window[g]
        /\ (mpc[g] # "first" /\ mcall[g].op \in {"Load", "Pop"}) => mres[g].val \in window[g]
        /\ (mpc[g] # "first" /\ mcall[g].op = "Has") =>
               \E v \in window[g] : mres[g] = HasResult(v # Absent)
        /\ (mpc[g] \in {"between", "last"} /\ mcall[g].op = "Store") => Absent \in window[g]

WindowInv == \A g \in G : Witnessed(g)

\* A step of the storage changes a key only while the calls that concern the
\* key watch, and a Load answers with a value that is being watched.
LEMMA WindowStorageStep ==
    ASSUME MapInv, WindowInv, NEW g \in G, StorageStep(g)
    PROVE  WindowInv'
<1>1. EffectShape(g) /\ UNCHANGED <<allowOverwrite, mpc, mcall, mres>>
  BY EffectFrame DEF StorageStep, MapInv, MapTypeOK
<1>. SUFFICES ASSUME NEW h \in G, mpc[h] # "idle", mcall[h].op \in KeyOps
              PROVE  Witnessed(h)'
  BY <1>1 DEF WindowInv, Witnessed
<1>2. window'[h] = window[h] \cup {contents'[mcall[h].key]}
  BY DEF StorageStep
<1>3. CASE h # g
  BY <1>1, <1>2, <1>3 DEF WindowInv, Witnessed, EffectShape
<1>4. CASE h = g
  <2>1. ASSUME mpc[g] = "first", call[g].op = "Load"
        PROVE  res'[g].val \in window'[g]
    <3>1. phase[g] = "pending"
      BY <1>1, <2>1 DEF EffectShape, MapInv, Agreement, Agree
    <3>2. call[g].key = mcall[g].key
      <4>1. call[g] = FirstCall(mcall[g])
        BY <1>4, <2>1 DEF MapInv, Agreement, Agree
      <4>. QED  BY <4>1 DEF FirstCall
    <3>3. res'[g].val = contents[mcall[g].key]
      BY <1>1, <2>1, <3>1, <3>2 DEF EffectShape, LoadResult
    <3>. QED  BY <1>2, <1>4, <3>3 DEF WindowInv, Witnessed
  <2>2. call'[g].op = call[g].op
    BY <1>1 DEF EffectShape
  <2>. QED  BY <1>1, <1>2, <1>4, <2>1, <2>2 DEF WindowInv, Witnessed
<1>. QED  BY <1>3, <1>4

\* The other steps of a method hand on what the storage answered.
LEMMA WindowStep ==
    ASSUME MapInv, WindowInv, [MapNext]_vars
    PROVE  WindowInv'
<1>. USE DEF WindowInv, MapInv, MapTypeOK, TypeOK
<1>1. ASSUME NEW g \in G, NEW m \in MapCalls(g), MapInvoke(g, m) PROVE WindowInv'
  BY <1>1 DEF MapInvoke, Invoke, Witnessed
<1>2. ASSUME NEW g \in G, FirstReturns(g) PROVE WindowInv'
  <2>1. ASSUME NEW h \in G, h # g PROVE Witnessed(h)'
    BY <1>2, <2>1 DEF FirstReturns, Return, Witnessed
  <2>2. Witnessed(g)'
    <3>. SUFFICES ASSUME mcall[g].op \in KeyOps PROVE Witnessed(g)'
      BY <1>2 DEF FirstReturns, Witnessed
    <3>1. /\ mpc[g] = "first" /\ phase[g] = "done"
          /\ mpc'[g] = IF CallsAgain(mcall[g], res[g]) THEN "between" ELSE "done"
          /\ mres'[g] = ResultOf(mcall[g], res[g])
          /\ UNCHANGED <<contents, mcall, window>>
      BY <1>2 DEF FirstReturns, Return
    <3>2. contents[mcall[g].key] \in window[g]
      BY <3>1 DEF Witnessed
    <3>3. LoadsFirst(mcall[g]) \/ mcall[g].op = "Load" => res[g].val \in window[g]
      BY <3>1 DEF Witnessed, Agreement, Agree, FirstCall, LoadsFirst
    <3>4. mcall[g].op \in {"Load", "Pop"} => mres'[g].val \in window[g]
      BY <3>1, <3>3 DEF ResultOf, LoadsFirst
    <3>5. mcall[g].op = "Has" => mres'[g] = HasResult(res[g].val # Absent)
      BY <3>1 DEF ResultOf
    <3>6. (mpc'[g] = "between" /\ mcall[g].op = "Store") => Absent \in window[g]
      BY <3>1, <3>3 DEF CallsAgain, LoadsFirst
    <3>. QED  BY <3>1, <3>2, <3>3, <3>4, <3>5, <3>6 DEF Witnessed, LoadsFirst
  <2>. QED  BY <2>1, <2>2
<1>3. ASSUME NEW g \in G, CallAgain(g) PROVE WindowInv'
  BY <1>3 DEF CallAgain, Invoke, Witnessed
<1>4. ASSUME NEW g \in G, SecondReturns(g) PROVE WindowInv'
  BY <1>4 DEF SecondReturns, Return, Witnessed
<1>5. ASSUME NEW g \in G, MapReturn(g) PROVE WindowInv'
  BY <1>5 DEF MapReturn, cvars, Witnessed
<1>6. ASSUME NEW g \in G, StorageStep(g) PROVE WindowInv'
  BY <1>6, WindowStorageStep
<1>7. CASE UNCHANGED vars
  BY <1>7 DEF vars, Witnessed
<1>. QED
  BY <1>1, <1>2, <1>3, <1>4, <1>5, <1>6, <1>7 DEF MapNext, MapStep

\* The history of no call has been begun at the start.
LEMMA WindowInit == MapInit => WindowInv
BY DEF MapInit, WindowInv, Witnessed

\* What Load, Has and Pop of mightymap.go return was true of the key at some
\* moment of the call: on every storage, whatever the other goroutines do.
THEOREM MethodResultsTrue == MapSpec => []ResultsTrueDuringCall
<1>1. ASSUME WindowInv PROVE ResultsTrueDuringCall
  <2>. SUFFICES ASSUME NEW g \in G, mpc[g] = "done"
                PROVE  /\ mcall[g].op \in {"Load", "Pop"} => mres[g].val \in window[g]
                       /\ mcall[g].op = "Has" => IF mres[g].ok THEN window[g] # {Absent}
                                                               ELSE Absent \in window[g]
    BY DEF ResultsTrueDuringCall
  <2>1. mcall[g].op \in {"Load", "Pop"} => mres[g].val \in window[g]
    BY <1>1 DEF WindowInv, Witnessed, KeyOps
  <2>2. mcall[g].op = "Has" => \E v \in window[g] : mres[g] = HasResult(v # Absent)
    BY <1>1 DEF WindowInv, Witnessed, KeyOps
  <2>3. ASSUME NEW v \in window[g], mres[g] = HasResult(v # Absent)
        PROVE  IF mres[g].ok THEN window[g] # {Absent} ELSE Absent \in window[g]
    <3>1. mres[g].ok = (v # Absent)
      BY <2>3 DEF HasResult
    <3>. QED  BY <2>3, <3>1
  <2>. QED  BY <2>1, <2>2, <2>3
<1>2. MapInit => MapInv /\ WindowInv
  BY MapInvInit, WindowInit
<1>3. MapInv /\ WindowInv /\ [MapNext]_vars => (MapInv /\ WindowInv)'
  BY MapInvStep, WindowStep
<1>. QED  BY <1>1, <1>2, <1>3, PTL DEF MapSpec

\* A Store that may not overwrite writes only if its own Load, or a change by
\* somebody else during the call, has shown it that the key was absent.
THEOREM InsertsWhatWasAbsent == MapSpec => InsertOnlyIfSeenAbsent
<1>1. ASSUME MapInv, WindowInv, NEW g \in G, Store(g), ~allowOverwrite
      PROVE  Absent \in window[g]
  <2>1. phase[g] = "pending" /\ call[g].op = "Store"
    BY <1>1 DEF Store, Perform
  <2>2. call[g] = mcall[g] /\ mpc[g] \in {"first", "last"}
    BY <1>1, <2>1 DEF MapInv, Agreement, Agree, MapTypeOK
  <2>3. mpc[g] # "first"
    <3>1. FirstCall(mcall[g]).op = "Load"
      BY <1>1, <2>1, <2>2 DEF FirstCall, LoadsFirst
    <3>2. mpc[g] = "first" => call[g] = FirstCall(mcall[g])
      BY <1>1, <2>1, <2>2 DEF MapInv, Agreement, Agree, KeyOps
    <3>. QED  BY <2>1, <3>1, <3>2
  <2>. QED  BY <1>1, <2>1, <2>2, <2>3 DEF WindowInv, Witnessed, KeyOps
<1>2. MapInit => MapInv /\ WindowInv
  BY MapInvInit, WindowInit
<1>3. MapInv /\ WindowInv /\ [MapNext]_vars => (MapInv /\ WindowInv)'
  BY MapInvStep, WindowStep
<1>4. MapInv /\ WindowInv /\ [MapNext]_vars =>
        [\A g \in G : (Store(g) /\ ~allowOverwrite) => Absent \in window[g]]_vars
  BY <1>1
<1>. QED  BY <1>2, <1>3, <1>4, PTL DEF MapSpec, InsertOnlyIfSeenAbsent

-----------------------------------------------------------------------------
\* No key is named in the calls of two goroutines.
KeysPrivate == \A g, h \in G : g # h => Owned[g] \cap Owned[h] = {}

\* g is going to insert: Load found the key absent and Store has not yet
\* taken effect.
Inserting(g) ==
    /\ ~allowOverwrite /\ mpc[g] # "idle" /\ mcall[g].op = "Store"
    /\ \/ mpc[g] = "first" /\ phase[g] = "done" /\ res[g].val = Absent
       \/ mpc[g] = "between"
       \/ mpc[g] = "last" /\ phase[g] = "pending"

\* What Load found is still so when Store acts on it.
StillAbsent == \A g \in G : Inserting(g) => contents[mcall[g].key] = Absent

\* No step of the map makes a key present that somebody found absent, if only
\* its owner names it.
LEMMA StillAbsentStep ==
    ASSUME KeysPrivate, MapInv, MapInv', StillAbsent, [MapNext]_vars
    PROVE  StillAbsent'
<1>1. ASSUME NEW g \in G, NEW m \in MapCalls(g), MapInvoke(g, m) PROVE StillAbsent'
  BY <1>1 DEF MapInvoke, Invoke, MapInv, MapTypeOK, TypeOK, StillAbsent, Inserting
<1>2. ASSUME NEW g \in G, FirstReturns(g) PROVE StillAbsent'
  BY <1>2 DEF FirstReturns, Return, CallsAgain, MapInv, MapTypeOK, TypeOK,
              StillAbsent, Inserting
<1>3. ASSUME NEW g \in G, CallAgain(g) PROVE StillAbsent'
  BY <1>3 DEF CallAgain, Invoke, MapInv, MapTypeOK, TypeOK, StillAbsent, Inserting
<1>4. ASSUME NEW g \in G, SecondReturns(g) PROVE StillAbsent'
  BY <1>4 DEF SecondReturns, Return, MapInv, MapTypeOK, TypeOK, StillAbsent, Inserting
<1>5. ASSUME NEW g \in G, MapReturn(g) PROVE StillAbsent'
  BY <1>5 DEF MapReturn, cvars, MapInv, MapTypeOK, TypeOK, StillAbsent, Inserting
<1>6. ASSUME NEW g \in G, StorageStep(g) PROVE StillAbsent'
  <2>. SUFFICES ASSUME NEW h \in G, Inserting(h)'
                PROVE  contents'[mcall'[h].key] = Absent
    BY DEF StillAbsent
  <2>1. EffectShape(g) /\ UNCHANGED <<allowOverwrite, mpc, mcall>>
    BY <1>6, EffectFrame DEF StorageStep, MapInv, MapTypeOK
  <2>2. mcall[h] \in MapCalls(h) /\ mcall[h].op = "Store" /\ ~allowOverwrite
    BY <2>1 DEF Inserting, MapInv, Agreement, Agree
  <2>3. mcall[h].key \in Owned[h] /\ mcall[h].key \in Keys
    BY <2>2, MapCallType DEF KeyOps
  <2>4. CASE h # g
    <3>1. Inserting(h)
      BY <2>1, <2>4 DEF Inserting, EffectShape
    <3>2. contents[mcall[h].key] = Absent
      BY <3>1 DEF StillAbsent
    <3>3. CASE call[g].op = "Store" /\ phase[g] = "pending"
      <4>1. call[g] = mcall[g] /\ mpc[g] # "idle"
        BY <3>3 DEF MapInv, Agreement, Agree, MapTypeOK
      <4>2. call[g].key \in Owned[g]
        BY <3>3, <4>1, MapCallType DEF KeyOps, MapInv, Agreement, Agree
      <4>3. mcall[h].key # call[g].key
        BY <2>3, <2>4, <4>2 DEF KeysPrivate
      <4>. QED  BY <2>1, <2>3, <3>2, <4>3 DEF EffectShape
    <3>. QED  BY <2>1, <2>3, <3>2, <3>3 DEF EffectShape
  <2>5. CASE h = g /\ mpc[g] = "first"
    <3>1. call[g] = [op |-> "Load", key |-> mcall[g].key]
      BY <2>2, <2>5 DEF MapInv, Agreement, Agree, FirstCall, LoadsFirst, KeyOps
    <3>3. phase[g] = "pending"
      BY <2>1, <3>1 DEF EffectShape, MapInv, Agreement, Agree
    <3>4. res'[g] = LoadResult(contents[mcall[g].key]) /\ contents' = contents
      BY <2>1, <3>1, <3>3 DEF EffectShape
    <3>5. res'[g].val = Absent
      BY <2>1, <2>5 DEF Inserting
    <3>. QED  BY <2>1, <2>5, <3>4, <3>5 DEF LoadResult
  <2>6. CASE h = g /\ mpc[g] # "first"
    <3>1. mpc[g] = "last" /\ phase'[g] = "pending"
      BY <2>1, <2>6 DEF Inserting, MapInv, Agreement, Agree, EffectShape
    <3>2. call[g].op = "Delete"
      BY <2>1, <3>1 DEF EffectShape
    <3>. QED  BY <2>1, <2>2, <2>6, <3>1, <3>2 DEF MapInv, Agreement, Agree
  <2>. QED  BY <2>4, <2>5, <2>6
<1>7. CASE UNCHANGED vars
  BY <1>7 DEF vars, StillAbsent, Inserting
<1>. QED
  BY <1>1, <1>2, <1>3, <1>4, <1>5, <1>6, <1>7 DEF MapNext, MapStep

\* With StillAbsent, a Store that takes effect finds its key absent.
LEMMA NoOverwriteStep ==
    ASSUME MapInv, StillAbsent, [MapNext]_vars, ~allowOverwrite,
           NEW k \in Keys, contents[k] # Absent
    PROVE  contents'[k] \in {contents[k], Absent}
<1>1. ASSUME NEW g \in G, StorageStep(g) PROVE contents'[k] \in {contents[k], Absent}
  <2>1. EffectShape(g)
    BY <1>1, EffectFrame DEF StorageStep, MapInv, MapTypeOK
  <2>2. CASE call[g].op = "Store" /\ phase[g] = "pending" /\ k = call[g].key
    <3>1. call[g] = mcall[g] /\ mpc[g] \in {"first", "last"}
      BY <2>2 DEF MapInv, Agreement, Agree, MapTypeOK
    <3>2. mpc[g] = "last"
      <4>1. FirstCall(mcall[g]).op = "Load"
        BY <2>2, <3>1 DEF FirstCall, LoadsFirst
      <4>2. mpc[g] = "first" => call[g] = FirstCall(mcall[g])
        BY <2>2, <3>1 DEF MapInv, Agreement, Agree, KeyOps
      <4>. QED  BY <2>2, <3>1, <4>1, <4>2
    <3>3. Inserting(g)
      BY <2>2, <3>1, <3>2 DEF Inserting
    <3>. QED  BY <2>2, <3>1, <3>3 DEF StillAbsent
  <2>. QED  BY <2>1, <2>2 DEF EffectShape
<1>2. ASSUME NEW g \in G, NEW m \in MapCalls(g), MapInvoke(g, m) PROVE UNCHANGED contents
  BY <1>2 DEF MapInvoke, Invoke
<1>3. ASSUME NEW g \in G, FirstReturns(g) \/ SecondReturns(g) PROVE UNCHANGED contents
  BY <1>3 DEF FirstReturns, SecondReturns, Return
<1>4. ASSUME NEW g \in G, CallAgain(g) \/ MapReturn(g) PROVE UNCHANGED contents
  BY <1>4 DEF CallAgain, Invoke, MapReturn, cvars
<1>5. CASE UNCHANGED vars
  BY <1>5 DEF vars
<1>. QED  BY <1>1, <1>2, <1>3, <1>4, <1>5 DEF MapNext, MapStep

\* Store's promise of mightymap.go, "If allowOverwrite is false, it will only
\* insert if the key doesn't exist", holds on every storage and with every
\* number of goroutines, if no two of them name the same key, whatever Next,
\* Clear and Range do in between.
THEOREM PrivateKeysNotOverwritten ==
    ASSUME KeysPrivate
    PROVE  MapSpec => NoOverwrite
<1>1. MapInit => MapInv /\ StillAbsent
  BY MapInvInit DEF MapInit, StillAbsent, Inserting
<1>2. MapInv /\ StillAbsent /\ [MapNext]_vars => (MapInv /\ StillAbsent)'
  BY MapInvStep, StillAbsentStep
<1>3. MapInv /\ StillAbsent /\ [MapNext]_vars =>
        [~allowOverwrite => \A k \in Keys :
             contents[k] # Absent => contents'[k] \in {contents[k], Absent}]_vars
  BY NoOverwriteStep
<1>. QED  BY <1>1, <1>2, <1>3, PTL DEF MapSpec, NoOverwrite

-----------------------------------------------------------------------------
\* The keys a goroutine deletes are keys it owns, and Next and Clear, which
\* touch the keys of others, are called only for the methods of their name.
Named(g) ==
    phase[g] # "idle" =>
        /\ call[g].op = "Delete" => call[g].keys \subseteq Owned[g]
        /\ call[g].op \in {"Next", "Clear"} => call[g].op \in MapOps

\* g is going to delete what it has found, and will return it.
Popping(g) ==
    /\ mpc[g] # "idle" /\ mcall[g].op = "Pop"
    /\ \/ mpc[g] = "first" /\ phase[g] = "done" /\ res[g].val # Absent
       \/ mpc[g] = "between"
       \/ mpc[g] = "last" /\ phase[g] = "pending"
Popped(g) == IF mpc[g] = "first" THEN res[g].val ELSE mres[g].val

\* What Load found is still there when Delete removes it.
StillThere ==
    \A g \in G : Named(g) /\ (Popping(g) => contents[mcall[g].key] = Popped(g))

\* Nobody else touches a key that somebody is popping.
LEMMA PoppedUntouched ==
    ASSUME KeysPrivate, MapOps \cap {"Next", "Clear"} = {}, MapInv, StillThere,
           NEW g \in G, StorageStep(g), NEW h \in G, h # g,
           NEW k \in Owned[h]
    PROVE  contents'[k] = contents[k]
<1>1. EffectShape(g)
  BY EffectFrame DEF StorageStep, MapInv, MapTypeOK
<1>2. k \in Keys /\ k \notin Owned[g]
  BY OwnedAreKeys DEF KeysPrivate
<1>3. phase[g] # "idle" /\ call[g].op \notin {"Clear", "Next"} /\ phase[g] # "peeked"
  BY <1>1 DEF EffectShape, StillThere, Named, MapInv, Agreement, Agree
<1>4. call[g].op = "Delete" => k \notin call[g].keys
  BY <1>2, <1>3 DEF StillThere, Named
<1>5. ASSUME call[g].op = "Store" PROVE k # call[g].key
  <2>1. call[g] = mcall[g] /\ mcall[g] \in MapCalls(g)
    BY <1>3, <1>5 DEF MapInv, Agreement, Agree
  <2>. QED  BY <1>2, <1>5, <2>1, MapCallType DEF KeyOps
<1>. QED  BY <1>1, <1>2, <1>3, <1>4, <1>5 DEF EffectShape

\* No step of the map comes between the two calls of a Pop on its key.
LEMMA StillThereStep ==
    ASSUME KeysPrivate, MapOps \cap {"Next", "Clear"} = {}, "Delete" \in Atomic,
           MapInv, StillThere, [MapNext]_vars
    PROVE  StillThere'
<1>1. ASSUME NEW g \in G, NEW m \in MapCalls(g), MapInvoke(g, m) PROVE StillThere'
  <2>1. /\ FirstCall(m).op = "Delete" => FirstCall(m).keys \subseteq Owned[g]
        /\ FirstCall(m).op \in {"Next", "Clear"} => FirstCall(m).op \in MapOps
    BY <1>1 DEF MapCalls, FirstCall
  <2>. QED
    BY <1>1, <2>1 DEF MapInvoke, Invoke, MapInv, MapTypeOK, TypeOK,
                      StillThere, Named, Popping, Popped
<1>2. ASSUME NEW g \in G, FirstReturns(g) PROVE StillThere'
  <2>1. mcall[g].op = "Pop" => ResultOf(mcall[g], res[g]) = res[g]
    BY DEF ResultOf
  <2>. QED
    BY <1>2, <2>1 DEF FirstReturns, Return, CallsAgain, MapInv, MapTypeOK, TypeOK,
                      StillThere, Named, Popping, Popped
<1>3. ASSUME NEW g \in G, CallAgain(g) PROVE StillThere'
  <2>1. mcall[g] \in MapCalls(g) /\ mcall[g].op \in {"Store", "Pop"}
    BY <1>3 DEF CallAgain, MapInv, Agreement, Agree
  <2>2. /\ SecondCall(mcall[g]).op \in {"Store", "Delete"}
        /\ SecondCall(mcall[g]).op = "Delete" => SecondCall(mcall[g]).keys \subseteq Owned[g]
    BY <2>1, MapCallType DEF SecondCall, KeyOps
  <2>. QED
    BY <1>3, <2>2 DEF CallAgain, Invoke, MapInv, MapTypeOK, TypeOK,
                      StillThere, Named, Popping, Popped
<1>4. ASSUME NEW g \in G, SecondReturns(g) PROVE StillThere'
  BY <1>4 DEF SecondReturns, Return, MapInv, MapTypeOK, TypeOK,
              StillThere, Named, Popping, Popped
<1>5. ASSUME NEW g \in G, MapReturn(g) PROVE StillThere'
  BY <1>5 DEF MapReturn, cvars, MapInv, MapTypeOK, TypeOK,
              StillThere, Named, Popping, Popped
<1>6. ASSUME NEW g \in G, StorageStep(g) PROVE StillThere'
  <2>1. EffectShape(g) /\ UNCHANGED <<allowOverwrite, mpc, mcall, mres>>
    BY <1>6, EffectFrame DEF StorageStep, MapInv, MapTypeOK
  <2>2. ASSUME NEW h \in G PROVE Named(h)'
    BY <2>1, <2>2 DEF EffectShape, StillThere, Named
  <2>3. ASSUME NEW h \in G, h # g, Popping(h)'
        PROVE  contents'[mcall'[h].key] = Popped(h)'
    <3>1. Popping(h) /\ Popped(h)' = Popped(h)
      BY <2>1, <2>3 DEF EffectShape, Popping, Popped
    <3>2. mcall[h] \in MapCalls(h) /\ mcall[h].op = "Pop"
      BY <3>1 DEF Popping, MapInv, Agreement, Agree
    <3>3. mcall[h].key \in Owned[h]
      BY <3>2, MapCallType DEF KeyOps
    <3>. QED  BY <1>6, <2>1, <2>3, <3>1, <3>3, PoppedUntouched DEF StillThere
  <2>4. ASSUME Popping(g)' PROVE contents'[mcall'[g].key] = Popped(g)'
    <3>1. mpc[g] = "first"
      BY <2>1, <2>4 DEF Popping, EffectShape, MapInv, Agreement, Agree
    <3>2. call[g] = [op |-> "Load", key |-> mcall[g].key]
      BY <2>1, <2>4, <3>1 DEF Popping, MapInv, Agreement, Agree, FirstCall, LoadsFirst, KeyOps
    <3>3. phase[g] = "pending"
      BY <2>1, <3>2 DEF EffectShape, MapInv, Agreement, Agree
    <3>4. res'[g] = LoadResult(contents[mcall[g].key]) /\ contents' = contents
      BY <2>1, <3>2, <3>3 DEF EffectShape
    <3>. QED  BY <2>1, <3>1, <3>4 DEF Popped, LoadResult
  <2>. QED  BY <2>2, <2>3, <2>4 DEF StillThere
<1>7. CASE UNCHANGED vars
  BY <1>7 DEF vars, StillThere, Named, Popping, Popped
<1>. QED
  BY <1>1, <1>2, <1>3, <1>4, <1>5, <1>6, <1>7 DEF MapNext, MapStep

\* "Pop retrieves and removes a value from the map": what it removes is what
\* it returns, for any number of goroutines with keys of their own, if none
\* of them uses Next or Clear and the storage removes a key in one step.
THEOREM PopTakesWhatItFound ==
    ASSUME KeysPrivate, MapOps \cap {"Next", "Clear"} = {}, "Delete" \in Atomic
    PROVE  MapSpec => PopRemovesWhatItReturns
<1>1. MapInit => MapInv /\ StillThere
  BY MapInvInit DEF MapInit, Init, StillThere, Named, Popping
<1>2. MapInv /\ StillThere /\ [MapNext]_vars => (MapInv /\ StillThere)'
  BY MapInvStep, StillThereStep
<1>3. ASSUME MapInv, StillThere, NEW g \in G, Delete(g), mcall[g].op = "Pop"
      PROVE  contents[mcall[g].key] = mres[g].val
  <2>1. phase[g] = "pending" /\ call[g].op = "Delete"
    BY <1>3 DEF Delete, Perform
  <2>2. mpc[g] = "last"
    <3>1. mpc[g] \in {"first", "last"}
      BY <1>3, <2>1 DEF MapInv, Agreement, Agree, MapTypeOK
    <3>2. mpc[g] = "first" => call[g] = FirstCall(mcall[g])
      BY <1>3 DEF MapInv, Agreement, Agree, KeyOps
    <3>3. FirstCall(mcall[g]).op = "Load"
      BY <1>3 DEF FirstCall, LoadsFirst
    <3>. QED  BY <2>1, <3>1, <3>2, <3>3
  <2>. QED  BY <1>3, <2>1, <2>2 DEF StillThere, Popping, Popped
<1>4. MapInv /\ StillThere /\ [MapNext]_vars =>
        [\A g \in G : (Delete(g) /\ mcall[g].op = "Pop") =>
             contents[mcall[g].key] = mres[g].val]_vars
  BY <1>3
<1>. QED  BY <1>1, <1>2, <1>4, PTL DEF MapSpec, PopRemovesWhatItReturns

-----------------------------------------------------------------------------
\* The map implements AtomicMap.

\* The ideal map is about the same contents, calls and results.
LEMMA IdealWords ==
    /\ Ideal!Contents = Contents /\ Ideal!NoCall = NoCall /\ Ideal!NoResult = NoResult
    /\ Ideal!Pending = Pending
    /\ \A g : Ideal!MapCalls(g) = MapCalls(g)
    /\ \A d : Ideal!Present(d) = Present(d) /\ Ideal!Pairs(d) = Pairs(d)
    /\ \A d, k, v : Ideal!Put(d, k, v) = Put(d, k, v)
    /\ \A d, S : Ideal!Remove(d, S) = Remove(d, S)
    /\ \A v : Ideal!LoadResult(v) = LoadResult(v) /\ Ideal!HasResult(v) = HasResult(v)
    /\ \A v : Ideal!KeysResult(v) = KeysResult(v) /\ Ideal!LenResult(v) = LenResult(v)
    /\ \A P : Ideal!Snapshot(P) = Snapshot(P)
    /\ \A P, b : Ideal!RangeResult(P, b) = RangeResult(P, b)
    /\ \A S : Ideal!Cardinality(S) = Cardinality(S)
BY DEF Ideal!Contents, Contents, Ideal!NoCall, NoCall, Ideal!NoResult, NoResult,
       Ideal!Pending, Pending, Ideal!MapCalls, MapCalls, Ideal!Present, Present,
       Ideal!Pairs, Pairs, Ideal!Put, Put, Ideal!Remove, Remove,
       Ideal!LoadResult, LoadResult, Ideal!HasResult, HasResult,
       Ideal!KeysResult, KeysResult, Ideal!LenResult, LenResult,
       Ideal!Snapshot, Snapshot, Ideal!RangeResult, RangeResult,
       Ideal!Cardinality, Cardinality

\* Where a method is: the storage is working on the first or the second call
\* of the method, whose results have the shape of the operation, and what Pop
\* has found and Store will say is kept from the first call to the second.
Underway(g) ==
    /\ mpc[g] = "idle" => mcall[g] = NoCall
    /\ mpc[g] \in {"first", "last"} => phase[g] # "idle"
    /\ mpc[g] = "first" => call[g] = FirstCall(mcall[g])
    /\ mpc[g] = "last" => call[g] = SecondCall(mcall[g])
    /\ phase[g] = "ranging" => res[g] = RangeResult(res[g].pairs, FALSE)
    /\ (phase[g] = "done" /\ call[g].op = "Load") => res[g] = LoadResult(res[g].val)
    /\ mpc[g] \in {"between", "last"} =>
           \/ mcall[g].op = "Pop" /\ mres[g] = LoadResult(mres[g].val)
           \/ mcall[g].op = "Store" /\ ~allowOverwrite /\ mres[g] = NoResult

MethodsUnderway == \A g \in G : Underway(g)

\* The effect of a pending call, and of a Range that has its snapshot, when
\* the storage deletes in one step and nobody uses Next and Clear.
EffectOf(g) ==
    LET c == call[g]
        Gives(after, r) == contents' = after /\ phase'[g] = "done" /\ res'[g] = r
    IN  \/ c.op = "Load" /\ Gives(contents, LoadResult(contents[c.key]))
        \/ c.op = "Store" /\ Gives(Put(contents, c.key, c.val), NoResult)
        \/ c.op = "Delete" /\ Gives(Remove(contents, c.keys), NoResult)
        \/ c.op = "Close" /\ Gives(contents, NoResult)
        \/ c.op = "Keys" /\ Gives(contents, KeysResult(Present(contents)))
        \/ c.op = "Len" /\ Gives(contents, LenResult(Cardinality(Present(contents))))
        \/ /\ c.op = "Range" /\ contents' = contents /\ phase'[g] = "ranging"
           /\ res'[g] = RangeResult(Pairs(contents), FALSE)

\* A step of the storage is of this form.
LEMMA EffectCases ==
    ASSUME MapOps \cap {"Next", "Clear"} = {}, "Delete" \in Atomic,
           MapInv, StillThere, NEW g \in G, Effect(g)
    PROVE  /\ call' = call
           /\ \/ phase[g] = "pending" /\ EffectOf(g)
              \/ /\ phase[g] = "ranging" /\ phase'[g] = "done" /\ contents' = contents
                 /\ \/ res'[g] = res[g]
                    \/ \E P \in (SUBSET res[g].pairs) \ {{}} : res'[g] = RangeResult(P, TRUE)
<1>. USE DEF MapInv, MapTypeOK, TypeOK
<1>1. EffectShape(g)
  BY EffectFrame
<1>2. call[g].op \notin {"Next", "Clear"} /\ phase[g] # "peeked"
  BY <1>1 DEF EffectShape, StillThere, Named, Agreement, Agree
<1>3. CASE Load(g) \/ Store(g) \/ Close(g) \/ KeysOf(g)
  BY <1>3 DEF Load, Store, Close, KeysOf, Perform, EffectOf
<1>4. CASE Delete(g) \/ LenOf(g)
  BY <1>4 DEF Delete, LenOf, Perform, EffectOf
<1>5. CASE RangeSnapshot(g)
  BY <1>5 DEF RangeSnapshot, EffectOf
<1>6. CASE RangeDone(g)
  BY <1>6 DEF RangeDone
<1>7. ~Clear(g) /\ ~NextItem(g) /\ ~NextPeek(g) /\ ~NextDelete(g) /\ ~DeleteKey(g)
  BY <1>2 DEF Clear, NextItem, NextPeek, NextDelete, DeleteKey, Perform
<1>. QED  BY <1>3, <1>4, <1>5, <1>6, <1>7 DEF Effect

\* Every step of the map keeps the methods underway.
LEMMA UnderwayStep ==
    ASSUME MapOps \cap {"Next", "Clear"} = {}, "Delete" \in Atomic,
           MapInv, StillThere, MethodsUnderway, [MapNext]_vars
    PROVE  MethodsUnderway'
<1>. USE DEF MethodsUnderway, MapInv, MapTypeOK, TypeOK
<1>0. ASSUME NEW h \in G, mpc'[h] = mpc[h], mcall'[h] = mcall[h], mres'[h] = mres[h],
             phase'[h] = phase[h], call'[h] = call[h], res'[h] = res[h],
             UNCHANGED allowOverwrite
      PROVE  Underway(h)'
  BY <1>0 DEF Underway, FirstCall, SecondCall, LoadsFirst
<1>1. ASSUME NEW g \in G, NEW m \in MapCalls(g), MapInvoke(g, m) PROVE MethodsUnderway'
  <2>1. ASSUME NEW h \in G, h # g PROVE Underway(h)'
    BY <1>0, <1>1, <2>1 DEF MapInvoke, Invoke
  <2>2. Underway(g)'
    BY <1>1 DEF MapInvoke, Invoke, Underway, FirstCall, LoadsFirst
  <2>. QED  BY <2>1, <2>2
<1>2. ASSUME NEW g \in G, FirstReturns(g) PROVE MethodsUnderway'
  <2>1. ASSUME NEW h \in G, h # g PROVE Underway(h)'
    BY <1>0, <1>2, <2>1 DEF FirstReturns, Return
  <2>2. /\ mpc[g] = "first" /\ phase[g] = "done" /\ phase'[g] = "idle"
        /\ mpc'[g] = IF CallsAgain(mcall[g], res[g]) THEN "between" ELSE "done"
        /\ mres'[g] = ResultOf(mcall[g], res[g])
        /\ UNCHANGED <<allowOverwrite, mcall>>
    BY <1>2 DEF FirstReturns, Return
  <2>3. CallsAgain(mcall[g], res[g]) => res[g] = LoadResult(res[g].val)
    <3>1. CallsAgain(mcall[g], res[g]) => LoadsFirst(mcall[g])
      BY DEF CallsAgain, LoadsFirst
    <3>2. ASSUME LoadsFirst(mcall[g]) PROVE call[g].op = "Load"
      <4>1. call[g] = FirstCall(mcall[g])
        BY <2>2 DEF Underway
      <4>2. FirstCall(mcall[g]).op = "Load"
        BY <3>2 DEF FirstCall
      <4>. QED  BY <4>1, <4>2
    <3>. QED  BY <2>2, <3>1, <3>2 DEF Underway
  <2>4. Underway(g)'
    BY <2>2, <2>3 DEF Underway, CallsAgain, ResultOf
  <2>. QED  BY <2>1, <2>4
<1>3. ASSUME NEW g \in G, CallAgain(g) PROVE MethodsUnderway'
  <2>1. ASSUME NEW h \in G, h # g PROVE Underway(h)'
    BY <1>0, <1>3, <2>1 DEF CallAgain, Invoke
  <2>2. Underway(g)'
    BY <1>3 DEF CallAgain, Invoke, Underway, SecondCall
  <2>. QED  BY <2>1, <2>2
<1>4. ASSUME NEW g \in G, SecondReturns(g) PROVE MethodsUnderway'
  <2>1. ASSUME NEW h \in G, h # g PROVE Underway(h)'
    BY <1>0, <1>4, <2>1 DEF SecondReturns, Return
  <2>2. Underway(g)'
    BY <1>4 DEF SecondReturns, Return, Underway
  <2>. QED  BY <2>1, <2>2
<1>5. ASSUME NEW g \in G, MapReturn(g) PROVE MethodsUnderway'
  <2>1. phase[g] = "idle"
    BY <1>5 DEF MapReturn, Agreement, Agree
  <2>2. ASSUME NEW h \in G, h # g PROVE Underway(h)'
    BY <1>0, <1>5, <2>2 DEF MapReturn, cvars
  <2>3. Underway(g)'
    BY <1>5, <2>1 DEF MapReturn, cvars, Underway
  <2>. QED  BY <2>2, <2>3
<1>6. ASSUME NEW g \in G, StorageStep(g) PROVE MethodsUnderway'
  <2>1. EffectShape(g) /\ UNCHANGED <<allowOverwrite, mpc, mcall, mres>>
    BY <1>6, EffectFrame DEF StorageStep
  <2>2. ASSUME NEW h \in G, h # g PROVE Underway(h)'
    BY <1>0, <2>1, <2>2 DEF EffectShape
  <2>3. /\ call'[g] = call[g]
        /\ phase'[g] = "ranging" => res'[g] = RangeResult(Pairs(contents), FALSE)
    <3>1. call' = call /\ (phase'[g] = "ranging" => EffectOf(g))
      BY <1>6, EffectCases DEF StorageStep
    <3>. QED  BY <3>1 DEF EffectOf
  <2>4. phase'[g] = "ranging" => res'[g] = RangeResult(res'[g].pairs, FALSE)
    <3>1. RangeResult(Pairs(contents), FALSE).pairs = Pairs(contents)
      BY DEF RangeResult
    <3>. QED  BY <2>3, <3>1
  <2>5. call[g].op = "Load" => phase[g] = "pending"
    BY <2>1 DEF EffectShape, Agreement, Agree
  <2>6. call[g].op = "Load" => res'[g] = LoadResult(res'[g].val)
    BY <2>1, <2>5 DEF EffectShape, LoadResult
  <2>7. phase'[g] # "idle"
    BY <2>1 DEF EffectShape
  <2>8. Underway(g)'
    BY <2>1, <2>3, <2>4, <2>6, <2>7 DEF Underway, FirstCall, SecondCall, LoadsFirst
  <2>. QED  BY <2>2, <2>8
<1>7. CASE UNCHANGED vars
  BY <1>7 DEF vars, Underway, FirstCall, SecondCall, LoadsFirst
<1>. QED
  BY <1>1, <1>2, <1>3, <1>4, <1>5, <1>6, <1>7 DEF MapNext, MapStep

\* Results of the storage and of the map are neither pending nor snapshots.
LEMMA ResultIsFinal ==
    \A r \in MapResults : r # Pending /\ "snapshot" \notin DOMAIN r
BY DEF MapResults, Results, NoResult, Pending

\* Removing a key that is absent changes nothing.
LEMMA RemoveAbsent ==
    ASSUME NEW d \in Contents, NEW k \in Keys, d[k] = Absent
    PROVE  Remove(d, {k}) = d
BY DEF Remove, Contents

\* A step of the storage is the moment at which the method takes effect, the
\* end of a Range, or the first half of a Store or Pop that goes on.
LEMMA StorageStepRefines ==
    ASSUME MapOps \cap {"Next", "Clear"} = {}, "Delete" \in Atomic,
           MapInv, StillAbsent, StillThere, MethodsUnderway, NEW g \in G, StorageStep(g)
    PROVE  [Ideal!Next]_(Ideal!avars)
<1>. DEFINE m == mcall[g]
            c == call[g]
<1>1. EffectShape(g) /\ UNCHANGED <<allowOverwrite, mpc, mcall, mres>>
  BY EffectFrame DEF StorageStep, MapInv, MapTypeOK
<1>2. \A h \in G \ {g} : TakenEffect(h)' = TakenEffect(h)
  BY <1>1 DEF EffectShape, TakenEffect, CallsAgain
<1>3. absRes' = [absRes EXCEPT ![g] = TakenEffect(g)'] /\ absRes[g] = TakenEffect(g)
  BY <1>2 DEF absRes
<1>4. mpc[g] \in {"first", "last"} /\ m \in MapCalls(g) /\ Underway(g)
  BY <1>1 DEF EffectShape, MapInv, MapTypeOK, Agreement, Agree, MethodsUnderway
<1>5. (m.op \in KeyOps => m.key \in Keys) /\ contents \in Contents
  BY <1>4, MapCallType DEF MapInv, MapTypeOK, TypeOK
<1>6. ASSUME NEW op, NEW after, NEW r, m.op = op, phase[g] = "pending",
             contents' = after, TakenEffect(g)' = r
      PROVE  Ideal!Effect(g, op, after, r)
  <2>1. TakenEffect(g) = Pending
    BY <1>4, <1>6 DEF TakenEffect
  <2>. QED  BY <1>1, <1>3, <1>6, <2>1, IdealWords DEF Ideal!Effect
<1>7. ASSUME Ideal!Method(g) \/ Ideal!RangeDone(g) PROVE Ideal!Next
  BY <1>1, <1>7 DEF Ideal!Next
<1>8. ASSUME contents' = contents, TakenEffect(g)' = TakenEffect(g)
      PROVE  UNCHANGED Ideal!avars
  <2>1. absRes' = absRes
    BY <1>3, <1>8 DEF absRes
  <2>. QED  BY <1>1, <1>8, <2>1 DEF Ideal!avars
<1>9. /\ c.op = "Range" => m = c /\ mpc[g] = "first"
      /\ mpc[g] = "first" => c = FirstCall(m)
      /\ mpc[g] = "last" => c = SecondCall(m)
  <2>1. mpc[g] = "last" => SecondCall(m).op # "Range"
    BY <1>4 DEF SecondCall, Underway
  <2>2. LoadsFirst(m) => FirstCall(m).op # "Range"
    BY DEF FirstCall
  <2>3. ~LoadsFirst(m) => FirstCall(m) = m
    BY DEF FirstCall
  <2>. QED  BY <1>4, <2>1, <2>2, <2>3 DEF Underway
<1>10. /\ \/ phase[g] = "pending" /\ EffectOf(g)
          \/ /\ phase[g] = "ranging" /\ phase'[g] = "done" /\ contents' = contents
             /\ \/ res'[g] = res[g]
                \/ \E P \in (SUBSET res[g].pairs) \ {{}} : res'[g] = RangeResult(P, TRUE)
       /\ ~(phase[g] = "pending" /\ phase[g] = "ranging")
  BY EffectCases DEF StorageStep
<1>11. ASSUME phase'[g] = "done", mpc[g] = "first", ~CallsAgain(m, res'[g])
       PROVE  TakenEffect(g)' = ResultOf(m, res'[g])
  BY <1>1, <1>11 DEF TakenEffect, CallsAgain, ResultOf
<1>12. CASE phase[g] = "ranging"
  <2>1. c.op = "Range" /\ m.op = "Range" /\ mpc[g] = "first"
    BY <1>9, <1>12 DEF MapInv, Agreement, Agree
  <2>2. absRes[g] = Snapshot(res[g].pairs)
    BY <1>3, <1>12, <2>1 DEF TakenEffect
  <2>3. ~CallsAgain(m, res'[g]) /\ ResultOf(m, res'[g]) = res'[g]
    BY <2>1 DEF CallsAgain, ResultOf
  <2>4. absRes' = [absRes EXCEPT ![g] = res'[g]]
    BY <1>3, <1>10, <1>11, <1>12, <2>1, <2>3
  <2>5. res[g] = RangeResult(res[g].pairs, FALSE)
    BY <1>4, <1>12 DEF Underway
  <2>6. "snapshot" \in DOMAIN absRes[g] /\ absRes[g].snapshot = res[g].pairs
    BY <2>2 DEF Snapshot
  <2>7. \/ absRes' = [absRes EXCEPT ![g] = RangeResult(absRes[g].snapshot, FALSE)]
        \/ \E P \in (SUBSET absRes[g].snapshot) \ {{}} :
              absRes' = [absRes EXCEPT ![g] = RangeResult(P, TRUE)]
    BY <1>10, <1>12, <2>4, <2>5, <2>6
  <2>8. Ideal!RangeDone(g)
    BY <1>1, <1>10, <1>12, <2>1, <2>6, <2>7, IdealWords DEF Ideal!RangeDone
  <2>. QED  BY <1>7, <2>8
<1>13. CASE phase[g] = "pending" /\ mpc[g] = "first" /\ LoadsFirst(m)
  <2>. DEFINE v == contents[m.key]
  <2>1. c = [op |-> "Load", key |-> m.key]
    BY <1>9, <1>13 DEF FirstCall
  <2>2. contents' = contents /\ phase'[g] = "done" /\ res'[g] = LoadResult(v)
    BY <1>10, <1>13, <2>1 DEF EffectOf
  <2>3. res'[g].val = v /\ m.op \in {"Has", "Pop", "Store"} /\ m.key \in Keys
    BY <1>5, <1>13, <2>2 DEF LoadResult, LoadsFirst, KeyOps
  <2>. HIDE DEF v
  <2>4. CASE CallsAgain(m, res'[g])
    <3>1. TakenEffect(g) = Pending
      BY <1>13 DEF TakenEffect
    <3>2. TakenEffect(g)' = Pending
      BY <1>1, <1>13, <2>2, <2>4 DEF TakenEffect, CallsAgain
    <3>. QED  BY <1>8, <2>2, <3>1, <3>2
  <2>5. CASE ~CallsAgain(m, res'[g]) /\ m.op = "Has"
    <3>1. TakenEffect(g)' = HasResult(v # Absent)
      BY <1>11, <1>13, <2>2, <2>3, <2>5 DEF ResultOf
    <3>2. Ideal!Effect(g, "Has", contents, HasResult(v # Absent))
      BY <1>6, <1>13, <2>2, <2>5, <3>1
    <3>. QED  BY <1>7, <3>2, IdealWords DEF Ideal!Method, v
  <2>6. CASE ~CallsAgain(m, res'[g]) /\ m.op = "Pop"
    <3>1. v = Absent
      BY <2>3, <2>6 DEF CallsAgain
    <3>2. Remove(contents, {m.key}) = contents
      BY <1>5, <2>3, <3>1, RemoveAbsent DEF v
    <3>3. TakenEffect(g)' = LoadResult(v)
      BY <1>11, <1>13, <2>2, <2>6 DEF ResultOf
    <3>4. Ideal!Effect(g, "Pop", contents, LoadResult(v))
      BY <1>6, <1>13, <2>2, <2>6, <3>3
    <3>. QED  BY <1>7, <3>2, <3>4, IdealWords DEF Ideal!Method, v
  <2>7. CASE ~CallsAgain(m, res'[g]) /\ m.op = "Store"
    <3>1. v # Absent /\ ~allowOverwrite
      BY <1>13, <2>3, <2>7 DEF CallsAgain, LoadsFirst
    <3>2. Ideal!Stored(g) = contents
      BY <3>1 DEF Ideal!Stored, v
    <3>3. TakenEffect(g)' = NoResult
      BY <1>11, <1>13, <2>2, <2>7 DEF ResultOf
    <3>4. Ideal!Effect(g, "Store", contents, NoResult)
      BY <1>6, <1>13, <2>2, <2>7, <3>3
    <3>. QED  BY <1>7, <3>2, <3>4, IdealWords DEF Ideal!Method
  <2>. QED  BY <2>3, <2>4, <2>5, <2>6, <2>7
<1>14. CASE phase[g] = "pending" /\ mpc[g] = "first" /\ ~LoadsFirst(m)
  <2>1. c = m
    BY <1>9, <1>14 DEF FirstCall
  <2>2. ~CallsAgain(m, res'[g])
    BY <1>14 DEF LoadsFirst, CallsAgain
  <2>3. m.op # "Has" /\ (m.op = "Store" => allowOverwrite)
    BY <1>14 DEF LoadsFirst
  <2>4. phase'[g] = "done" => /\ m.op # "Store" => TakenEffect(g)' = res'[g]
                              /\ m.op = "Store" => TakenEffect(g)' = NoResult
    BY <1>11, <1>14, <2>2, <2>3 DEF ResultOf
  <2>5. EffectOf(g)
    BY <1>10, <1>14
  <2>6. CASE m.op = "Load"
    <3>1. Ideal!Effect(g, "Load", contents, LoadResult(contents[m.key]))
      BY <1>6, <1>14, <2>1, <2>4, <2>5, <2>6 DEF EffectOf
    <3>. QED  BY <1>7, <3>1, IdealWords DEF Ideal!Method
  <2>7. CASE m.op = "Store"
    <3>1. Ideal!Stored(g) = Put(contents, m.key, m.val)
      BY <2>3, <2>7, IdealWords DEF Ideal!Stored
    <3>2. Ideal!Effect(g, "Store", Put(contents, m.key, m.val), NoResult)
      BY <1>6, <1>14, <2>1, <2>4, <2>5, <2>7 DEF EffectOf
    <3>. QED  BY <1>7, <3>1, <3>2, IdealWords DEF Ideal!Method
  <2>8. CASE m.op = "Delete"
    <3>1. Ideal!Effect(g, "Delete", Remove(contents, m.keys), NoResult)
      BY <1>6, <1>14, <2>1, <2>4, <2>5, <2>8 DEF EffectOf
    <3>. QED  BY <1>7, <3>1, IdealWords DEF Ideal!Method
  <2>9. CASE m.op = "Close"
    <3>1. Ideal!Effect(g, "Close", contents, NoResult)
      BY <1>6, <1>14, <2>1, <2>4, <2>5, <2>9 DEF EffectOf
    <3>. QED  BY <1>7, <3>1, IdealWords DEF Ideal!Method
  <2>10. CASE m.op = "Keys"
    <3>1. Ideal!Effect(g, "Keys", contents, KeysResult(Present(contents)))
      BY <1>6, <1>14, <2>1, <2>4, <2>5, <2>10 DEF EffectOf
    <3>. QED  BY <1>7, <3>1, IdealWords DEF Ideal!Method
  <2>11. CASE m.op = "Len"
    <3>1. Ideal!Effect(g, "Len", contents, LenResult(Cardinality(Present(contents))))
      BY <1>6, <1>14, <2>1, <2>4, <2>5, <2>11 DEF EffectOf
    <3>. QED  BY <1>7, <3>1, IdealWords DEF Ideal!Method
  <2>12. CASE m.op = "Range"
    <3>1. contents' = contents /\ phase'[g] = "ranging" /\ res'[g].pairs = Pairs(contents)
      BY <2>1, <2>5, <2>12 DEF EffectOf, RangeResult
    <3>2. TakenEffect(g)' = Snapshot(Pairs(contents))
      BY <1>1, <1>14, <3>1 DEF TakenEffect
    <3>3. Ideal!Effect(g, "Range", contents, Snapshot(Pairs(contents)))
      BY <1>6, <1>14, <2>12, <3>1, <3>2
    <3>. QED  BY <1>7, <3>3, IdealWords DEF Ideal!Method
  <2>. QED  BY <2>1, <2>5, <2>6, <2>7, <2>8, <2>9, <2>10, <2>11, <2>12 DEF EffectOf
<1>15. CASE phase[g] = "pending" /\ mpc[g] = "last"
  <2>1. EffectOf(g) /\ c = SecondCall(m)
    BY <1>9, <1>10, <1>15
  <2>2. CASE m.op = "Pop"
    <3>1. c = [op |-> "Delete", keys |-> {m.key}]
      BY <2>1, <2>2 DEF SecondCall
    <3>2. contents' = Remove(contents, {m.key}) /\ phase'[g] = "done"
      BY <2>1, <3>1 DEF EffectOf
    <3>3. mres[g] = LoadResult(mres[g].val)
      BY <1>4, <1>15, <2>2 DEF Underway
    <3>4. contents[m.key] = mres[g].val
      BY <1>15, <2>2 DEF StillThere, Popping, Popped
    <3>5. TakenEffect(g)' = LoadResult(contents[m.key])
      BY <1>1, <1>15, <3>2, <3>3, <3>4 DEF TakenEffect
    <3>6. Ideal!Effect(g, "Pop", Remove(contents, {m.key}), LoadResult(contents[m.key]))
      BY <1>6, <1>15, <2>2, <3>2, <3>5
    <3>. QED  BY <1>7, <3>6, IdealWords DEF Ideal!Method
  <2>3. CASE m.op = "Store"
    <3>1. c = m
      BY <2>1, <2>3 DEF SecondCall
    <3>2. contents' = Put(contents, m.key, m.val) /\ phase'[g] = "done"
      BY <2>1, <2>3, <3>1 DEF EffectOf
    <3>3. ~allowOverwrite /\ mres[g] = NoResult
      BY <1>4, <1>15, <2>3 DEF Underway
    <3>4. contents[m.key] = Absent
      BY <1>15, <2>3, <3>3 DEF StillAbsent, Inserting
    <3>5. TakenEffect(g)' = NoResult
      BY <1>1, <1>15, <3>2, <3>3 DEF TakenEffect
    <3>6. Ideal!Stored(g) = Put(contents, m.key, m.val)
      BY <3>4, IdealWords DEF Ideal!Stored
    <3>7. Ideal!Effect(g, "Store", Put(contents, m.key, m.val), NoResult)
      BY <1>6, <1>15, <2>3, <3>2, <3>5
    <3>. QED  BY <1>7, <3>6, <3>7, IdealWords DEF Ideal!Method
  <2>. QED  BY <1>4, <1>15, <2>2, <2>3 DEF Underway
<1>. QED  BY <1>4, <1>10, <1>12, <1>13, <1>14, <1>15

\* A step of the map is a step of AtomicMap or changes nothing that AtomicMap
\* speaks of.
LEMMA MapStepRefines ==
    ASSUME MapOps \cap {"Next", "Clear"} = {}, "Delete" \in Atomic,
           MapInv, StillAbsent, StillThere, MethodsUnderway, [MapNext]_vars
    PROVE  [Ideal!Next]_(Ideal!avars)
<1>. USE DEF MapInv, MapTypeOK, TypeOK
<1>1. ASSUME NEW g \in G, NEW m \in MapCalls(g), MapInvoke(g, m) PROVE Ideal!Next
  <2>1. mcall[g] = NoCall
    BY <1>1 DEF MapInvoke, MethodsUnderway, Underway
  <2>2. \A h \in G \ {g} : TakenEffect(h)' = TakenEffect(h)
    BY <1>1 DEF MapInvoke, Invoke, TakenEffect, CallsAgain
  <2>3. TakenEffect(g)' = Pending
    BY <1>1 DEF MapInvoke, Invoke, TakenEffect
  <2>4. absRes' = [absRes EXCEPT ![g] = Pending]
    BY <2>2, <2>3 DEF absRes
  <2>5. Ideal!Invoke(g, m)
    BY <1>1, <2>1, <2>4, IdealWords DEF MapInvoke, Invoke, Ideal!Invoke
  <2>. QED  BY <1>1, <2>5, IdealWords DEF MapInvoke, Ideal!Next
<1>2. ASSUME NEW g \in G, MapReturn(g) PROVE Ideal!Next
  <2>1. mpc[g] = "done" /\ mcall[g] \in MapCalls(g)
    BY <1>2 DEF MapReturn, Agreement, Agree
  <2>2. mcall[g].op \in MapOpNames
    BY <2>1, MapOpsAreOps DEF MapCalls
  <2>3. mcall[g] # NoCall
    BY <2>2 DEF NoCall, MapOpNames, OpNames
  <2>4. absRes[g] = mres[g]
    BY <2>1 DEF absRes, TakenEffect
  <2>5. mres[g] \in MapResults
    OBVIOUS
  <2>6. absRes[g] # Pending /\ "snapshot" \notin DOMAIN absRes[g]
    BY <2>4, <2>5, ResultIsFinal
  <2>7. \A h \in G \ {g} : TakenEffect(h)' = TakenEffect(h)
    BY <1>2 DEF MapReturn, cvars, TakenEffect, CallsAgain
  <2>8. TakenEffect(g)' = NoResult
    BY <1>2 DEF MapReturn, TakenEffect
  <2>9. absRes' = [absRes EXCEPT ![g] = NoResult]
    BY <2>7, <2>8 DEF absRes
  <2>10. Ideal!Return(g)
    BY <1>2, <2>3, <2>6, <2>9, IdealWords DEF MapReturn, cvars, Ideal!Return
  <2>. QED  BY <1>2, <2>10 DEF MapReturn, Ideal!Next
<1>3. ASSUME NEW g \in G, FirstReturns(g) \/ CallAgain(g) \/ SecondReturns(g)
      PROVE  UNCHANGED Ideal!avars
  <2>1. \A h \in G \ {g} : TakenEffect(h)' = TakenEffect(h)
    BY <1>3 DEF FirstReturns, CallAgain, SecondReturns, Return, Invoke, TakenEffect, CallsAgain
  <2>2. TakenEffect(g)' = TakenEffect(g)
    <3>1. CASE FirstReturns(g)
      BY <3>1 DEF FirstReturns, Return, TakenEffect
    <3>2. CASE CallAgain(g)
      BY <3>2 DEF CallAgain, Invoke, TakenEffect
    <3>3. CASE SecondReturns(g)
      BY <3>3 DEF SecondReturns, Return, TakenEffect
    <3>. QED  BY <1>3, <3>1, <3>2, <3>3
  <2>3. absRes' = absRes
    BY <2>1, <2>2 DEF absRes
  <2>4. UNCHANGED <<allowOverwrite, contents, mcall>>
    BY <1>3 DEF FirstReturns, CallAgain, SecondReturns, Return, Invoke
  <2>. QED  BY <2>3, <2>4 DEF Ideal!avars
<1>4. CASE UNCHANGED vars
  <2>1. absRes' = absRes
    BY <1>4 DEF vars, absRes, TakenEffect, CallsAgain
  <2>. QED  BY <1>4, <2>1 DEF vars, Ideal!avars
<1>. QED
  BY <1>1, <1>2, <1>3, <1>4, StorageStepRefines DEF MapNext, MapStep

\* What the comments of mightymap.go say of every method: it is carried out at
\* one moment between its call and its return, with the effect and the result
\* of AtomicMap.  It holds for any number of goroutines with keys of their own
\* that do not use Next and Clear, on every storage that removes the keys of a
\* Delete in one step, with and without allowOverwrite.
THEOREM MethodsAreAtomic ==
    ASSUME KeysPrivate, MapOps \cap {"Next", "Clear"} = {}, "Delete" \in Atomic
    PROVE  MapSpec => ImplementsAtomicMap
<1>. DEFINE Inv == MapInv /\ StillAbsent /\ StillThere /\ MethodsUnderway
<1>1. MapInit => Inv
  BY MapInvInit DEF MapInit, Init, StillAbsent, Inserting, StillThere, Named, Popping,
                    MethodsUnderway, Underway
<1>2. Inv /\ [MapNext]_vars => Inv'
  BY MapInvStep, StillAbsentStep, StillThereStep, UnderwayStep
<1>3. MapInit => Ideal!Init
  <2>1. MapInit => absRes = [g \in G |-> NoResult]
    BY DEF MapInit, absRes, TakenEffect
  <2>. QED  BY <2>1, IdealWords DEF MapInit, Init, Ideal!Init
<1>4. Inv /\ [MapNext]_vars => [Ideal!Next]_(Ideal!avars)
  BY MapStepRefines
<1>. QED
  BY <1>1, <1>2, <1>3, <1>4, PTL DEF MapSpec, ImplementsAtomicMap, Ideal!Spec
=============================================================================
