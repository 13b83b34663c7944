----------------------------- MODULE MightyMap ------------------------------
(***************************************************************************)
(* mightymap.Map (mightymap.go): the methods that callers use, each made   *)
(* of one or two calls of the storage.  The storage is any implementation  *)
(* of StorageContract, so the steps of a storage call interleave with the  *)
(* calls of other goroutines exactly as far as that contract lets them.    *)
(*                                                                         *)
(* A goroutine g goes through                                              *)
(*     idle - first - done - idle                  one call of the storage *)
(*     idle - first - between - last - done - idle               two calls *)
(***************************************************************************)
EXTENDS MapInterface, StorageContract

VARIABLES
    allowOverwrite,  \* m.allowOverwrite, set by New
    mpc,     \* mpc[g]: where g is in the method of Map it is running
    mcall,   \* mcall[g]: that method and its arguments
    mres,    \* mres[g]: its result, as far as it is known
    window   \* history: the values the key of mcall[g] had during the call

vars == <<contents, phase, call, res, allowOverwrite, mpc, mcall, mres, window>>

\* The types of the state of the map.
MapTypeOK ==
    /\ TypeOK
    /\ allowOverwrite \in BOOLEAN
    /\ mpc \in [G -> {"idle", "first", "between", "last", "done"}]
    /\ mcall \in [G -> (UNION {MapCalls(g) : g \in G}) \cup {NoCall}]
    /\ mres \in [G -> MapResults]
    /\ window \in [G -> SUBSET (Values \cup {Absent})]

\* New(allowOverwrite, storage), on a storage that may already hold pairs.
MapInit ==
    /\ Init
    /\ allowOverwrite \in BOOLEAN
    /\ mpc = [g \in G |-> "idle"]
    /\ mcall = [g \in G |-> NoCall]
    /\ mres = [g \in G |-> NoResult]
    /\ window = [g \in G |-> {}]

-----------------------------------------------------------------------------
\* The methods.

KeyOps == {"Load", "Has", "Pop", "Store"}

\* Store on a map without overwriting, Has and Pop begin with storage.Load;
\* the others hand the call on.
LoadsFirst(m) == m.op \in {"Has", "Pop"} \/ (m.op = "Store" /\ ~allowOverwrite)
FirstCall(m) == IF LoadsFirst(m) THEN [op |-> "Load", key |-> m.key] ELSE m

\* Faulty variants: Store that ignores what Load found, Pop that never deletes.
CallsAgainAlways(m, r) ==
    \/ m.op = "Store" /\ ~allowOverwrite
    \/ m.op = "Pop" /\ r.val # Absent
CallsAgainNotPop(m, r) == m.op = "Store" /\ ~allowOverwrite /\ r.val = Absent

\* The second call: Store inserts a key it did not find, Pop deletes one that
\* it found.
CallsAgain(m, r) ==
    \/ m.op = "Store" /\ ~allowOverwrite /\ r.val = Absent
    \/ m.op = "Pop" /\ r.val # Absent
SecondCall(m) == IF m.op = "Pop" THEN [op |-> "Delete", keys |-> {m.key}] ELSE m

\* Faulty variants: Has that returns the value in place of ok, or the negation
\* of ok; Pop whose value is lost in a shadowed variable.
ResultOfHasValue(m, r) ==
    CASE m.op = "Has" -> HasResult(r.val)
      [] m.op = "Store" -> NoResult
      [] OTHER -> r
ResultOfHasNot(m, r) ==
    CASE m.op = "Has" -> HasResult(r.val = Absent)
      [] m.op = "Store" -> NoResult
      [] OTHER -> r
ResultOfPopShadowed(m, r) ==
    CASE m.op = "Has" -> HasResult(r.val # Absent)
      [] m.op = "Store" -> NoResult
      [] m.op = "Pop" -> LoadResult(Absent)
      [] OTHER -> r

\* What the method returns when the first call of the storage returned r.
ResultOf(m, r) ==
    CASE m.op = "Has" -> HasResult(r.val # Absent)
      [] m.op = "Store" -> NoResult
      [] OTHER -> r

MapInvoke(g, m) ==
    /\ mpc[g] = "idle"
    /\ Invoke(g, FirstCall(m))
    /\ mpc' = [mpc EXCEPT ![g] = "first"]
    /\ mcall' = [mcall EXCEPT ![g] = m]
    /\ window' = [window EXCEPT ![g] = IF m.op \in KeyOps THEN {contents[m.key]} ELSE {}]
    /\ UNCHANGED <<allowOverwrite, mres>>

FirstReturns(g) ==
    /\ mpc[g] = "first"
    /\ Return(g)
    /\ mpc' = [mpc EXCEPT ![g] = IF CallsAgain(mcall[g], res[g]) THEN "between" ELSE "done"]
    /\ mres' = [mres EXCEPT ![g] = ResultOf(mcall[g], res[g])]
    /\ UNCHANGED <<allowOverwrite, mcall, window>>

CallAgain(g) ==
    /\ mpc[g] = "between"
    /\ Invoke(g, SecondCall(mcall[g]))
    /\ mpc' = [mpc EXCEPT ![g] = "last"]
    /\ UNCHANGED <<allowOverwrite, mcall, mres, window>>

SecondReturns(g) ==
    /\ mpc[g] = "last"
    /\ Return(g)
    /\ mpc' = [mpc EXCEPT ![g] = "done"]
    /\ UNCHANGED <<allowOverwrite, mcall, mres, window>>

MapReturn(g) ==
    /\ mpc[g] = "done"
    /\ mpc' = [mpc EXCEPT ![g] = "idle"]
    /\ mcall' = [mcall EXCEPT ![g] = NoCall]
    /\ mres' = [mres EXCEPT ![g] = NoResult]
    /\ window' = [window EXCEPT ![g] = {}]
    /\ UNCHANGED <<cvars, allowOverwrite>>

\* A call of the storage takes effect; the history of every call follows.
StorageStep(g) ==
    /\ Effect(g)
    /\ window' = [h \in G |-> IF mpc[h] # "idle" /\ mcall[h].op \in KeyOps
                              THEN window[h] \cup {contents'[mcall[h].key]}
                              ELSE window[h]]
    /\ UNCHANGED <<allowOverwrite, mpc, mcall, mres>>

-----------------------------------------------------------------------------
MapStep(g) ==
    \/ FirstReturns(g) \/ CallAgain(g) \/ SecondReturns(g) \/ MapReturn(g)
    \/ StorageStep(g)

MapNext == \E g \in G : (\E m \in MapCalls(g) : MapInvoke(g, m)) \/ MapStep(g)

MapSpec == MapInit /\ [][MapNext]_vars

-----------------------------------------------------------------------------
\* Properties.

\* What Load, Has and Pop return was true of the key at some moment between
\* the call and its return, however many goroutines interfere.
ResultsTrueDuringCall ==
    \A g \in G : mpc[g] = "done" =>
        /\ mcall[g].op \in {"Load", "Pop"} => mres[g].val \in window[g]
        /\ mcall[g].op = "Has" => IF mres[g].ok THEN window[g] # {Absent}
                                                ELSE Absent \in window[g]

\* A Store that may not overwrite changes the map only if its key was absent
\* at some moment of the call: what is left of "will only insert if the key
\* doesn't exist" when the check and the write are two calls of the storage.
InsertOnlyIfSeenAbsent ==
    [][\A g \in G : (Store(g) /\ ~allowOverwrite) => Absent \in window[g]]_vars

\* "If allowOverwrite is false, it will only insert if the key doesn't exist":
\* the value of a key that is present does not change before it is removed.
NoOverwrite ==
    [][~allowOverwrite =>
         \A k \in Keys : contents[k] # Absent => contents'[k] \in {contents[k], Absent}]_vars

\* "Pop retrieves and removes a value from the map": the value Pop returns is
\* the one its Delete removes, not one that somebody else took before or a
\* newer one.
PopRemovesWhatItReturns ==
    [][\A g \in G : (Delete(g) /\ mcall[g].op = "Pop") =>
                        contents[mcall[g].key] = mres[g].val]_vars

\* The result g will get, from the moment at which its method took effect.
TakenEffect(g) ==
    CASE mpc[g] \in {"idle", "done"} -> mres[g]
      [] mpc[g] = "first" /\ phase[g] = "done" /\ ~CallsAgain(mcall[g], res[g])
             -> ResultOf(mcall[g], res[g])
      [] mpc[g] = "first" /\ phase[g] = "ranging" -> Snapshot(res[g].pairs)
      [] mpc[g] = "last" /\ phase[g] = "done" -> mres[g]
      [] OTHER -> Pending

\* When no two goroutines use the same key, the methods of Map are atomic:
\* Store and Pop take effect at their last call of the storage.
absRes == [g \in G |-> TakenEffect(g)]

Ideal == INSTANCE AtomicMap WITH mres <- absRes
ImplementsAtomicMap == Ideal!Spec
=============================================================================
