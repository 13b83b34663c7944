-------------------------- MODULE MigrationProofs ---------------------------
(***************************************************************************)
(* Proofs about Migration, for every finite set of keys and any values, of *)
(* which any may be impossible to encode, for both tools and for every     *)
(* sequence of dry runs, crashes, timeouts and complete runs.              *)
(***************************************************************************)
EXTENDS Migration, FiniteSetTheorems, FunctionTheorems, TLAPS

-----------------------------------------------------------------------------
\* The inductive invariant.

\* The key a run is busy with is a key of the source that Range will not show
\* again, and once it is to be stored it has passed the filter.  Nothing has
\* been migrated and nothing reported before there is a configuration.
PlaceInv ==
    /\ todo \subseteq Present(source) /\ cur \subseteq Present(source) \ todo
    /\ pc \in {"off", "range", "print"} => cur = {}
    /\ pc \in {"callback", "store", "select"} => \E k : cur = {k}
    /\ pc \in {"store", "select"} => \A c \in config : \A k \in cur : Matches(c, k)
    /\ pc = "store" => ~flags.dryRun
    /\ config = {} => pc = "off" /\ report = "none"
    /\ report # "none" => pc = "off"
    /\ report = "completed" => ~flags.dryRun

\* The run that is going on, or the last one if it got to its end.
InRun == pc # "off" \/ report = "completed"

\* The selected keys that this run has dealt with.
Handled(c) == {k \in Selected(c) : k \notin todo /\ (k \in cur => pc = "select")}

\* The target has the value of k, or that of a key that became the same.
Migrated(c, k) ==
    \E j \in Selected(c) : Transform(c, j) = Transform(c, k) /\ target[Transform(c, k)] = source[j]

\* The keys a run has dealt with are in the target.
ProgressInv ==
    (InRun /\ ~flags.dryRun) =>
        \A c \in config : \A k \in Handled(c) : source[k] \in Encodable => Migrated(c, k)

\* The statistics count them.
CountInv ==
    InRun => /\ \A c \in config : stats.migrated = Cardinality(Handled(c))
             /\ stats.total = stats.migrated + stats.skipped + stats.errors
                                + (IF pc \in {"callback", "store"} THEN 1 ELSE 0)

MigrationInv == TypeOK /\ PlaceInv /\ TargetFromSource /\ ProgressInv /\ CountInv

-----------------------------------------------------------------------------
\* There are finitely many keys, and a key is migrated to a key.
LEMMA KeysAreFinite == IsFiniteSet(Keys)
<1>1. IsFiniteSet({"source"} \cup {"target"} \cup {"other"})
  BY FS_Singleton, FS_Union
<1>2. IsFiniteSet(Prefixes)
  BY <1>1, Prefixes = {"source"} \cup {"target"} \cup {"other"} DEF Prefixes
<1>. QED  BY <1>2, RestsFinite, FS_Product DEF Keys

\* A migrated key is a key.
LEMMA TransformType == \A c, k : k \in Keys => Transform(c, k) \in Keys
BY DEF Transform, Keys, Prefixes

\* What has been dealt with can be counted.
LEMMA HandledFinite == \A c : IsFiniteSet(Handled(c)) /\ Cardinality(Handled(c)) \in Nat
<1>. TAKE c
<1>1. Handled(c) \subseteq Keys
  BY DEF Handled, Selected, Present
<1>. QED  BY <1>1, KeysAreFinite, FS_Subset, FS_CardinalityType

-----------------------------------------------------------------------------
\* The first run has nothing to go on.
LEMMA InitInv == Init => MigrationInv
<1>. SUFFICES ASSUME Init PROVE MigrationInv
  OBVIOUS
<1>1. TypeOK
  BY DEF Init, TypeOK, Contents, Flags, NoFlags, Stats, Zero
<1>2. PlaceInv
  BY DEF Init, PlaceInv
<1>3. TargetFromSource
  BY DEF Init, TargetFromSource, Present
<1>4. ProgressInv /\ CountInv
  BY DEF Init, ProgressInv, CountInv, InRun
<1>. QED  BY <1>1, <1>2, <1>3, <1>4 DEF MigrationInv

\* Type correctness is kept by every step, with PlaceInv.
LEMMA TypeStep ==
    ASSUME TypeOK, PlaceInv, [Next]_vars
    PROVE  TypeOK'
<1>1. CASE LoadConfig
  BY <1>1 DEF LoadConfig, TypeOK
<1>2. ASSUME NEW f \in Flags, Start(f) PROVE TypeOK'
  BY <1>2 DEF Start, TypeOK, Present, Stats, Zero
<1>3. CASE Callback
  BY <1>3 DEF Callback, TypeOK, Stats
<1>4. CASE Filter
  BY <1>4 DEF Filter, Skip, TypeOK, Stats
<1>5. CASE MigrateKeyValue
  <2>1. PICK c \in config, k \in cur : Store(c, k)
    BY <1>5 DEF MigrateKeyValue
  <2>2. Transform(c, k) \in Keys
    BY <2>1, TransformType DEF TypeOK
  <2>3. target' \in Contents
    BY <2>1, <2>2, EncodableAreValues DEF Store, TypeOK, Contents
  <2>. QED  BY <1>5, <2>3 DEF MigrateKeyValue, TypeOK, Stats
<1>6. CASE Select \/ RangeEnds \/ Printed \/ Panic
  BY <1>6 DEF Select, RangeEnds, Printed, Panic, TypeOK
<1>7. CASE Expire \/ Crash \/ UNCHANGED vars
  BY <1>7 DEF Expire, Crash, vars, TypeOK
<1>. QED  BY <1>1, <1>2, <1>3, <1>4, <1>5, <1>6, <1>7 DEF Next, RunStep

\* So are the relations between the places of a run.
LEMMA PlaceStep ==
    ASSUME TypeOK, PlaceInv, [Next]_vars
    PROVE  PlaceInv'
<1>1. CASE LoadConfig
  BY <1>1 DEF LoadConfig, PlaceInv, Present
<1>2. ASSUME NEW f \in Flags, Start(f) PROVE PlaceInv'
  BY <1>2 DEF Start, PlaceInv, Present
<1>3. CASE Callback
  BY <1>3 DEF Callback, PlaceInv, Present
<1>4. CASE Filter
  <2>1. PICK c \in config, k \in cur :
          \/ ~Matches(c, k) /\ Skip
          \/ /\ Matches(c, k) /\ flags.dryRun /\ pc' = "select" /\ UNCHANGED <<todo, cur>>
          \/ /\ Matches(c, k) /\ ~flags.dryRun /\ pc' = "store" /\ UNCHANGED <<todo, cur>>
    BY <1>4 DEF Filter
  <2>2. cur = {k} /\ config = {c}
    BY <1>4, <2>1 DEF Filter, PlaceInv, TypeOK
  <2>. QED  BY <1>4, <2>1, <2>2 DEF Filter, Skip, PlaceInv, Present, Matches
<1>5. CASE MigrateKeyValue
  BY <1>5 DEF MigrateKeyValue, PlaceInv, Present, Matches
<1>6. CASE Select \/ RangeEnds \/ Printed \/ Panic
  BY <1>6 DEF Select, RangeEnds, Printed, Panic, PlaceInv, Present, Matches
<1>7. CASE Expire \/ Crash \/ UNCHANGED vars
  BY <1>7 DEF Expire, Crash, vars, PlaceInv, Present, Matches
<1>. QED  BY <1>1, <1>2, <1>3, <1>4, <1>5, <1>6, <1>7 DEF Next, RunStep

\* What MigrateKeyValue does: the key is the one Range has shown, it has been
\* selected, and the target changes at its new key, if at all, to its value.
LEMMA StoreShape ==
    ASSUME TypeOK, PlaceInv, MigrateKeyValue
    PROVE  \E c, k :
              /\ config = {c} /\ cur = {k} /\ k \in Selected(c) /\ k \notin todo
              /\ Transform(c, k) \in Keys /\ source[k] \in Values
              /\ source[k] \in Encodable => target'[Transform(c, k)] = source[k]
              /\ \A n \in Keys : target'[n] # target[n] =>
                     n = Transform(c, k) /\ target'[n] = source[k]
<1>1. PICK c \in config, k \in cur : Store(c, k)
  BY DEF MigrateKeyValue
<1>2. config = {c} /\ cur = {k} /\ k \in Present(source) /\ k \notin todo /\ Matches(c, k)
  BY <1>1 DEF MigrateKeyValue, TypeOK, PlaceInv
<1>3. k \in Keys /\ Transform(c, k) \in Keys /\ source[k] \in Values
  BY <1>2, TransformType DEF Present, TypeOK, Contents
<1>4. /\ source[k] \in Encodable => target'[Transform(c, k)] = source[k]
      /\ \A n \in Keys : target'[n] # target[n] =>
             n = Transform(c, k) /\ target'[n] = source[k]
  BY <1>1, <1>3 DEF Store, TypeOK, Contents
<1>. QED  BY <1>2, <1>3, <1>4 DEF Selected

\* Nothing gets into the target that is not a selected pair of the source.
LEMMA TargetStep ==
    ASSUME TypeOK, PlaceInv, TargetFromSource, [Next]_vars
    PROVE  TargetFromSource'
<1>1. CASE LoadConfig
  <2>1. Present(target) = {}
    BY <1>1 DEF LoadConfig, TargetFromSource
  <2>. QED  BY <1>1, <2>1 DEF LoadConfig, TargetFromSource, Present
<1>2. CASE MigrateKeyValue
  <2>1. PICK c, k :
              /\ config = {c} /\ cur = {k} /\ k \in Selected(c)
              /\ \A n \in Keys : target'[n] # target[n] =>
                     n = Transform(c, k) /\ target'[n] = source[k]
    BY <1>2, StoreShape
  <2>2. config' = config /\ source' = source /\ \A d : Selected(d)' = Selected(d)
    BY <1>2 DEF MigrateKeyValue, Selected, Present
  <2>. SUFFICES ASSUME NEW n \in Present(target)'
                PROVE  \E j \in Selected(c) : Transform(c, j) = n /\ target'[n] = source[j]
    BY <2>1, <2>2 DEF TargetFromSource
  <2>3. CASE target'[n] = target[n]
    <3>1. n \in Present(target)
      BY <2>3 DEF Present
    <3>. QED  BY <2>1, <2>3, <3>1 DEF TargetFromSource
  <2>4. CASE target'[n] # target[n]
    BY <2>1, <2>4 DEF Present
  <2>. QED  BY <2>3, <2>4
<1>3. ASSUME UNCHANGED <<config, source, target>> PROVE TargetFromSource'
  BY <1>3 DEF TargetFromSource, Present, Selected
<1>4. ASSUME NEW f \in Flags, Start(f) PROVE UNCHANGED <<config, source, target>>
  BY <1>4 DEF Start
<1>5. Callback \/ Filter \/ Select \/ RangeEnds \/ Printed \/ Panic =>
          UNCHANGED <<config, source, target>>
  BY DEF Callback, Filter, Select, RangeEnds, Printed, Panic
<1>6. Expire \/ Crash \/ UNCHANGED vars => UNCHANGED <<config, source, target>>
  BY DEF Expire, Crash, vars
<1>. QED  BY <1>1, <1>2, <1>3, <1>4, <1>5, <1>6 DEF Next, RunStep

\* How the set of the keys that have been dealt with changes.
LEMMA HandledStep ==
    ASSUME TypeOK, PlaceInv, [Next]_vars, InRun', ~\E f \in Flags : Start(f)
    PROVE  /\ InRun /\ config' = config /\ source' = source /\ flags' = flags
           /\ \A c \in config :
                 \/ /\ Handled(c)' = Handled(c) /\ stats'.migrated = stats.migrated
                    /\ ~MigrateKeyValue
                 \/ \E k : /\ cur = {k} /\ k \notin Handled(c) /\ k \in Selected(c)
                           /\ Handled(c)' = Handled(c) \cup {k}
                           /\ stats'.migrated = stats.migrated + 1
                           /\ flags.dryRun \/ MigrateKeyValue
<1>1. CASE LoadConfig
  BY <1>1 DEF LoadConfig, InRun, PlaceInv
<1>2. CASE Callback
  <2>1. InRun /\ UNCHANGED <<config, source, flags>> /\ stats'.migrated = stats.migrated
    BY <1>2 DEF Callback, InRun, TypeOK, Stats
  <2>2. \A c : Handled(c)' = Handled(c)
    BY <1>2 DEF Callback, PlaceInv, Handled, Selected, Present
  <2>. QED  BY <1>2, <2>1, <2>2 DEF Callback, MigrateKeyValue
<1>3. CASE Filter
  <2>1. InRun /\ UNCHANGED <<config, source, flags>> /\ pc = "callback"
    BY <1>3 DEF Filter, InRun
  <2>2. PICK c \in config, k \in cur :
          \/ ~Matches(c, k) /\ Skip
          \/ /\ Matches(c, k) /\ flags.dryRun /\ pc' = "select" /\ UNCHANGED <<todo, cur>>
             /\ stats' = [stats EXCEPT !.migrated = @ + 1]
          \/ /\ Matches(c, k) /\ ~flags.dryRun /\ pc' = "store" /\ UNCHANGED <<todo, cur, stats>>
    BY <1>3 DEF Filter
  <2>3. cur = {k} /\ config = {c} /\ k \in Present(source) /\ k \notin todo
    BY <2>1, <2>2 DEF PlaceInv, TypeOK
  <2>4. Selected(c)' = Selected(c)
    BY <2>1 DEF Selected, Present
  <2>5. CASE ~Matches(c, k) /\ Skip
    <3>1. stats'.migrated = stats.migrated
      BY <2>5 DEF Skip, TypeOK, Stats
    <3>2. Handled(c)' = Handled(c)
      BY <2>1, <2>3, <2>4, <2>5 DEF Skip, Handled, Selected
    <3>. QED  BY <2>1, <2>3, <3>1, <3>2 DEF MigrateKeyValue
  <2>6. CASE /\ Matches(c, k) /\ flags.dryRun /\ pc' = "select" /\ UNCHANGED <<todo, cur>>
             /\ stats' = [stats EXCEPT !.migrated = @ + 1]
    <3>1. stats'.migrated = stats.migrated + 1
      BY <2>6 DEF TypeOK, Stats
    <3>2. k \in Selected(c) /\ k \notin Handled(c)
      BY <2>1, <2>3, <2>6 DEF Handled, Selected
    <3>3. Handled(c)' = Handled(c) \cup {k}
      BY <2>1, <2>3, <2>4, <2>6, <3>2 DEF Handled
    <3>. QED  BY <2>1, <2>3, <2>6, <3>1, <3>2, <3>3
  <2>7. CASE pc' = "store" /\ UNCHANGED <<todo, cur, stats>>
    <3>1. Handled(c)' = Handled(c)
      BY <2>1, <2>3, <2>4, <2>7 DEF Handled
    <3>. QED  BY <2>1, <2>3, <2>7, <3>1 DEF MigrateKeyValue
  <2>. QED  BY <2>2, <2>5, <2>6, <2>7
<1>4. CASE MigrateKeyValue
  <2>1. InRun /\ UNCHANGED <<config, source, flags, todo, cur>> /\ pc = "store" /\ pc' = "select"
    BY <1>4 DEF MigrateKeyValue, InRun
  <2>2. stats'.migrated = stats.migrated + 1
    BY <1>4 DEF MigrateKeyValue, TypeOK, Stats
  <2>3. PICK c, k : config = {c} /\ cur = {k} /\ k \in Selected(c) /\ k \notin todo
    BY <1>4, StoreShape
  <2>4. Selected(c)' = Selected(c)
    BY <2>1 DEF Selected, Present
  <2>5. k \notin Handled(c) /\ Handled(c)' = Handled(c) \cup {k}
    BY <2>1, <2>3, <2>4 DEF Handled
  <2>. QED  BY <1>4, <2>1, <2>2, <2>3, <2>5
<1>5. CASE Select \/ RangeEnds \/ Printed
  <2>1. /\ InRun /\ UNCHANGED <<config, source, flags, todo, stats>>
        /\ pc \in {"select", "range", "print"}
    BY <1>5 DEF Select, RangeEnds, Printed, InRun
  <2>2. \A c : Handled(c)' = Handled(c)
    BY <1>5 DEF Select, RangeEnds, Printed, PlaceInv, Handled, Selected, Present
  <2>. QED  BY <2>1, <2>2 DEF MigrateKeyValue
<1>6. CASE Panic \/ Crash
  BY <1>6 DEF Panic, Crash, InRun, PlaceInv
<1>7. CASE Expire \/ UNCHANGED vars
  <2>1. UNCHANGED <<config, source, flags, todo, cur, pc, stats, report>>
    BY <1>7 DEF Expire, vars
  <2>2. \A c : Handled(c)' = Handled(c)
    BY <2>1 DEF Handled, Selected, Present
  <2>. QED  BY <2>1, <2>2 DEF InRun, MigrateKeyValue
<1>. QED  BY <1>1, <1>2, <1>3, <1>4, <1>5, <1>6, <1>7 DEF Next, RunStep

\* A run starts with nothing dealt with.
LEMMA HandledStart ==
    ASSUME NEW f \in Flags, Start(f)
    PROVE  \A c : Handled(c)' = {}
BY DEF Start, Handled, Selected, Present

\* What a run has put into the target stays there: a later write to the same
\* new key puts the value of another selected key there.
LEMMA ProgressStep ==
    ASSUME TypeOK, PlaceInv, ProgressInv, [Next]_vars
    PROVE  ProgressInv'
<1>1. CASE \E f \in Flags : Start(f)
  BY <1>1, HandledStart DEF ProgressInv
<1>. SUFFICES ASSUME ~\E f \in Flags : Start(f), InRun', ~flags'.dryRun,
                     NEW c \in config', NEW k \in Handled(c)', source'[k] \in Encodable
              PROVE  Migrated(c, k)'
  BY <1>1 DEF ProgressInv
<1>2. InRun /\ config' = config /\ source' = source /\ flags' = flags
  BY HandledStep
<1>3. Selected(c)' = Selected(c)
  BY <1>2 DEF Selected, Present
<1>4. k \in Selected(c) /\ k \in Keys
  BY <1>3 DEF Handled, Selected, Present
<1>5. Transform(c, k) \in Keys
  BY <1>4, TransformType
<1>6. CASE MigrateKeyValue
  <2>1. PICK d, i :
              /\ config = {d} /\ cur = {i} /\ i \in Selected(d)
              /\ source[i] \in Encodable => target'[Transform(d, i)] = source[i]
              /\ \A n \in Keys : target'[n] # target[n] =>
                     n = Transform(d, i) /\ target'[n] = source[i]
    BY <1>6, StoreShape
  <2>2. d = c
    BY <1>2, <2>1
  <2>3. CASE k = i
    BY <1>2, <1>3, <1>4, <2>1, <2>2, <2>3 DEF Migrated
  <2>4. CASE k # i
    <3>1. k \in Handled(c)
      BY <1>2, <1>6, <2>1, <2>4, HandledStep
    <3>2. PICK j \in Selected(c) :
              Transform(c, j) = Transform(c, k) /\ target[Transform(c, k)] = source[j]
      BY <1>2, <3>1 DEF ProgressInv, Migrated
    <3>3. CASE target'[Transform(c, k)] = target[Transform(c, k)]
      BY <1>2, <1>3, <3>2, <3>3 DEF Migrated
    <3>4. CASE target'[Transform(c, k)] # target[Transform(c, k)]
      BY <1>2, <1>3, <1>5, <2>1, <2>2, <3>4 DEF Migrated
    <3>. QED  BY <3>3, <3>4
  <2>. QED  BY <2>3, <2>4
<1>7. CASE ~MigrateKeyValue
  <2>1. target' = target
    BY <1>7 DEF Next, RunStep, LoadConfig, Callback, Filter, Select, RangeEnds, Printed,
                Panic, Expire, Crash, vars
  <2>2. k \in Handled(c)
    BY <1>2, <1>7, HandledStep
  <2>3. Migrated(c, k)
    BY <1>2, <2>2 DEF ProgressInv
  <2>. QED  BY <1>2, <1>3, <2>1, <2>3 DEF Migrated
<1>. QED  BY <1>6, <1>7

\* The counters go up with what they count.
LEMMA CountStep ==
    ASSUME TypeOK, PlaceInv, CountInv, [Next]_vars
    PROVE  CountInv'
<1>1. ASSUME NEW f \in Flags, Start(f) PROVE CountInv'
  <2>1. \A c : Cardinality(Handled(c)') = 0
    BY <1>1, HandledStart, FS_EmptySet
  <2>2. stats'.migrated = 0 /\ stats'.total = 0 /\ stats'.skipped = 0 /\ stats'.errors = 0
    BY <1>1 DEF Start, Zero
  <2>3. pc' = "range"
    BY <1>1 DEF Start
  <2>. QED  BY <2>1, <2>2, <2>3 DEF CountInv
<1>. SUFFICES ASSUME ~\E f \in Flags : Start(f), InRun' PROVE CountInv'
  BY <1>1 DEF CountInv
<1>2. InRun /\ config' = config
  BY HandledStep
<1>3. ASSUME NEW c \in config' PROVE stats'.migrated = Cardinality(Handled(c)')
  <2>1. stats.migrated = Cardinality(Handled(c))
    BY <1>2, <1>3 DEF CountInv
  <2>2. CASE Handled(c)' = Handled(c) /\ stats'.migrated = stats.migrated
    BY <2>1, <2>2
  <2>3. ASSUME NEW k, k \notin Handled(c), Handled(c)' = Handled(c) \cup {k},
               stats'.migrated = stats.migrated + 1
        PROVE  stats'.migrated = Cardinality(Handled(c)')
    <3>1. Cardinality(Handled(c) \cup {k}) = Cardinality(Handled(c)) + 1
      BY <2>3, HandledFinite, FS_AddElement
    <3>. QED  BY <2>1, <2>3, <3>1
  <2>. QED  BY <1>2, <2>2, <2>3, HandledStep
<1>4. stats'.total = stats'.migrated + stats'.skipped + stats'.errors
                       + (IF pc' \in {"callback", "store"} THEN 1 ELSE 0)
  <2>1. stats.total = stats.migrated + stats.skipped + stats.errors
                       + (IF pc \in {"callback", "store"} THEN 1 ELSE 0)
    BY <1>2 DEF CountInv
  <2>2. CASE Callback
    BY <2>1, <2>2 DEF Callback, TypeOK, Stats
  <2>3. CASE Filter
    BY <2>1, <2>3 DEF Filter, Skip, TypeOK, Stats
  <2>4. CASE MigrateKeyValue
    BY <2>1, <2>4 DEF MigrateKeyValue, TypeOK, Stats
  <2>5. CASE LoadConfig \/ Select \/ RangeEnds \/ Printed
    BY <2>1, <2>5 DEF LoadConfig, Select, RangeEnds, Printed
  <2>6. CASE Panic \/ Crash
    BY <2>6 DEF Panic, Crash, InRun, PlaceInv
  <2>7. CASE Expire \/ UNCHANGED vars
    BY <2>1, <2>7 DEF Expire, vars
  <2>. QED  BY <2>2, <2>3, <2>4, <2>5, <2>6, <2>7 DEF Next, RunStep
<1>. QED  BY <1>2, <1>3, <1>4 DEF CountInv

\* The invariant holds in every run of the tools.
LEMMA Invariance == Spec => []MigrationInv
<1>1. MigrationInv /\ [Next]_vars => MigrationInv'
  BY TypeStep, PlaceStep, TargetStep, ProgressStep, CountStep DEF MigrationInv
<1>. QED  BY InitInv, <1>1, PTL DEF Spec

-----------------------------------------------------------------------------
\* At the end of a run that was not cut short every selected key has been
\* dealt with, and there is a single configuration.
LEMMA AllHandled ==
    ASSUME MigrationInv, report = "completed", todo = {}, NEW c \in config
    PROVE  Handled(c) = Selected(c) /\ config = {c} /\ InRun /\ ~flags.dryRun
BY DEF MigrationInv, TypeOK, PlaceInv, Handled, InRun

\* The state of the tools is well typed.
THEOREM MigrationTypeCorrect == Spec => []TypeOK
BY Invariance, PTL DEF MigrationInv

\* Dry runs, crashes and repeated runs put nothing into the target that is
\* not a selected pair of the source under its new key.
THEOREM NothingForeignMigrated == Spec => []TargetFromSource
BY Invariance, PTL DEF MigrationInv

\* A run that prints "Migration completed successfully!" and was not cut
\* short has put every selected pair that can be encoded into the target.
THEOREM CompletedRunsMigrate == Spec => []CompletedMeansMigrated
<1>1. MigrationInv => CompletedMeansMigrated
  BY AllHandled DEF CompletedMeansMigrated, MigrationInv, ProgressInv, Migrated
<1>. QED  BY Invariance, <1>1, PTL

\* What it prints as migrated is the number of pairs of the target, if all
\* values could be encoded and no two keys became one.
THEOREM StatisticsTrue == Spec => []StatsTellTheTruth
<1>1. ASSUME MigrationInv, report = "completed", todo = {}, NEW c \in config,
             \A k \in Selected(c) : source[k] \in Encodable,
             \A j, k \in Selected(c) : Transform(c, j) = Transform(c, k) => j = k
      PROVE  stats.migrated = Cardinality(Present(target))
  <2>1. Handled(c) = Selected(c) /\ config = {c} /\ InRun /\ ~flags.dryRun
    BY <1>1, AllHandled
  <2>2. stats.migrated = Cardinality(Selected(c)) /\ IsFiniteSet(Selected(c))
    BY <1>1, <2>1, HandledFinite DEF MigrationInv, CountInv
  <2>. DEFINE f == [k \in Selected(c) |-> Transform(c, k)]
  <2>3. ASSUME NEW k \in Selected(c) PROVE Transform(c, k) \in Present(target)
    <3>1. PICK j \in Selected(c) : target[Transform(c, k)] = source[j]
      BY <1>1, <2>1, <2>3 DEF MigrationInv, ProgressInv, Migrated
    <3>2. Transform(c, k) \in Keys
      BY <2>3, TransformType DEF Selected, Present
    <3>. QED  BY <3>1, <3>2 DEF Present, Selected
  <2>4. \A n \in Present(target) : \E k \in Selected(c) : f[k] = n
    BY <1>1, <2>1 DEF MigrationInv, TargetFromSource
  <2>5. f \in Bijection(Selected(c), Present(target))
    <3>1. f \in [Selected(c) -> Present(target)]
      BY <2>3
    <3>2. \A j, k \in Selected(c) : f[j] = f[k] => j = k
      BY <1>1
    <3>. QED  BY <2>4, <3>1, <3>2, Fun_IsBij
  <2>6. ExistsBijection(Selected(c), Present(target))
    BY <2>5 DEF ExistsBijection
  <2>. QED  BY <2>2, <2>6, FS_Bijection
<1>2. MigrationInv => StatsTellTheTruth
  <2>1. MigrationInv /\ pc \in {"range", "print"} =>
            stats.total = stats.migrated + stats.skipped + stats.errors
    BY DEF MigrationInv, CountInv, InRun, TypeOK, Stats
  <2>. QED  BY <1>1, <2>1 DEF StatsTellTheTruth
<1>. QED  BY Invariance, <1>2, PTL
=============================================================================
