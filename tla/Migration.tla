----------------------------- MODULE Migration ------------------------------
(***************************************************************************)
(* The migration tools cmd/migrate-redis and cmd/migrate-badger: main and  *)
(* runMigration, which copies a store of the legacy format into a new one, *)
(* run again and again by an operator: dry runs, runs that are cut short   *)
(* by the timeout or by a crash, and runs that finish.                     *)
(*                                                                         *)
(* The legacy module is external: its Range calls the callback with every  *)
(* pair of the source, in any order, until the callback returns false.     *)
(* The source does not change.  The target is a Map over the MessagePack   *)
(* adapter, whose Store drops a value that cannot be encoded (module       *)
(* MsgpackAdapter), and its pairs do not expire (expire = 0, the default). *)
(* Pauses between batches and messages are left out.                       *)
(***************************************************************************)
EXTENDS Integers, FiniteSets

CONSTANTS
    Rests,       \* what follows the prefix of a key, NoRest among them
    NoRest,      \* the empty string
    Values,      \* the values in the source
    Encodable,   \* those that the adapter of the target can encode
    Absent,      \* no value
    All,         \* the key patterns "" and "*"
    SourceKeys   \* the keys that the source may hold

ASSUME NoRestIsRest == NoRest \in Rests
ASSUME RestsFinite == IsFiniteSet(Rests)
ASSUME EncodableAreValues == Encodable \subseteq Values /\ Absent \notin Values

\* A key is a prefix (migration.source_prefix, target_prefix or neither) and
\* a rest.
Prefixes == {"source", "target", "other"}
Keys == Prefixes \X Rests
Contents == [Keys -> Values \cup {Absent}]
Present(d) == {k \in Keys : d[k] # Absent}

\* The part of the two Config types that the tools look at: badger has no
\* prefixes to change, and log_interval is missing (0) in some files.
Configs ==
    [tool : {"redis", "badger"}, prefixes : BOOLEAN, pattern : SourceKeys \cup {All},
     logInterval : {0, 1}]

ASSUME SourceKeysAreKeys == SourceKeys \subseteq Keys

VARIABLES
    config,   \* the configuration file, {} until the first run has written it
    source,   \* the legacy store
    target,   \* the new store
    pc,       \* where the tool is, "off" when it is not running
    flags,    \* the flags of the run: dryRun, verbose
    todo,     \* the keys that Range has not called the callback with
    cur,      \* the key that the callback is busy with
    expired,  \* the context of the run has timed out
    stats,    \* the MigrationStats of the run
    report    \* what the last run printed: "none", "dry", "completed"

vars == <<config, source, target, pc, flags, todo, cur, expired, stats, report>>

Stats == [total : Nat, migrated : Nat, skipped : Nat, errors : Nat]
Zero == [total |-> 0, migrated |-> 0, skipped |-> 0, errors |-> 0]
Flags == [dryRun : BOOLEAN, verbose : BOOLEAN]
NoFlags == [dryRun |-> TRUE, verbose |-> FALSE]

\* The types of the state of the tool and of its two stores.
TypeOK ==
    /\ config \in {{c} : c \in Configs} \cup {{}}
    /\ source \in Contents /\ target \in Contents
    /\ pc \in {"off", "range", "callback", "store", "select", "print"}
    /\ flags \in Flags
    /\ todo \in SUBSET Keys /\ cur \in SUBSET Keys
    /\ expired \in BOOLEAN
    /\ stats \in Stats
    /\ report \in {"none", "dry", "completed"}

Init ==
    /\ config = {}
    /\ source \in Contents /\ Present(source) \subseteq SourceKeys
    /\ target = [k \in Keys |-> Absent]
    /\ pc = "off" /\ flags = NoFlags
    /\ todo = {} /\ cur = {}
    /\ expired = FALSE
    /\ stats = Zero
    /\ report = "none"

-----------------------------------------------------------------------------
\* transformKey and the key pattern.

Transform(c, k) ==
    IF c.tool = "redis" /\ c.prefixes /\ k[1] = "source" /\ k[2] # NoRest
    THEN <<"target", k[2]>> ELSE k

Matches(c, k) == c.pattern \in {All, k}

-----------------------------------------------------------------------------
\* loadConfig without a file writes one, which the operator edits, and exits.
LoadConfig ==
    /\ pc = "off" /\ config = {}
    /\ \E c \in Configs : config' = {c}
    /\ UNCHANGED <<source, target, pc, flags, todo, cur, expired, stats, report>>

\* main, as far as the call of Range in runMigration.
Start(f) ==
    /\ pc = "off" /\ config # {}
    /\ pc' = "range"
    /\ flags' = f
    /\ todo' = Present(source)
    /\ expired' = FALSE
    /\ stats' = Zero
    /\ report' = "none"
    /\ UNCHANGED <<config, source, target, cur>>

Divides(c) == ~flags.verbose \/ c.logInterval # 0

\* Range calls the callback, which counts the key.
Callback ==
    /\ pc = "range"
    /\ \A c \in config : Divides(c)
    /\ \E k \in todo : todo' = todo \ {k} /\ cur' = {k}
    /\ stats' = [stats EXCEPT !.total = @ + 1]
    /\ pc' = "callback"
    /\ UNCHANGED <<config, source, target, flags, expired, report>>

\* Faulty variants: a key that does not match ends the Range, or is counted
\* as migrated.
SkipStops ==
    /\ stats' = [stats EXCEPT !.skipped = @ + 1]
    /\ pc' = "range" /\ cur' = {} /\ todo' = {}
SkipMigrated ==
    /\ stats' = [stats EXCEPT !.migrated = @ + 1]
    /\ pc' = "range" /\ cur' = {}
    /\ UNCHANGED todo

\* A key that does not match the pattern: return true, without a look at ctx.
Skip ==
    /\ stats' = [stats EXCEPT !.skipped = @ + 1]
    /\ pc' = "range" /\ cur' = {}
    /\ UNCHANGED todo

\* The pattern, and whether this is a dry run.
Filter ==
    /\ pc = "callback"
    /\ \E c \in config, k \in cur :
          \/ ~Matches(c, k) /\ Skip
          \/ /\ Matches(c, k) /\ flags.dryRun
             /\ stats' = [stats EXCEPT !.migrated = @ + 1]
             /\ pc' = "select"
             /\ UNCHANGED <<todo, cur>>
          \/ /\ Matches(c, k) /\ ~flags.dryRun
             /\ pc' = "store"
             /\ UNCHANGED <<stats, todo, cur>>
    /\ UNCHANGED <<config, source, target, flags, expired, report>>

\* Faulty variants: the value goes to the key it had in the source; a value
\* that cannot be encoded leaves an empty one.
StoreUntransformed(c, k) ==
    target' = IF source[k] \in Encodable THEN [target EXCEPT ![k] = source[k]] ELSE target
StoreEmpty(c, k) ==
    target' = [target EXCEPT ![Transform(c, k)] =
                  IF source[k] \in Encodable THEN source[k] ELSE <<>>]

\* newStore.Store, on a map that overwrites: no error comes back.
Store(c, k) ==
    target' = IF source[k] \in Encodable
              THEN [target EXCEPT ![Transform(c, k)] = source[k]] ELSE target

\* A command of Redis fails when the context has expired.
Accepted(c) == c.tool = "badger" \/ ~expired

MigrateKeyValue ==
    /\ pc = "store"
    /\ \E c \in config, k \in cur :
          Accepted(c) /\ Store(c, k)
    /\ stats' = [stats EXCEPT !.migrated = @ + 1]
    /\ pc' = "select"
    /\ UNCHANGED <<config, source, flags, todo, cur, expired, report>>

\* A faulty variant: the select statement has no default case.
SelectBlocks ==
    /\ pc = "select" /\ expired
    /\ cur' = {}
    /\ pc' = "print"
    /\ UNCHANGED <<config, source, target, flags, todo, expired, stats, report>>

\* The end of the callback: ctx.Done() ends the Range.
Select ==
    /\ pc = "select"
    /\ cur' = {}
    /\ pc' = IF expired THEN "print" ELSE "range"
    /\ UNCHANGED <<config, source, target, flags, todo, expired, stats, report>>

RangeEnds ==
    /\ pc = "range" /\ todo = {}
    /\ pc' = "print"
    /\ UNCHANGED <<config, source, target, flags, todo, cur, expired, stats, report>>

\* printStats, and the end of the run.
Printed ==
    /\ pc = "print"
    /\ report' = IF flags.dryRun THEN "dry" ELSE "completed"
    /\ pc' = "off"
    /\ UNCHANGED <<config, source, target, flags, todo, cur, expired, stats>>

\* config.Migration.Timeout has passed.
Expire ==
    /\ pc # "off" /\ ~expired
    /\ expired' = TRUE
    /\ UNCHANGED <<config, source, target, pc, flags, todo, cur, stats, report>>

\* The tool stops with a panic: stats.TotalKeys modulo a LogInterval of 0, or
\* a Redis command with a context that has expired.
Panic ==
    /\ \E c \in config :
          \/ pc = "range" /\ todo # {} /\ (~Divides(c) \/ ~Accepted(c))
          \/ pc = "store" /\ ~Accepted(c)
    /\ pc' = "off" /\ cur' = {}
    /\ UNCHANGED <<config, source, target, flags, todo, expired, stats, report>>

\* It is killed, or one of the stores panics.
Crash ==
    /\ pc # "off"
    /\ pc' = "off" /\ cur' = {}
    /\ UNCHANGED <<config, source, target, flags, todo, expired, stats, report>>

-----------------------------------------------------------------------------
RunStep == Callback \/ Filter \/ MigrateKeyValue \/ Select \/ RangeEnds \/ Printed \/ Panic

Next ==
    \/ LoadConfig
    \/ \E f \in Flags : Start(f)
    \/ RunStep
    \/ Expire \/ Crash

Spec == Init /\ [][Next]_vars

\* The tool runs once it has been started.
FairSpec == Spec /\ WF_vars(RunStep)

-----------------------------------------------------------------------------
\* Properties.

Selected(c) == {k \in Present(source) : Matches(c, k)}

\* A run that prints "Migration completed successfully!" and was not cut
\* short has every selected pair that can be encoded in the target, under its
\* new key, whatever runs before it did or failed to do.  When the prefixes
\* make two keys of the source one, the target has the value of one of them.
CompletedMeansMigrated ==
    (report = "completed" /\ todo = {}) =>
        \A c \in config : \A k \in Selected(c) :
            source[k] \in Encodable =>
                \E j \in Selected(c) :
                    Transform(c, j) = Transform(c, k) /\ target[Transform(c, k)] = source[j]

\* Nothing else gets into the target, by dry runs, crashes or repeated runs:
\* each of its pairs is a selected pair of the source under its new key.
TargetFromSource ==
    \A n \in Present(target) : \E c \in config : \E k \in Selected(c) :
        Transform(c, k) = n /\ target[n] = source[k]

\* The statistics add up between two keys, and those of a run that was not
\* cut short count the keys of the target, provided that no value was dropped
\* and no two keys were made one.
StatsTellTheTruth ==
    /\ pc \in {"range", "print"} =>
          stats.total = stats.migrated + stats.skipped + stats.errors
    /\ (report = "completed" /\ todo = {}) =>
          \A c \in config :
              (/\ \A k \in Selected(c) : source[k] \in Encodable
               /\ \A j, k \in Selected(c) : Transform(c, j) = Transform(c, k) => j = k)
                  => stats.migrated = Cardinality(Present(target))

\* A run that is started ends.
RunsEnd == (pc # "off") ~> (pc = "off")
=============================================================================
