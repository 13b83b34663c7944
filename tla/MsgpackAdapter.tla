--------------------------- MODULE MsgpackAdapter ---------------------------
(***************************************************************************)
(* msgpackAdapter (storage/msgpackAdapter.go) over a byteStorage that      *)
(* keeps StorageContract: what is stored is encoded together with the name *)
(* of its type, and decoded with the help of the global typeRegistry, a    *)
(* map from names to types that every encoding of the process fills and    *)
(* that does not survive it, while the stored bytes do.                    *)
(*                                                                         *)
(* A value is abstracted to its type, an encoded value to the type it was  *)
(* encoded from, Untyped or Garbage; a pointer is one that points to data. *)
(* The registry is read and written under its own lock, which is never     *)
(* held across another step: one step each.                                *)
(*                                                                         *)
(* MessagePack is external.  Data are first decoded without their type,    *)
(* into a map[string]interface{}, which fails if they hold a map whose     *)
(* keys are no strings; what comes of it is encoded again and decoded into *)
(* the type wanted.  Rereadable and Fits say what of this succeeds.        *)
(***************************************************************************)
EXTENDS StorageContract

CONSTANTS
    Types,       \* the concrete types of the values
    Encodable,   \* those that msgpack.Marshal accepts
    Rereadable,  \* those whose data can also be decoded without their type
    Name,        \* Name[t]: t.String(), which two types may share
    Elem,        \* Elem[t]: what a pointer type t points to, else t
    Fits,        \* the <<t, u>> such that data of a t, decoded without their
                 \* type and encoded again, decode into a u
    Interfaces,  \* interface types, interface{} and others
    Implements,  \* the <<t, i>> such that a t can be assigned to an i
    ValueTypes,  \* what the type V of a map's values may be
    Untyped,     \* nil, which is encoded without the name of a type
    Garbage,     \* bytes that are no encoding
    Generic,     \* the maps, slices and numbers data decode to without a type
    NoType, Undecodable, Panic   \* what is neither of them

Names == {Name[t] : t \in Types}
Encoded == Encodable \cup {Untyped, Garbage}

ASSUME ValuesAreEncoded == Values = Encoded
ASSUME TypeFunctions ==
    /\ Rereadable \subseteq Encodable /\ Encodable \subseteq Types
    /\ ValueTypes \subseteq Types \cup Interfaces
    /\ Elem \in [Types -> Types]
    /\ {Absent, Untyped, Garbage, Generic, NoType, Undecodable, Panic} \cap Types = {}
    /\ Untyped # Garbage /\ Generic \notin {Undecodable, Panic} /\ Undecodable # Panic

VARIABLES
    V,         \* the type of the map's values, fixed by newMsgpackAdapter
    registry,  \* typeRegistry
    apc,       \* apc[g]: where g is in the method of the adapter
    acall,     \* acall[g]: that method and its arguments
    raw,       \* raw[g]: the pairs the storage handed to msgpackDecodeValue
    handed,    \* handed[g]: the pairs, with decoded values, the caller gets
    fresh,     \* history: the keys last stored since the process started
    mine,      \* history: the fresh pairs of the storage when g read it
    known      \* history: the names registered when g began to read

alocal == <<apc, acall, raw, handed>>
history == <<fresh, mine, known>>
vars == <<contents, phase, call, res, V, registry, apc, acall, raw, handed, fresh, mine, known>>

Assignable(i) == {t \in Types : <<t, i>> \in Implements}
AdapterCalls ==
    {c \in Calls : c.op # "Store"}
    \cup [op : {"Store"} \cap Ops, key : Keys,
          val : IF V \in Types THEN {V} ELSE Assignable(V) \cup {Untyped}]
    \cup [op : {"RegisterType"}, val : Types \cup {Untyped}]
Decoders == {"Load", "Next", "Range"}
Registered == {n \in Names : registry[n] # NoType}

\* The types of the state of the adapter.
AdapterTypeOK ==
    /\ TypeOK
    /\ V \in ValueTypes
    /\ registry \in [Names -> Types \cup {NoType}]
    /\ apc \in [G -> {"idle", "lookup", "register", "marshal", "calling", "decode",
                      "done", "panic"}]
    /\ acall \in [G -> AdapterCalls \cup {NoCall}]
    /\ raw \in [G -> SUBSET (Keys \X Values)]
    /\ handed \in [G -> SUBSET (Keys \X (Types \cup {Generic}))]
    /\ fresh \in SUBSET Keys
    /\ mine \in [G -> SUBSET (Keys \X Values)]
    /\ known \in [G -> SUBSET Names]

AdapterInit ==
    /\ Init
    /\ V \in ValueTypes
    /\ registry = [n \in Names |-> NoType]
    /\ apc = [g \in G |-> "idle"]
    /\ acall = [g \in G |-> NoCall]
    /\ raw = [g \in G |-> {}]
    /\ handed = [g \in G |-> {}]
    /\ fresh = {}
    /\ mine = [g \in G |-> {}]
    /\ known = [g \in G |-> {}]

-----------------------------------------------------------------------------
\* msgpackDecodeValue.

\* The type registered under the name that is stored with a t.
Entry(t) == IF t \in Types THEN registry[Name[t]] ELSE NoType

\* A faulty variant: a type that is not registered is an error.
DecodeKnown(t) ==
    LET u == Entry(t)
    IN  IF u = NoType \/ <<t, u>> \notin Fits THEN Undecodable ELSE u

\* Data that can be decoded without their type must decode into the type that
\* is registered under their name, if there is one, and into V; a nil decodes
\* into everything.
Decodes(t) ==
    \/ t = Untyped
    \/ /\ t \in Rereadable
       /\ \A u \in {Entry(t), V} \cap Types : <<t, u>> \in Fits

\* If V is an interface, the value is set to one of the registered type, or
\* to what the library makes of data without a type; to set it to a value
\* that does not implement V panics.
Decode(t) ==
    LET made == IF Entry(t) = NoType THEN Generic ELSE Entry(t)
    IN  IF ~Decodes(t) THEN Undecodable
        ELSE IF V \in Types THEN V
        ELSE IF t = Untyped THEN Generic
        ELSE IF <<made, V>> \in Implements THEN made
        ELSE Panic

-----------------------------------------------------------------------------
\* The methods.

Goto(g, l) == apc' = [apc EXCEPT ![g] = l]

\* Store begins with the registry, RegisterType is about nothing else, and
\* nil is not registered; the other methods call the storage at once.
AdapterInvoke(g, c) ==
    /\ apc[g] = "idle"
    /\ acall' = [acall EXCEPT ![g] = c]
    /\ known' = [known EXCEPT ![g] = IF c.op \in Decoders THEN Registered ELSE {}]
    /\ \/ /\ c.op = "Store" /\ UNCHANGED cvars
          /\ Goto(g, IF c.val = Untyped THEN "marshal" ELSE "lookup")
       \/ /\ c.op = "RegisterType" /\ UNCHANGED cvars
          /\ Goto(g, IF c.val = Untyped THEN "done" ELSE "register")
       \/ c.op \notin {"Store", "RegisterType"} /\ Goto(g, "calling") /\ Invoke(g, c)
    /\ UNCHANGED <<V, registry, raw, handed, fresh, mine>>

\* A faulty variant: the test for the type is the wrong way round.
LookupInverted(g) ==
    /\ apc[g] = "lookup"
    /\ Goto(g, IF registry[Name[acall[g].val]] # NoType THEN "register" ELSE "marshal")
    /\ UNCHANGED <<cvars, V, registry, acall, raw, handed, history>>

Lookup(g) ==
    /\ apc[g] = "lookup"
    /\ Goto(g, IF registry[Name[acall[g].val]] = NoType THEN "register" ELSE "marshal")
    /\ UNCHANGED <<cvars, V, registry, acall, raw, handed, history>>

\* A faulty variant: the type a pointer points to, under the pointer's name.
RegisterElemAsPointer(g) ==
    /\ apc[g] = "register"
    /\ registry' = [registry EXCEPT ![Name[acall[g].val]] = Elem[acall[g].val]]
    /\ Goto(g, IF acall[g].op = "Store" THEN "marshal" ELSE "done")
    /\ UNCHANGED <<cvars, V, acall, raw, handed, history>>

\* RegisterMsgpackType.
Register(g) ==
    /\ apc[g] = "register"
    /\ LET t == Elem[acall[g].val] IN registry' = [registry EXCEPT ![Name[t]] = t]
    /\ Goto(g, IF acall[g].op = "Store" THEN "marshal" ELSE "done")
    /\ UNCHANGED <<cvars, V, acall, raw, handed, history>>

\* Nothing is stored if the value cannot be encoded.
Marshal(g) ==
    /\ apc[g] = "marshal"
    /\ \/ acall[g].val \in Encoded /\ Goto(g, "calling") /\ Invoke(g, acall[g])
       \/ acall[g].val \notin Encoded /\ Goto(g, "done") /\ UNCHANGED cvars
    /\ UNCHANGED <<V, registry, acall, raw, handed, history>>

\* The storage does what it was called for.
StorageStep(g) ==
    /\ phase[g] # "ranging" /\ Effect(g)
    /\ fresh' = IF Store(g) THEN fresh \cup {call[g].key} ELSE fresh
    /\ mine' = IF phase[g] = "pending" /\ call[g].op \in Decoders
               THEN [mine EXCEPT ![g] = {p \in Pairs(contents) : p[1] \in fresh}]
               ELSE mine
    /\ UNCHANGED <<V, registry, alocal, known>>

\* Load and Next have a pair to decode, or none.
Found(g) ==
    CASE call[g].op = "Load" -> {<<call[g].key, res[g].val>>} \cap (Keys \X Values)
      [] call[g].op = "Next" -> res[g].taken
      [] OTHER -> raw[g]
StorageReturns(g) ==
    /\ apc[g] = "calling"
    /\ Return(g)
    /\ raw' = [raw EXCEPT ![g] = Found(g)]
    /\ Goto(g, IF call[g].op \in {"Load", "Next"} /\ Found(g) # {} THEN "decode" ELSE "done")
    /\ UNCHANGED <<V, registry, acall, handed, history>>

\* A faulty variant: the error of msgpackDecodeValue is ignored.
DecodedUnchecked(p) == {<<p[1], Decode(p[2])>>}

\* The pair p with its value decoded, if it can be.
Decoded(p) == {<<p[1], Decode(p[2])>>} \cap (Keys \X (Types \cup {Generic}))

\* If the value does not decode, Load and Next report that there is none.
DecodeFound(g) ==
    /\ apc[g] = "decode"
    /\ handed' = [handed EXCEPT ![g] = UNION {Decoded(p) : p \in raw[g]}]
    /\ Goto(g, IF \E p \in raw[g] : Decode(p[2]) = Panic THEN "panic" ELSE "done")
    /\ UNCHANGED <<cvars, V, registry, acall, raw, history>>

\* The storage's Range calls the adapter's callback with one pair after the
\* other: f is called with those that decode, and stops the Range or not.
RangeVisit(g) ==
    /\ apc[g] = "calling" /\ phase[g] = "ranging"
    /\ \E p \in res[g].pairs \ raw[g] :
          /\ raw' = [raw EXCEPT ![g] = @ \cup {p}]
          /\ handed' = [handed EXCEPT ![g] = @ \cup Decoded(p)]
          /\ \/ Decode(p[2]) = Panic /\ Goto(g, "panic") /\ UNCHANGED cvars
             \/ Decode(p[2]) # Panic /\ UNCHANGED <<cvars, apc>>
             \/ /\ Decoded(p) # {}
                /\ phase' = [phase EXCEPT ![g] = "done"]
                /\ res' = [res EXCEPT ![g] = RangeResult(raw'[g], TRUE)]
                /\ UNCHANGED <<contents, call, apc>>
    /\ UNCHANGED <<V, registry, acall, history>>

RangeEnd(g) ==
    /\ apc[g] = "calling" /\ phase[g] = "ranging" /\ raw[g] = res[g].pairs
    /\ phase' = [phase EXCEPT ![g] = "done"]
    /\ UNCHANGED <<contents, call, res, V, registry, alocal, history>>

AdapterReturn(g) ==
    /\ apc[g] = "done"
    /\ Goto(g, "idle")
    /\ acall' = [acall EXCEPT ![g] = NoCall]
    /\ raw' = [raw EXCEPT ![g] = {}]
    /\ handed' = [handed EXCEPT ![g] = {}]
    /\ mine' = [mine EXCEPT ![g] = {}]
    /\ known' = [known EXCEPT ![g] = {}]
    /\ UNCHANGED <<cvars, V, registry, fresh>>

\* The process stops, wherever its goroutines are, one of them in a panic or
\* not, and a new one opens a storage that keeps its contents.
Restart ==
    /\ registry' = [n \in Names |-> NoType]
    /\ phase' = [g \in G |-> "idle"]
    /\ call' = [g \in G |-> NoCall]
    /\ res' = [g \in G |-> NoResult]
    /\ apc' = [g \in G |-> "idle"]
    /\ acall' = [g \in G |-> NoCall]
    /\ raw' = [g \in G |-> {}]
    /\ handed' = [g \in G |-> {}]
    /\ fresh' = {}
    /\ mine' = [g \in G |-> {}]
    /\ known' = [g \in G |-> {}]
    /\ UNCHANGED <<contents, V>>

-----------------------------------------------------------------------------
AdapterStep(g) ==
    \/ Lookup(g) \/ Register(g) \/ Marshal(g)
    \/ StorageStep(g) \/ RangeVisit(g) \/ RangeEnd(g)
    \/ StorageReturns(g) \/ DecodeFound(g) \/ AdapterReturn(g)

AdapterNext ==
    \/ Restart
    \/ \E g \in G : (\E c \in AdapterCalls : AdapterInvoke(g, c)) \/ AdapterStep(g)

AdapterSpec == AdapterInit /\ [][AdapterNext]_vars
-----------------------------------------------------------------------------
\* Properties.

Namesakes(t) == {u \in Types : Name[u] = Name[t]}

\* What data of a t are to come back as.
TypesFor(t) == IF V \in Types THEN {V} ELSE Namesakes(t)

\* Data of a t can be read, into whichever type of its name is registered.
Readable(t) ==
    /\ t \in Rereadable
    /\ \A u \in Namesakes(t) :
          <<t, u>> \in Fits /\ (V \in Types \/ <<u, V>> \in Implements)
    /\ V \in Types => <<t, V>> \in Fits

\* The pair p was stored by this process, and can be read.  Pointers are the
\* exception: what they point to is registered, under its own name, and
\* looked up under theirs.
Own(g, p) == p \in mine[g] /\ Readable(p[2]) /\ Elem[p[2]] = p[2]

\* Values this process stored come back to it as values of the type of that
\* name, never as maps and numbers and never in a panic, however the steps of
\* who stored them, of others that registered types, and of who reads them
\* were interleaved.
OwnTypesComeBack ==
    \A g \in G :
        /\ apc[g] = "done" => \A p \in raw[g] : Own(g, p) =>
               \E d \in TypesFor(p[2]) : <<p[1], d>> \in handed[g]
        /\ apc[g] = "panic" => \E p \in raw[g] : ~Own(g, p)

\* A pair from the storage can be read, whoever stored it, and what it may be
\* for a caller.
Recoverable(g, t) ==
    \/ t = Untyped
    \/ /\ Readable(t)
       /\ V \in Types \/ <<Generic, V>> \in Implements \/ Name[t] \in known[g]
MayBecome(g, t) ==
    IF t = Untyped THEN {IF V \in Types THEN V ELSE Generic}
    ELSE TypesFor(t) \cup (IF V \in Types \/ Name[t] \in known[g] THEN {} ELSE {Generic})

\* A value that can be read is not lost: Load finds it, Range shows it, and
\* Next, which has already removed it from the storage, returns it; with its
\* type if one of that name was registered when the caller called.  A panic
\* is about a value that cannot be read.
NothingDecodableIsLost ==
    \A g \in G :
        /\ apc[g] = "done" => \A p \in raw[g] : Recoverable(g, p[2]) =>
               \E d \in MayBecome(g, p[2]) : <<p[1], d>> \in handed[g]
        /\ apc[g] = "panic" => \E p \in raw[g] : ~Recoverable(g, p[2])

\* No caller gets a value of a type that has nothing to do with what was
\* stored: its type is V, or it has the name of the stored type, or none.
TypesNotConfused ==
    \A g \in G : \A q \in handed[g] :
        \/ q[2] \in {V, Generic}
        \/ \E p \in raw[g] : p[1] = q[1] /\ p[2] \in Types /\ Name[p[2]] = Name[q[2]]
=============================================================================
