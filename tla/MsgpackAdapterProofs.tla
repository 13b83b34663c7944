------------------------ MODULE MsgpackAdapterProofs ------------------------
(***************************************************************************)
(* Proofs about MsgpackAdapter, for any number of goroutines, any types,   *)
(* whatever names they share and whatever they point to, over any storage  *)
(* that keeps StorageContract, across any number of restarts.              *)
(***************************************************************************)
EXTENDS MsgpackAdapter, StorageContractProofs

-----------------------------------------------------------------------------
\* The inductive invariant.

\* What is registered under a name has that name.
RegistryInv == \A n \in Names : registry[n] # NoType => Name[registry[n]] = n

\* Data of a t are found under a name that is in the registry, unless t is a
\* pointer.
Settled(t) == (t \in Types /\ Elem[t] = t) => Name[t] \in Registered

\* What this process has stored is registered.
FreshInv == \A k \in fresh : Settled(contents[k])

\* How the method a goroutine runs and its call of the storage go together.
Follows(g) ==
    /\ apc[g] \notin {"calling", "panic"} => phase[g] = "idle"
    /\ apc[g] = "panic" => phase[g] \in {"idle", "ranging"}
    /\ phase[g] = "ranging" => call[g].op = "Range"
    /\ phase[g] = "peeked" => call[g].op = "Next"
    /\ (phase[g] \in {"peeked", "done"} /\ call[g].op = "Next") =>
           res[g].taken \in SUBSET (Keys \X Values)
    /\ apc[g] \in {"lookup", "register"} => acall[g] # NoCall /\ acall[g].val \in Types
    /\ apc[g] \in {"lookup", "marshal"} => acall[g].op = "Store"
    /\ (phase[g] # "idle" /\ call[g].op = "Store") => call[g] = acall[g]

\* The type of what a goroutine is about to encode or to store is registered.
Prepared(g) ==
    (apc[g] \in {"marshal", "calling"} /\ acall[g].op = "Store") => Settled(acall[g].val)

\* The pair p has reached the caller g as what it is to be, if it can be read.
Due(g, p) ==
    /\ Recoverable(g, p[2]) => \E d \in MayBecome(g, p[2]) : <<p[1], d>> \in handed[g]
    /\ Own(g, p) => \E d \in TypesFor(p[2]) : <<p[1], d>> \in handed[g]

\* The pair q may be handed to g.
Founded(g, q) ==
    \/ q[2] \in {V, Generic}
    \/ \E p \in raw[g] : p[1] = q[1] /\ p[2] \in Types /\ Name[p[2]] = Name[q[2]]

\* What has been read so far and what of it has been handed on.  Only Range
\* hands on before the storage returns; names stay registered during the call.
Reading(g) ==
    /\ (apc[g] \in {"idle", "lookup", "register", "marshal"} \/ phase[g] = "pending")
           => raw[g] = {}
    /\ handed[g] # {} =>
           \/ apc[g] \in {"done", "panic"}
           \/ apc[g] = "calling" /\ call[g].op = "Range"
    /\ known[g] \subseteq Registered
    /\ \A p \in mine[g] : Settled(p[2])
    /\ apc[g] \notin {"decode", "panic"} => \A p \in raw[g] : Due(g, p)
    /\ apc[g] = "panic" => \E p \in raw[g] : ~Recoverable(g, p[2]) /\ ~Own(g, p)
    /\ \A q \in handed[g] : Founded(g, q)

AdapterInv ==
    /\ AdapterTypeOK
    /\ RegistryInv
    /\ FreshInv
    /\ \A g \in G : Follows(g) /\ Prepared(g) /\ Reading(g)

-----------------------------------------------------------------------------
\* The arguments of the methods.
LEMMA AdapterCallType ==
    ASSUME V \in ValueTypes, NEW c \in AdapterCalls
    PROVE  /\ c.op = "Store" => /\ "Store" \in Ops /\ c.key \in Keys
                                /\ c.val \in Types \cup {Untyped}
                                /\ c.val \in Encoded => c \in Calls
           /\ c.op = "RegisterType" => c.val \in Types \cup {Untyped}
           /\ c.op \notin {"Store", "RegisterType"} => c \in Calls
           /\ c.op # "none"
<1>1. CASE c \in Calls /\ c.op # "Store"
  <2>1. c.op \in OpNames
    BY <1>1, CallType
  <2>. QED  BY <1>1, <2>1 DEF OpNames
<1>2. CASE c \in [op : {"Store"} \cap Ops, key : Keys,
                  val : IF V \in Types THEN {V} ELSE Assignable(V) \cup {Untyped}]
  <2>1. c.val \in Types \cup {Untyped}
    BY <1>2 DEF Assignable
  <2>2. c.val \in Encoded => c \in [op : {"Store"}, key : Keys, val : Values]
    BY <1>2, ValuesAreEncoded
  <2>. QED  BY <1>2, <2>1, <2>2 DEF Calls
<1>3. CASE c \in [op : {"RegisterType"}, val : Types \cup {Untyped}]
  BY <1>3
<1>. QED  BY <1>1, <1>2, <1>3 DEF AdapterCalls

\* Types have names; what is no value or not encoded from a type has none.
LEMMA EncodedType ==
    /\ Untyped \in Values /\ Untyped \notin Types /\ Absent \notin Types
    /\ \A t \in Types : t # NoType /\ Name[t] \in Names
BY ValuesAreEncoded, TypeFunctions DEF Encoded, Names

\* Registering a type takes no name out of the registry, and puts its own in.
LEMMA RegisterKeeps ==
    ASSUME AdapterTypeOK, NEW u \in Types,
           registry' = [registry EXCEPT ![Name[u]] = u]
    PROVE  /\ registry' \in [Names -> Types \cup {NoType}]
           /\ RegistryInv => RegistryInv'
           /\ Name[u] \in Registered'
           /\ Registered \subseteq Registered'
<1>1. registry \in [Names -> Types \cup {NoType}] /\ Name[u] \in Names /\ u # NoType
  BY EncodedType DEF AdapterTypeOK
<1>2. /\ registry' \in [Names -> Types \cup {NoType}]
      /\ registry'[Name[u]] = u
      /\ \A n \in Names : n # Name[u] => registry'[n] = registry[n]
  BY <1>1
<1>3. RegistryInv => RegistryInv'
  BY <1>2 DEF RegistryInv
<1>. QED  BY <1>1, <1>2, <1>3 DEF Registered

\* A type found in the registry has the name it was looked up under.
LEMMA EntryType ==
    ASSUME AdapterTypeOK, RegistryInv, NEW t, Entry(t) # NoType
    PROVE  /\ t \in Types /\ Name[t] \in Registered
           /\ Entry(t) \in Types /\ Entry(t) \in Namesakes(t)
<1>1. t \in Types /\ Entry(t) = registry[Name[t]] /\ Name[t] \in Names
  BY EncodedType DEF Entry
<1>2. Entry(t) \in Types /\ Name[Entry(t)] = Name[t]
  BY <1>1 DEF AdapterTypeOK, RegistryInv
<1>. QED  BY <1>1, <1>2 DEF Namesakes, Registered

\* Data that can be read decode, whatever is registered under their name, and
\* into that if V is an interface.
LEMMA ReadableDecodes ==
    ASSUME AdapterTypeOK, RegistryInv, NEW t, Readable(t)
    PROVE  /\ t \in Types /\ Decodes(t)
           /\ V \in Types => Decode(t) = V
           /\ (V \notin Types /\ Entry(t) # NoType) => Decode(t) = Entry(t)
           /\ (V \notin Types /\ Entry(t) = NoType /\ <<Generic, V>> \in Implements)
                  => Decode(t) = Generic
<1>1. t \in Rereadable /\ t \in Types /\ t # Untyped
  BY TypeFunctions DEF Readable
<1>2. Entry(t) \in Types => Entry(t) \in Namesakes(t)
  BY EntryType, EncodedType
<1>3. \A u \in {Entry(t), V} \cap Types : <<t, u>> \in Fits
  BY <1>2 DEF Readable
<1>4. Decodes(t)
  BY <1>1, <1>3 DEF Decodes
<1>5. (V \notin Types /\ Entry(t) # NoType) => <<Entry(t), V>> \in Implements
  BY EntryType DEF Readable
<1>. QED  BY <1>1, <1>4, <1>5 DEF Decode

\* What msgpackDecodeValue makes of a pair: something of V, of the type that
\* is registered under the stored name, or of none; and it makes of every
\* pair that can be read what it is to be.
LEMMA DecodedPair ==
    ASSUME AdapterInv, NEW g \in G, NEW p \in Keys \X Values
    PROVE  /\ Decoded(p) \in SUBSET (Keys \X (Types \cup {Generic}))
           /\ \A q \in Decoded(p) :
                  /\ q[1] = p[1]
                  /\ \/ q[2] \in {V, Generic}
                     \/ p[2] \in Types /\ Name[p[2]] = Name[q[2]]
           /\ Recoverable(g, p[2]) => \E d \in MayBecome(g, p[2]) : <<p[1], d>> \in Decoded(p)
           /\ Own(g, p) => \E d \in TypesFor(p[2]) : <<p[1], d>> \in Decoded(p)
           /\ Decode(p[2]) = Panic => ~Recoverable(g, p[2]) /\ ~Own(g, p)
<1>. DEFINE t == p[2]
            u == Entry(t)
            d == Decode(t)
<1>1. p[1] \in Keys /\ t \in Values /\ AdapterTypeOK /\ RegistryInv /\ Reading(g)
  BY DEF AdapterInv
<1>2. Decoded(p) \in SUBSET (Keys \X (Types \cup {Generic}))
  BY DEF Decoded
<1>3. u # NoType => t \in Types /\ u \in Types /\ u \in Namesakes(t) /\ Name[u] = Name[t]
  BY <1>1, EntryType DEF Namesakes
<1>4. ASSUME NEW q \in Decoded(p)
      PROVE  q[1] = p[1] /\ (q[2] \in {V, Generic} \/ (t \in Types /\ Name[t] = Name[q[2]]))
  <2>1. q = <<p[1], d>> /\ d \in Types \cup {Generic}
    BY <1>4 DEF Decoded
  <2>2. d \in {Undecodable, V, Generic, Panic} \/ (d = u /\ u # NoType)
    BY DEF Decode
  <2>3. d \notin {Undecodable, Panic}
    BY <2>1, TypeFunctions
  <2>. QED  BY <1>3, <2>1, <2>2, <2>3
<1>5. t \in Types => (u # NoType <=> Name[t] \in Registered)
  BY EncodedType DEF Entry, Registered
<1>6. ASSUME Recoverable(g, t)
      PROVE  d \in MayBecome(g, t) /\ d \in Types \cup {Generic}
  <2>1. CASE t = Untyped
    <3>1. u = NoType /\ Decodes(t)
      BY <2>1, EncodedType DEF Entry, Decodes
    <3>2. d = IF V \in Types THEN V ELSE Generic
      BY <2>1, <3>1 DEF Decode
    <3>. QED  BY <2>1, <3>2 DEF MayBecome
  <2>2. CASE t # Untyped /\ V \in Types
    <3>1. d = V
      BY <1>1, <1>6, <2>2, ReadableDecodes DEF Recoverable
    <3>. QED  BY <2>2, <3>1 DEF MayBecome, TypesFor
  <2>3. CASE t # Untyped /\ V \notin Types /\ u # NoType
    <3>1. d = u
      BY <1>1, <1>6, <2>3, ReadableDecodes DEF Recoverable
    <3>. QED  BY <1>3, <2>3, <3>1 DEF MayBecome, TypesFor
  <2>4. CASE t # Untyped /\ V \notin Types /\ u = NoType
    <3>1. Readable(t) /\ t \in Types
      BY <1>1, <1>6, <2>4, ReadableDecodes DEF Recoverable
    <3>2. Name[t] \notin known[g]
      BY <1>1, <1>5, <2>4, <3>1 DEF Reading
    <3>3. <<Generic, V>> \in Implements
      BY <1>6, <2>4, <3>2 DEF Recoverable
    <3>4. d = Generic
      BY <1>1, <2>4, <3>1, <3>3, ReadableDecodes
    <3>. QED  BY <2>4, <3>2, <3>4 DEF MayBecome
  <2>. QED  BY <2>1, <2>2, <2>3, <2>4
<1>7. ASSUME Own(g, p) PROVE d \in TypesFor(t) /\ d \in Types
  <2>1. Readable(t) /\ t \in Types
    BY <1>1, <1>7, ReadableDecodes DEF Own
  <2>2. u # NoType
    BY <1>1, <1>5, <1>7, <2>1 DEF Own, Reading, Settled
  <2>3. d = IF V \in Types THEN V ELSE u
    BY <1>1, <2>1, <2>2, ReadableDecodes
  <2>. QED  BY <1>3, <2>2, <2>3 DEF TypesFor
<1>8. d \in Types \cup {Generic} => <<p[1], d>> \in Decoded(p) /\ d # Panic
  BY <1>1, TypeFunctions DEF Decoded
<1>. QED  BY <1>2, <1>4, <1>6, <1>7, <1>8

\* What is due to a goroutine depends on nothing but what it has read.
LEMMA SameDue ==
    ASSUME NEW h \in G, V' = V, mine'[h] = mine[h], known'[h] = known[h]
    PROVE  \A p : /\ Recoverable(h, p[2])' = Recoverable(h, p[2])
                  /\ MayBecome(h, p[2])' = MayBecome(h, p[2])
                  /\ Own(h, p)' = Own(h, p) /\ TypesFor(p[2])' = TypesFor(p[2])
<1>1. \A t : Readable(t)' = Readable(t) /\ TypesFor(t)' = TypesFor(t)
  BY DEF Readable, TypesFor
<1>. QED  BY <1>1 DEF Recoverable, MayBecome, Own

\* It stays due, and what has been registered stays registered.
LEMMA StillDue ==
    ASSUME NEW h \in G, V' = V, mine'[h] = mine[h], known'[h] = known[h],
           raw'[h] = raw[h], handed'[h] = handed[h], Registered \subseteq Registered'
    PROVE  /\ \A p : Due(h, p) => Due(h, p)'
           /\ \A p : (~Recoverable(h, p[2]) /\ ~Own(h, p))
                       => (~Recoverable(h, p[2]) /\ ~Own(h, p))'
           /\ \A q : Founded(h, q) => Founded(h, q)'
           /\ \A t : Settled(t) => Settled(t)'
<1>1. \A p : Due(h, p) => Due(h, p)'
  BY SameDue DEF Due
<1>2. \A q : Founded(h, q) => Founded(h, q)'
  BY DEF Founded
<1>3. \A t : Settled(t) => Settled(t)'
  BY DEF Settled
<1>. QED  BY <1>1, <1>2, <1>3, SameDue

\* A goroutine that is not touched, while no name leaves the registry.
LEMMA Undisturbed ==
    ASSUME NEW h \in G, Follows(h), Prepared(h), Reading(h),
           apc'[h] = apc[h], acall'[h] = acall[h], raw'[h] = raw[h],
           handed'[h] = handed[h], mine'[h] = mine[h], known'[h] = known[h], V' = V,
           phase'[h] = phase[h], call'[h] = call[h], res'[h] = res[h],
           Registered \subseteq Registered'
    PROVE  Follows(h)' /\ Prepared(h)' /\ Reading(h)'
<1>1. Follows(h)'
  BY DEF Follows
<1>2. Prepared(h)'
  BY StillDue DEF Prepared
<1>3. Reading(h)'
  BY StillDue DEF Reading
<1>. QED  BY <1>1, <1>2, <1>3

-----------------------------------------------------------------------------
\* The steps of the adapter.

\* A method begins.
LEMMA InvokeKeeps ==
    ASSUME AdapterInv, NEW g \in G, NEW c \in AdapterCalls, AdapterInvoke(g, c)
    PROVE  AdapterInv'
<1>. USE DEF AdapterInv
<1>1. V' = V /\ registry' = registry /\ fresh' = fresh /\ contents' = contents
  BY DEF AdapterInvoke, Invoke, cvars
<1>2. /\ c.op = "Store" => c.val \in Types \cup {Untyped}
      /\ c.op = "RegisterType" => c.val \in Types \cup {Untyped}
      /\ c.op \notin {"Store", "RegisterType"} => c \in Calls
      /\ c.op # "none"
  BY AdapterCallType DEF AdapterTypeOK
<1>3. TypeOK'
  <2>1. CASE UNCHANGED cvars
    BY <2>1 DEF cvars, AdapterTypeOK, TypeOK
  <2>2. CASE c.op \notin {"Store", "RegisterType"} /\ Invoke(g, c)
    BY <1>2, <2>2, StorageInvokeType DEF AdapterTypeOK
  <2>. QED  BY <2>1, <2>2 DEF AdapterInvoke
<1>4. AdapterTypeOK'
  <2>1. AdapterCalls' = AdapterCalls
    BY <1>1 DEF AdapterCalls
  <2>2. acall' \in [G -> AdapterCalls \cup {NoCall}]
    BY DEF AdapterInvoke, AdapterTypeOK
  <2>3. known' \in [G -> SUBSET Names] /\ mine' = mine
    BY DEF AdapterInvoke, AdapterTypeOK, Registered
  <2>4. apc' \in [G -> {"idle", "lookup", "register", "marshal", "calling", "decode",
                        "done", "panic"}]
    BY DEF AdapterInvoke, AdapterTypeOK, Goto
  <2>5. raw' = raw /\ handed' = handed
    BY DEF AdapterInvoke
  <2>. QED  BY <1>1, <1>3, <2>1, <2>2, <2>3, <2>4, <2>5 DEF AdapterTypeOK
<1>5. RegistryInv' /\ FreshInv'
  BY <1>1 DEF RegistryInv, FreshInv, Settled, Registered
<1>6. ASSUME NEW h \in G, h # g PROVE Follows(h)' /\ Prepared(h)' /\ Reading(h)'
  <2>1. /\ apc'[h] = apc[h] /\ acall'[h] = acall[h] /\ raw'[h] = raw[h]
        /\ handed'[h] = handed[h] /\ mine'[h] = mine[h] /\ known'[h] = known[h]
        /\ phase'[h] = phase[h] /\ call'[h] = call[h] /\ res'[h] = res[h]
    BY <1>6 DEF AdapterInvoke, Invoke, Goto, cvars, AdapterTypeOK, TypeOK
  <2>2. Registered' = Registered
    BY <1>1 DEF Registered
  <2>. QED  BY <1>1, <2>1, <2>2, Undisturbed
<1>7. Follows(g)'
  <2>1. phase[g] = "idle" /\ acall'[g] = c
    BY DEF AdapterInvoke, Follows, AdapterTypeOK
  <2>2. CASE c.op = "Store" \/ c.op = "RegisterType"
    <3>1. UNCHANGED cvars
      BY <2>2 DEF AdapterInvoke
    <3>2. apc'[g] \in (IF c.op = "Store" THEN {"marshal", "lookup"} ELSE {"done", "register"})
      BY <2>2 DEF AdapterInvoke, Goto, AdapterTypeOK
    <3>3. apc'[g] \in {"lookup", "register"} => c.val # Untyped
      BY <2>2 DEF AdapterInvoke, Goto, AdapterTypeOK
    <3>. QED  BY <1>2, <2>1, <2>2, <3>1, <3>2, <3>3 DEF Follows, cvars, NoCall
  <2>3. CASE c.op \notin {"Store", "RegisterType"}
    <3>1. Invoke(g, c) /\ apc'[g] = "calling"
      BY <2>3 DEF AdapterInvoke, Goto, AdapterTypeOK
    <3>2. phase'[g] = "pending" /\ call'[g] = c
      BY <3>1 DEF Invoke, AdapterTypeOK, TypeOK
    <3>. QED  BY <2>3, <3>1, <3>2 DEF Follows
  <2>. QED  BY <2>2, <2>3
<1>8. Prepared(g)'
  <2>1. acall'[g] = c
    BY DEF AdapterInvoke, AdapterTypeOK
  <2>2. CASE c.op = "Store"
    <3>1. apc'[g] = IF c.val = Untyped THEN "marshal" ELSE "lookup"
      BY <2>2 DEF AdapterInvoke, Goto, AdapterTypeOK
    <3>. QED  BY <2>1, <3>1, EncodedType DEF Prepared, Settled
  <2>. QED  BY <2>1, <2>2 DEF Prepared
<1>9. Reading(g)'
  <2>1. handed[g] = {} /\ handed' = handed /\ raw' = raw
    BY DEF AdapterInvoke, Reading
  <2>2. known'[g] \in {Registered, {}} /\ Registered' = Registered
    BY <1>1 DEF AdapterInvoke, AdapterTypeOK, Registered
  <2>3. raw[g] = {} /\ mine' = mine
    BY DEF AdapterInvoke, Reading
  <2>4. apc'[g] \in {"lookup", "marshal", "register", "done", "calling"}
    BY DEF AdapterInvoke, Goto, AdapterTypeOK
  <2>5. \A t : Settled(t) => Settled(t)'
    BY <2>2 DEF Settled
  <2>. QED  BY <2>1, <2>2, <2>3, <2>4, <2>5 DEF Reading
<1>. QED  BY <1>4, <1>5, <1>6, <1>7, <1>8, <1>9

\* msgpackEncodeValue looks the name of the type up.
LEMMA LookupKeeps ==
    ASSUME AdapterInv, NEW g \in G, Lookup(g)
    PROVE  AdapterInv'
<1>. USE DEF AdapterInv
<1>1. /\ apc[g] = "lookup"
      /\ UNCHANGED <<contents, phase, call, res, V, registry, acall, raw, handed, fresh, mine, known>>
      /\ apc' = [apc EXCEPT ![g] = IF registry[Name[acall[g].val]] = NoType
                                   THEN "register" ELSE "marshal"]
  BY DEF Lookup, Goto, cvars, history
<1>2. acall[g].op = "Store" /\ acall[g] # NoCall /\ acall[g].val \in Types
  BY <1>1 DEF Follows
<1>3. AdapterTypeOK'
  <2>1. AdapterCalls' = AdapterCalls /\ TypeOK'
    BY <1>1 DEF AdapterCalls, AdapterTypeOK, TypeOK
  <2>. QED  BY <1>1, <2>1 DEF AdapterTypeOK
<1>4. RegistryInv' /\ FreshInv'
  BY <1>1 DEF RegistryInv, FreshInv, Settled, Registered
<1>5. Registered' = Registered
  BY <1>1 DEF Registered
<1>6. ASSUME NEW h \in G, h # g PROVE Follows(h)' /\ Prepared(h)' /\ Reading(h)'
  BY <1>1, <1>5, <1>6, Undisturbed DEF AdapterTypeOK
<1>7. Follows(g)'
  BY <1>1, <1>2 DEF Follows, AdapterTypeOK
<1>8. Prepared(g)'
  <2>1. registry[Name[acall[g].val]] # NoType => Name[acall[g].val] \in Registered'
    BY <1>2, <1>5, EncodedType DEF Registered
  <2>. QED  BY <1>1, <2>1 DEF Prepared, Settled, AdapterTypeOK
<1>9. Reading(g)'
  <2>1. apc'[g] \in {"register", "marshal"} /\ raw'[g] = {}
    BY <1>1 DEF Reading, AdapterTypeOK
  <2>. QED  BY <1>1, <1>5, <2>1, StillDue DEF Reading
<1>. QED  BY <1>3, <1>4, <1>6, <1>7, <1>8, <1>9

\* RegisterMsgpackType: the only step that changes the registry.
LEMMA RegisterStepKeeps ==
    ASSUME AdapterInv, NEW g \in G, Register(g)
    PROVE  AdapterInv'
<1>. USE DEF AdapterInv
<1>. DEFINE u == Elem[acall[g].val]
<1>1. /\ apc[g] = "register"
      /\ UNCHANGED <<contents, phase, call, res, V, acall, raw, handed, fresh, mine, known>>
      /\ registry' = [registry EXCEPT ![Name[u]] = u]
      /\ apc' = [apc EXCEPT ![g] = IF acall[g].op = "Store" THEN "marshal" ELSE "done"]
  BY DEF Register, Goto, cvars, history
<1>2. acall[g].val \in Types /\ u \in Types
  BY <1>1, TypeFunctions DEF Follows
<1>3. /\ registry' \in [Names -> Types \cup {NoType}]
      /\ RegistryInv'
      /\ Name[u] \in Registered'
      /\ Registered \subseteq Registered'
  BY <1>1, <1>2, RegisterKeeps
<1>4. AdapterTypeOK'
  <2>1. AdapterCalls' = AdapterCalls /\ TypeOK'
    BY <1>1 DEF AdapterCalls, AdapterTypeOK, TypeOK
  <2>. QED  BY <1>1, <1>3, <2>1 DEF AdapterTypeOK
<1>5. FreshInv'
  BY <1>1, <1>3 DEF FreshInv, Settled
<1>6. ASSUME NEW h \in G, h # g PROVE Follows(h)' /\ Prepared(h)' /\ Reading(h)'
  BY <1>1, <1>3, <1>6, Undisturbed DEF AdapterTypeOK
<1>7. Follows(g)'
  BY <1>1 DEF Follows, AdapterTypeOK
<1>8. Prepared(g)'
  BY <1>1, <1>3 DEF Prepared, Settled
<1>9. Reading(g)'
  <2>1. apc'[g] \in {"marshal", "done"} /\ raw'[g] = {}
    BY <1>1 DEF Reading, AdapterTypeOK
  <2>2. \A p : Settled(p[2]) => Settled(p[2])'
    BY <1>3 DEF Settled
  <2>. QED  BY <1>1, <1>3, <2>1, <2>2, StillDue DEF Reading
<1>. QED  BY <1>3, <1>4, <1>5, <1>6, <1>7, <1>8, <1>9

\* The value is encoded, and stored if it can be.
LEMMA MarshalKeeps ==
    ASSUME AdapterInv, NEW g \in G, Marshal(g)
    PROVE  AdapterInv'
<1>. USE DEF AdapterInv
<1>1. /\ apc[g] = "marshal"
      /\ UNCHANGED <<contents, res, V, registry, acall, raw, handed, fresh, mine, known>>
      /\ \/ /\ acall[g].val \in Encoded /\ Invoke(g, acall[g])
            /\ apc' = [apc EXCEPT ![g] = "calling"]
         \/ /\ UNCHANGED <<phase, call>>
            /\ apc' = [apc EXCEPT ![g] = "done"]
  BY DEF Marshal, Goto, cvars, Invoke, history
<1>2. acall[g].op = "Store" /\ phase[g] = "idle"
  BY <1>1 DEF Follows
<1>3. acall[g].val \in Encoded => acall[g] \in Calls
  <2>1. acall[g] \in AdapterCalls
    BY <1>2 DEF AdapterTypeOK, NoCall
  <2>. QED  BY <1>2, <2>1, AdapterCallType DEF AdapterTypeOK
<1>4. AdapterTypeOK'
  <2>1. AdapterCalls' = AdapterCalls
    BY <1>1 DEF AdapterCalls
  <2>2. TypeOK'
    <3>1. CASE acall[g].val \in Encoded /\ Invoke(g, acall[g])
      BY <1>3, <3>1, StorageInvokeType DEF AdapterTypeOK
    <3>2. CASE UNCHANGED <<phase, call>>
      BY <1>1, <3>2 DEF AdapterTypeOK, TypeOK
    <3>. QED  BY <1>1, <3>1, <3>2
  <2>3. apc' \in [G -> {"idle", "lookup", "register", "marshal", "calling", "decode",
                        "done", "panic"}]
    BY <1>1 DEF AdapterTypeOK
  <2>. QED  BY <1>1, <2>1, <2>2, <2>3 DEF AdapterTypeOK
<1>5. RegistryInv' /\ FreshInv'
  BY <1>1 DEF RegistryInv, FreshInv, Settled, Registered
<1>6. Registered' = Registered
  BY <1>1 DEF Registered
<1>7. ASSUME NEW h \in G, h # g PROVE Follows(h)' /\ Prepared(h)' /\ Reading(h)'
  <2>1. apc'[h] = apc[h] /\ phase'[h] = phase[h] /\ call'[h] = call[h]
    BY <1>1, <1>7 DEF Invoke, AdapterTypeOK, TypeOK
  <2>. QED  BY <1>1, <1>6, <1>7, <2>1, Undisturbed
<1>8. Follows(g)'
  <2>1. CASE acall[g].val \in Encoded /\ Invoke(g, acall[g]) /\ apc'[g] = "calling"
    <3>1. phase'[g] = "pending" /\ call'[g] = acall[g] /\ acall' = acall
      BY <1>1, <2>1 DEF Invoke, AdapterTypeOK, TypeOK
    <3>. QED  BY <1>2, <2>1, <3>1 DEF Follows
  <2>2. CASE UNCHANGED <<phase, call>> /\ apc'[g] = "done"
    BY <1>1, <1>2, <2>2 DEF Follows
  <2>. QED  BY <1>1, <2>1, <2>2 DEF AdapterTypeOK
<1>9. Prepared(g)'
  BY <1>1, <1>6 DEF Prepared, Settled
<1>10. Reading(g)'
  <2>1. apc'[g] \in {"calling", "done"} /\ raw'[g] = {} /\ handed'[g] = {}
    BY <1>1 DEF Reading, AdapterTypeOK
  <2>. QED  BY <1>1, <1>6, <2>1, StillDue DEF Reading
<1>. QED  BY <1>4, <1>5, <1>7, <1>8, <1>9, <1>10

\* The storage acts: what it now holds has been prepared.
LEMMA StorageStepKeeps ==
    ASSUME AdapterInv, NEW g \in G, StorageStep(g)
    PROVE  AdapterInv'
<1>. USE DEF AdapterInv
<1>1. /\ phase[g] # "ranging" /\ EffectShape(g) /\ TypeOK'
      /\ UNCHANGED <<V, registry, apc, acall, raw, handed, known>>
      /\ \/ mine' = mine
         \/ /\ phase[g] = "pending"
            /\ mine' = [mine EXCEPT ![g] = {p \in Pairs(contents) : p[1] \in fresh}]
      /\ fresh' \in {fresh, fresh \cup {call[g].key}}
      /\ fresh' # fresh => call[g].op = "Store" /\ phase[g] = "pending"
  <2>1. fresh' = IF Store(g) THEN fresh \cup {call[g].key} ELSE fresh
    BY DEF StorageStep
  <2>2. Store(g) => call[g].op = "Store" /\ phase[g] = "pending"
    BY DEF Store, Perform
  <2>. QED
    BY <2>1, <2>2, EffectFrame, StorageEffectType DEF StorageStep, alocal, AdapterTypeOK
<1>2. phase[g] \in {"pending", "peeked"} /\ apc[g] = "calling"
  BY <1>1 DEF EffectShape, Follows
<1>3. (call[g].op = "Store" /\ phase[g] = "pending") =>
          /\ call[g] = acall[g] /\ call[g].key \in Keys /\ call[g].val \in Values
          /\ contents'[call[g].key] = call[g].val
  <2>. SUFFICES ASSUME call[g].op = "Store", phase[g] = "pending"
                PROVE  /\ call[g] = acall[g] /\ call[g].key \in Keys /\ call[g].val \in Values
                       /\ contents'[call[g].key] = call[g].val
    OBVIOUS
  <2>1. call[g] \in Calls
    BY DEF AdapterTypeOK, TypeOK, NoCall
  <2>2. call[g].key \in Keys /\ call[g].val \in Values
    BY <2>1, CallType
  <2>3. contents' = Put(contents, call[g].key, call[g].val)
    BY <1>1 DEF EffectShape
  <2>. QED  BY <2>2, <2>3 DEF Follows, AdapterTypeOK, TypeOK, Contents, Put
<1>4. AdapterTypeOK'
  <2>1. AdapterCalls' = AdapterCalls
    BY <1>1 DEF AdapterCalls
  <2>2. fresh' \in SUBSET Keys
    BY <1>1, <1>3 DEF AdapterTypeOK
  <2>3. Pairs(contents) \in SUBSET (Keys \X Values)
    BY DEF AdapterTypeOK, TypeOK, Contents, Pairs, Present
  <2>4. mine' \in [G -> SUBSET (Keys \X Values)]
    BY <1>1, <2>3 DEF AdapterTypeOK
  <2>. QED  BY <1>1, <2>1, <2>2, <2>4 DEF AdapterTypeOK
<1>5. Registered' = Registered
  BY <1>1 DEF Registered
<1>6. RegistryInv' /\ FreshInv'
  <2>1. RegistryInv'
    BY <1>1 DEF RegistryInv
  <2>. SUFFICES ASSUME NEW k \in fresh' PROVE Settled(contents[k])'
    BY <2>1 DEF FreshInv
  <2>2. CASE call[g].op = "Store" /\ phase[g] = "pending" /\ k = call[g].key
    <3>1. contents'[k] = acall[g].val /\ acall[g].op = "Store"
      BY <1>3, <2>2
    <3>2. Settled(acall[g].val)
      BY <1>2, <3>1 DEF Prepared
    <3>. QED  BY <1>5, <3>1, <3>2 DEF Settled
  <2>3. CASE ~(call[g].op = "Store" /\ phase[g] = "pending" /\ k = call[g].key)
    <3>1. k \in fresh /\ k \in Keys
      BY <1>1, <2>3 DEF AdapterTypeOK
    <3>2. contents'[k] \in {contents[k], Absent}
      BY <1>1, <2>3, <3>1 DEF EffectShape
    <3>. QED  BY <1>5, <3>1, <3>2, EncodedType DEF FreshInv, Settled
  <2>. QED  BY <2>2, <2>3
<1>7. ASSUME NEW h \in G, h # g PROVE Follows(h)' /\ Prepared(h)' /\ Reading(h)'
  <2>1. phase'[h] = phase[h] /\ call'[h] = call[h] /\ res'[h] = res[h] /\ mine'[h] = mine[h]
    BY <1>1, <1>7 DEF EffectShape, AdapterTypeOK
  <2>. QED  BY <1>1, <1>5, <2>1, Undisturbed
<1>8. Follows(g)'
  <2>1. (phase'[g] \in {"peeked", "done"} /\ call'[g].op = "Next") =>
            res'[g].taken \in SUBSET (Keys \X Values)
    BY <1>1, <1>2 DEF EffectShape, Follows
  <2>2. call'[g].op = "Store" => call'[g] = acall'[g]
    BY <1>1, <1>2 DEF EffectShape, Follows
  <2>3. /\ phase'[g] = "ranging" => call'[g].op = "Range"
        /\ phase'[g] = "peeked" => call'[g].op = "Next"
    BY <1>1 DEF EffectShape
  <2>. QED  BY <1>1, <1>2, <2>1, <2>2, <2>3 DEF Follows
<1>9. Prepared(g)'
  BY <1>1, <1>5 DEF Prepared, Settled
<1>10. Reading(g)'
  <2>1. call'[g].op = call[g].op /\ apc'[g] = "calling"
    BY <1>1, <1>2 DEF EffectShape
  <2>2. phase'[g] = "pending" => phase[g] = "pending"
    BY <1>1, <1>2 DEF EffectShape, Follows
  <2>3. ASSUME NEW p \in mine'[g] PROVE Settled(p[2])'
    <3>1. CASE p \in mine[g]
      BY <1>5, <3>1 DEF Reading, Settled
    <3>2. CASE p \in Pairs(contents) /\ p[1] \in fresh
      <4>1. p[2] = contents[p[1]]
        BY <3>2 DEF Pairs
      <4>. QED  BY <1>5, <3>2, <4>1 DEF FreshInv, Settled
    <3>. QED  BY <1>1, <2>3, <3>1, <3>2 DEF AdapterTypeOK
  <2>4. CASE mine' = mine
    <3>1. \A p \in raw'[g] : Due(g, p)'
      BY <1>1, <1>2, <1>5, <2>4, StillDue DEF Reading
    <3>2. \A q : Founded(g, q) => Founded(g, q)'
      BY <1>1 DEF Founded
    <3>. QED  BY <1>1, <1>2, <1>5, <2>1, <2>2, <2>3, <3>1, <3>2 DEF Reading
  <2>5. CASE phase[g] = "pending"
    <3>1. raw'[g] = {}
      BY <1>1, <2>5 DEF Reading
    <3>2. \A q : Founded(g, q) => Founded(g, q)'
      BY <1>1 DEF Founded
    <3>. QED  BY <1>1, <1>2, <1>5, <2>1, <2>3, <3>1, <3>2 DEF Reading
  <2>. QED  BY <1>1, <2>4, <2>5
<1>. QED  BY <1>4, <1>6, <1>7, <1>8, <1>9, <1>10

\* The storage hands over what it found.
LEMMA ReturnKeeps ==
    ASSUME AdapterInv, NEW g \in G, StorageReturns(g)
    PROVE  AdapterInv'
<1>. USE DEF AdapterInv
<1>1. /\ apc[g] = "calling" /\ phase[g] = "done" /\ phase'[g] = "idle"
      /\ UNCHANGED <<contents, V, registry, acall, handed, fresh, mine, known>>
      /\ raw' = [raw EXCEPT ![g] = Found(g)]
      /\ apc' = [apc EXCEPT ![g] = IF call[g].op \in {"Load", "Next"} /\ Found(g) # {}
                                   THEN "decode" ELSE "done"]
  BY DEF StorageReturns, Return, Goto, AdapterTypeOK, TypeOK, history
<1>2. Found(g) \in SUBSET (Keys \X Values)
  <2>1. call[g].op = "Next" => res[g].taken \in SUBSET (Keys \X Values)
    BY <1>1 DEF Follows
  <2>2. raw[g] \in SUBSET (Keys \X Values)
    BY DEF AdapterTypeOK
  <2>. QED  BY <2>1, <2>2 DEF Found
<1>3. AdapterTypeOK'
  <2>1. TypeOK'
    BY StorageReturnType DEF StorageReturns, AdapterTypeOK
  <2>2. AdapterCalls' = AdapterCalls
    BY <1>1 DEF AdapterCalls
  <2>3. raw' \in [G -> SUBSET (Keys \X Values)]
    BY <1>1, <1>2 DEF AdapterTypeOK
  <2>. QED  BY <1>1, <2>1, <2>2, <2>3 DEF AdapterTypeOK
<1>4. RegistryInv' /\ FreshInv'
  BY <1>1 DEF RegistryInv, FreshInv, Settled, Registered
<1>5. Registered' = Registered
  BY <1>1 DEF Registered
<1>6. ASSUME NEW h \in G, h # g PROVE Follows(h)' /\ Prepared(h)' /\ Reading(h)'
  <2>1. /\ phase'[h] = phase[h] /\ call'[h] = call[h] /\ res'[h] = res[h]
        /\ apc'[h] = apc[h] /\ raw'[h] = raw[h]
    BY <1>1, <1>6 DEF StorageReturns, Return, AdapterTypeOK, TypeOK
  <2>. QED  BY <1>1, <1>5, <2>1, Undisturbed
<1>7. apc'[g] \in {"decode", "done"} /\ raw'[g] = Found(g)
  BY <1>1 DEF AdapterTypeOK
<1>8. Follows(g)' /\ Prepared(g)'
  BY <1>1, <1>7 DEF Follows, Prepared
<1>9. Reading(g)'
  <2>1. \A t : Settled(t) => Settled(t)'
    BY <1>5 DEF Settled
  <2>2. CASE call[g].op \in {"Load", "Next"}
    <3>1. handed'[g] = {}
      BY <1>1, <2>2 DEF Reading
    <3>2. apc'[g] = "done" => raw'[g] = {}
      BY <1>1, <1>7, <2>2 DEF AdapterTypeOK
    <3>. QED  BY <1>1, <1>5, <1>7, <2>1, <3>1, <3>2 DEF Reading
  <2>3. CASE call[g].op \notin {"Load", "Next"}
    <3>1. raw'[g] = raw[g] /\ apc'[g] = "done"
      BY <1>1, <1>7, <2>3 DEF Found, AdapterTypeOK
    <3>. QED  BY <1>1, <1>5, <2>1, <3>1, StillDue DEF Reading
  <2>. QED  BY <2>2, <2>3
<1>. QED  BY <1>3, <1>4, <1>6, <1>8, <1>9

\* Load and Next decode the pair.
LEMMA DecodeKeeps ==
    ASSUME AdapterInv, NEW g \in G, DecodeFound(g)
    PROVE  AdapterInv'
<1>. USE DEF AdapterInv
<1>. DEFINE Decodings == UNION {Decoded(p) : p \in raw[g]}
<1>1. /\ apc[g] = "decode"
      /\ UNCHANGED <<contents, phase, call, res, V, registry, acall, raw, fresh, mine, known>>
      /\ handed' = [handed EXCEPT ![g] = Decodings]
      /\ apc' = [apc EXCEPT ![g] = IF \E p \in raw[g] : Decode(p[2]) = Panic
                                   THEN "panic" ELSE "done"]
  BY DEF DecodeFound, Goto, cvars, history
<1>2. raw[g] \in SUBSET (Keys \X Values)
  BY DEF AdapterTypeOK
<1>3. Decodings \in SUBSET (Keys \X (Types \cup {Generic}))
  BY DEF Decoded
<1>4. AdapterTypeOK'
  <2>1. AdapterCalls' = AdapterCalls /\ TypeOK'
    BY <1>1 DEF AdapterCalls, AdapterTypeOK, TypeOK
  <2>2. handed' \in [G -> SUBSET (Keys \X (Types \cup {Generic}))]
    BY <1>1, <1>3 DEF AdapterTypeOK
  <2>. QED  BY <1>1, <2>1, <2>2 DEF AdapterTypeOK
<1>5. RegistryInv' /\ FreshInv'
  BY <1>1 DEF RegistryInv, FreshInv, Settled, Registered
<1>6. Registered' = Registered
  BY <1>1 DEF Registered
<1>7. ASSUME NEW h \in G, h # g PROVE Follows(h)' /\ Prepared(h)' /\ Reading(h)'
  BY <1>1, <1>6, <1>7, Undisturbed DEF AdapterTypeOK
<1>8. /\ apc'[g] \in {"done", "panic"} /\ handed'[g] = Decodings
      /\ apc'[g] = "panic" => \E p \in raw[g] : Decode(p[2]) = Panic
  BY <1>1 DEF AdapterTypeOK
<1>9. Follows(g)' /\ Prepared(g)'
  BY <1>1, <1>8 DEF Follows, Prepared
<1>10. Reading(g)'
  <2>1. ASSUME NEW p \in raw[g] PROVE Due(g, p)'
    <3>1. p \in Keys \X Values
      BY <1>2, <2>1
    <3>2. /\ Recoverable(g, p[2]) => \E d \in MayBecome(g, p[2]) : <<p[1], d>> \in Decoded(p)
          /\ Own(g, p) => \E d \in TypesFor(p[2]) : <<p[1], d>> \in Decoded(p)
      BY <3>1, DecodedPair
    <3>. QED  BY <1>1, <1>8, <2>1, <3>2, SameDue DEF Due
  <2>2. ASSUME NEW q \in Decodings PROVE Founded(g, q)'
    <3>1. PICK p \in raw[g] : q \in Decoded(p)
      BY <2>2
    <3>2. p \in Keys \X Values
      BY <1>2, <3>1
    <3>. QED  BY <1>1, <3>1, <3>2, DecodedPair DEF Founded
  <2>3. ASSUME apc'[g] = "panic"
        PROVE  \E p \in raw'[g] : (~Recoverable(g, p[2]) /\ ~Own(g, p))'
    <3>1. PICK p \in raw[g] : Decode(p[2]) = Panic
      BY <1>8, <2>3
    <3>2. ~Recoverable(g, p[2]) /\ ~Own(g, p)
      BY <1>2, <3>1, DecodedPair
    <3>. QED  BY <1>1, <3>1, <3>2, SameDue
  <2>4. \A t : Settled(t) => Settled(t)'
    BY <1>6 DEF Settled
  <2>. QED  BY <1>1, <1>6, <1>8, <2>1, <2>2, <2>3, <2>4 DEF Reading, Follows
<1>. QED  BY <1>4, <1>5, <1>7, <1>9, <1>10

\* Range's callback gets a pair, decodes it and hands it on, or skips it.
LEMMA VisitKeeps ==
    ASSUME AdapterInv, NEW g \in G, RangeVisit(g)
    PROVE  AdapterInv'
<1>. USE DEF AdapterInv
<1>1. PICK p \in res[g].pairs \ raw[g] :
          /\ raw' = [raw EXCEPT ![g] = @ \cup {p}]
          /\ handed' = [handed EXCEPT ![g] = @ \cup Decoded(p)]
          /\ \/ /\ Decode(p[2]) = Panic /\ UNCHANGED <<phase, res>>
                /\ apc' = [apc EXCEPT ![g] = "panic"]
             \/ Decode(p[2]) # Panic /\ UNCHANGED <<phase, res, apc>>
             \/ /\ phase' = [phase EXCEPT ![g] = "done"]
                /\ res' = [res EXCEPT ![g] = RangeResult(raw'[g], TRUE)]
                /\ UNCHANGED apc
  BY DEF RangeVisit, Goto, cvars
<1>2. /\ UNCHANGED <<contents, call, V, registry, acall, fresh, mine, known>>
      /\ apc[g] = "calling" /\ phase[g] = "ranging" /\ call[g].op = "Range"
  BY DEF RangeVisit, Follows, cvars, history
<1>3. p \in Keys \X Values
  BY <1>1, <1>2 DEF AdapterTypeOK, TypeOK
<1>4. raw'[g] = raw[g] \cup {p} /\ handed'[g] = handed[g] \cup Decoded(p)
  BY <1>1 DEF AdapterTypeOK
<1>5. AdapterTypeOK'
  <2>1. raw' \in [G -> SUBSET (Keys \X Values)]
    BY <1>1, <1>3 DEF AdapterTypeOK
  <2>2. handed' \in [G -> SUBSET (Keys \X (Types \cup {Generic}))]
    BY <1>1 DEF AdapterTypeOK, Decoded
  <2>3. TypeOK'
    <3>1. CASE UNCHANGED <<phase, res>>
      BY <1>2, <3>1 DEF AdapterTypeOK, TypeOK
    <3>2. CASE /\ phase' = [phase EXCEPT ![g] = "done"]
               /\ res' = [res EXCEPT ![g] = RangeResult(raw'[g], TRUE)]
      <4>1. RangeResult(raw'[g], TRUE) \in Results
        BY <2>1, ResultType
      <4>. QED  BY <1>2, <3>2, <4>1 DEF AdapterTypeOK, TypeOK, Phases
    <3>. QED  BY <1>1, <3>1, <3>2
  <2>4. AdapterCalls' = AdapterCalls
    BY <1>2 DEF AdapterCalls
  <2>5. apc' \in [G -> {"idle", "lookup", "register", "marshal", "calling", "decode",
                        "done", "panic"}]
    BY <1>1 DEF AdapterTypeOK
  <2>. QED  BY <1>2, <2>1, <2>2, <2>3, <2>4, <2>5 DEF AdapterTypeOK
<1>6. RegistryInv' /\ FreshInv'
  BY <1>2 DEF RegistryInv, FreshInv, Settled, Registered
<1>7. Registered' = Registered
  BY <1>2 DEF Registered
<1>8. ASSUME NEW h \in G, h # g PROVE Follows(h)' /\ Prepared(h)' /\ Reading(h)'
  <2>1. /\ raw'[h] = raw[h] /\ handed'[h] = handed[h] /\ apc'[h] = apc[h]
        /\ phase'[h] = phase[h] /\ res'[h] = res[h]
    BY <1>1, <1>8 DEF AdapterTypeOK, TypeOK
  <2>. QED  BY <1>2, <1>7, <2>1, Undisturbed
<1>9. /\ apc'[g] \in {"calling", "panic"} /\ phase'[g] \in {"ranging", "done"}
      /\ apc'[g] = "panic" => Decode(p[2]) = Panic /\ phase'[g] = "ranging"
  BY <1>1, <1>2 DEF AdapterTypeOK, TypeOK
<1>10. Follows(g)' /\ Prepared(g)'
  BY <1>2, <1>7, <1>9 DEF Follows, Prepared, Settled
<1>11. Reading(g)'
  <2>1. ASSUME NEW r \in raw[g] PROVE Due(g, r)'
    BY <1>2, <1>4, <2>1, SameDue DEF Due, Reading
  <2>2. Due(g, p)'
    <3>1. /\ Recoverable(g, p[2]) => \E d \in MayBecome(g, p[2]) : <<p[1], d>> \in Decoded(p)
          /\ Own(g, p) => \E d \in TypesFor(p[2]) : <<p[1], d>> \in Decoded(p)
      BY <1>3, DecodedPair
    <3>. QED  BY <1>2, <1>4, <3>1, SameDue DEF Due
  <2>3. ASSUME NEW q \in handed[g] PROVE Founded(g, q)'
    BY <1>2, <1>4, <2>3 DEF Founded, Reading
  <2>4. ASSUME NEW q \in Decoded(p) PROVE Founded(g, q)'
    BY <1>2, <1>3, <1>4, <2>4, DecodedPair DEF Founded
  <2>5. apc'[g] = "panic" => (~Recoverable(g, p[2]) /\ ~Own(g, p))'
    BY <1>2, <1>3, <1>9, DecodedPair, SameDue
  <2>6. \A t : Settled(t) => Settled(t)'
    BY <1>7 DEF Settled
  <2>. QED  BY <1>2, <1>4, <1>7, <1>9, <2>1, <2>2, <2>3, <2>4, <2>5, <2>6 DEF Reading
<1>. QED  BY <1>5, <1>6, <1>8, <1>10, <1>11

\* The storage's Range comes to its end.
LEMMA RangeEndKeeps ==
    ASSUME AdapterInv, NEW g \in G, RangeEnd(g)
    PROVE  AdapterInv'
<1>. USE DEF AdapterInv
<1>1. /\ phase[g] = "ranging" /\ call[g].op = "Range" /\ apc[g] = "calling"
      /\ phase' = [phase EXCEPT ![g] = "done"]
      /\ UNCHANGED <<contents, call, res, V, registry, apc, acall, raw, handed, fresh, mine, known>>
  BY DEF RangeEnd, alocal, history, Follows
<1>2. AdapterTypeOK'
  <2>1. AdapterCalls' = AdapterCalls /\ TypeOK'
    BY <1>1 DEF AdapterCalls, AdapterTypeOK, TypeOK, Phases
  <2>. QED  BY <1>1, <2>1 DEF AdapterTypeOK
<1>3. RegistryInv' /\ FreshInv'
  BY <1>1 DEF RegistryInv, FreshInv, Settled, Registered
<1>4. Registered' = Registered
  BY <1>1 DEF Registered
<1>5. ASSUME NEW h \in G, h # g PROVE Follows(h)' /\ Prepared(h)' /\ Reading(h)'
  BY <1>1, <1>4, <1>5, Undisturbed DEF AdapterTypeOK, TypeOK
<1>6. phase'[g] = "done"
  BY <1>1 DEF AdapterTypeOK, TypeOK
<1>7. Follows(g)' /\ Prepared(g)'
  BY <1>1, <1>4, <1>6 DEF Follows, Prepared, Settled
<1>8. Reading(g)'
  BY <1>1, <1>4, <1>6, StillDue DEF Reading
<1>. QED  BY <1>2, <1>3, <1>5, <1>7, <1>8

\* A method of the adapter returns.
LEMMA AdapterReturnKeeps ==
    ASSUME AdapterInv, NEW g \in G, AdapterReturn(g)
    PROVE  AdapterInv'
<1>. USE DEF AdapterInv
<1>1. /\ apc[g] = "done"
      /\ UNCHANGED <<contents, phase, call, res, V, registry, fresh>>
      /\ apc' = [apc EXCEPT ![g] = "idle"]
      /\ acall' = [acall EXCEPT ![g] = NoCall]
      /\ raw' = [raw EXCEPT ![g] = {}]
      /\ handed' = [handed EXCEPT ![g] = {}]
      /\ mine' = [mine EXCEPT ![g] = {}]
      /\ known' = [known EXCEPT ![g] = {}]
  BY DEF AdapterReturn, Goto, cvars
<1>2. AdapterTypeOK'
  <2>1. AdapterCalls' = AdapterCalls /\ TypeOK'
    BY <1>1 DEF AdapterCalls, AdapterTypeOK, TypeOK
  <2>. QED  BY <1>1, <2>1 DEF AdapterTypeOK
<1>3. RegistryInv' /\ FreshInv'
  BY <1>1 DEF RegistryInv, FreshInv, Settled, Registered
<1>4. Registered' = Registered
  BY <1>1 DEF Registered
<1>5. ASSUME NEW h \in G, h # g PROVE Follows(h)' /\ Prepared(h)' /\ Reading(h)'
  BY <1>1, <1>4, <1>5, Undisturbed DEF AdapterTypeOK
<1>6. apc'[g] = "idle" /\ raw'[g] = {} /\ handed'[g] = {} /\ known'[g] = {} /\ mine'[g] = {}
  BY <1>1 DEF AdapterTypeOK
<1>7. Follows(g)' /\ Prepared(g)' /\ Reading(g)'
  BY <1>1, <1>6 DEF Follows, Prepared, Reading
<1>. QED  BY <1>2, <1>3, <1>5, <1>7

\* A new process starts with an empty registry and no key of its own.
LEMMA FreshProcess ==
    ASSUME TypeOK, V \in ValueTypes,
           phase = [g \in G |-> "idle"], registry = [n \in Names |-> NoType],
           apc = [g \in G |-> "idle"], acall = [g \in G |-> NoCall],
           raw = [g \in G |-> {}], handed = [g \in G |-> {}],
           fresh = {}, mine = [g \in G |-> {}], known = [g \in G |-> {}]
    PROVE  AdapterInv
<1>1. AdapterTypeOK
  BY DEF AdapterTypeOK
<1>2. RegistryInv /\ FreshInv
  BY DEF RegistryInv, FreshInv
<1>3. \A g \in G : Follows(g) /\ Prepared(g) /\ Reading(g)
  BY DEF Follows, Prepared, Reading
<1>. QED  BY <1>1, <1>2, <1>3 DEF AdapterInv

\* Every step of the adapter keeps the invariant.
LEMMA AdapterInvStep ==
    ASSUME AdapterInv, [AdapterNext]_vars
    PROVE  AdapterInv'
<1>1. ASSUME Restart PROVE AdapterInv'
  <2>1. TypeOK' /\ (V \in ValueTypes)'
    BY <1>1, ResultType DEF Restart, AdapterInv, AdapterTypeOK, TypeOK, Phases
  <2>2. AdapterTypeOK'
    BY <1>1, <2>1 DEF Restart, AdapterTypeOK
  <2>3. RegistryInv' /\ FreshInv'
    BY <1>1 DEF Restart, RegistryInv, FreshInv
  <2>4. \A g \in G : Follows(g)' /\ Prepared(g)' /\ Reading(g)'
    BY <1>1 DEF Restart, Follows, Prepared, Reading
  <2>. QED  BY <2>2, <2>3, <2>4 DEF AdapterInv
<1>2. CASE UNCHANGED vars
  <2>1. AdapterTypeOK' /\ RegistryInv' /\ FreshInv'
    <3>1. TypeOK' /\ AdapterCalls' = AdapterCalls
      BY <1>2 DEF vars, AdapterInv, AdapterTypeOK, TypeOK, AdapterCalls
    <3>2. AdapterTypeOK'
      BY <1>2, <3>1 DEF vars, AdapterInv, AdapterTypeOK
    <3>3. RegistryInv' /\ FreshInv'
      BY <1>2 DEF vars, AdapterInv, RegistryInv, FreshInv, Settled, Registered
    <3>. QED  BY <3>2, <3>3
  <2>2. ASSUME NEW h \in G PROVE Follows(h)' /\ Prepared(h)' /\ Reading(h)'
    <3>1. Registered' = Registered
      BY <1>2 DEF vars, Registered
    <3>. QED  BY <1>2, <3>1, Undisturbed DEF vars, AdapterInv
  <2>. QED  BY <2>1, <2>2 DEF AdapterInv
<1>3. ASSUME NEW g \in G, AdapterStep(g) PROVE AdapterInv'
  BY <1>3, LookupKeeps, RegisterStepKeeps, MarshalKeeps, StorageStepKeeps, VisitKeeps,
     RangeEndKeeps, ReturnKeeps, DecodeKeeps, AdapterReturnKeeps DEF AdapterStep
<1>. QED  BY <1>1, <1>2, <1>3, InvokeKeeps DEF AdapterNext

-----------------------------------------------------------------------------
\* The invariant holds from the start on.
LEMMA AdapterInvariant == AdapterSpec => []AdapterInv
<1>1. ASSUME AdapterInit PROVE AdapterInv
  <2>1. TypeOK
    BY <1>1, ResultType DEF AdapterInit, Init, TypeOK, Phases
  <2>. QED  BY <1>1, <2>1, FreshProcess DEF AdapterInit, Init
<1>. QED  BY <1>1, AdapterInvStep, PTL DEF AdapterSpec

\* The adapter is type correct; so are the calls it makes on its storage.
THEOREM AdapterTypeCorrect == AdapterSpec => []AdapterTypeOK
<1>1. AdapterInv => AdapterTypeOK
  BY DEF AdapterInv
<1>. QED  BY <1>1, AdapterInvariant, PTL

\* msgpackEncodeValue looks a type up and registers it in two steps, between
\* which other goroutines register theirs, the value is stored later still, and
\* whoever reads it decodes it later again: nevertheless a value stored by this
\* process comes back with a type of its name, unless it is a pointer or cannot
\* be read at all.
THEOREM OwnTypesReturn == AdapterSpec => []OwnTypesComeBack
<1>1. AdapterInv => OwnTypesComeBack
  BY DEF AdapterInv, Reading, Due, OwnTypesComeBack
<1>. QED  BY <1>1, AdapterInvariant, PTL

\* Load, Range and Next hand on what can be read, after restarts too, and
\* with its type if one of that name was registered when the method was called.
THEOREM DecodableNotLost == AdapterSpec => []NothingDecodableIsLost
<1>1. AdapterInv => NothingDecodableIsLost
  BY DEF AdapterInv, Reading, Due, NothingDecodableIsLost
<1>. QED  BY <1>1, AdapterInvariant, PTL

\* No value is decoded into a type that has another name than the stored one,
\* unless it is the map's own type V.
THEOREM DecodedTypesRight == AdapterSpec => []TypesNotConfused
<1>1. AdapterInv => TypesNotConfused
  BY DEF AdapterInv, Reading, Founded, TypesNotConfused
<1>. QED  BY <1>1, AdapterInvariant, PTL
=============================================================================
