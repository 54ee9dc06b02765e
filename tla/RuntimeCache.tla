---------------------------- MODULE RuntimeCache ----------------------------
(***************************************************************************)
(* The caches that operations of a family fill on first use: validation    *)
(* adapters of the compiled family, built once under its lock and read     *)
(* without it (_runtime_render.py, _runtime_validation.py), and plans that *)
(* belong to the model and have no lock (_runtime_versioning.py,           *)
(* _runtime_payload.py).  Meanwhile the model may be rebuilt by force, and *)
(* the family recreated.                                                   *)
(*                                                                         *)
(* Core schemas are numbered in the order in which they were built, but    *)
(* the alias cache knows a schema by its address, which another schema may *)
(* have once nothing refers to the first.                                  *)
(***************************************************************************)
EXTENDS Naturals

CONSTANTS
  Threads,
  Kinds,         \* the kinds of caches that operations look into
  Addresses,     \* where core schemas are allocated
  MaxRebuilds,   \* bound: forced rebuilds of the model
  MaxFamilies,   \* bound: families created for the model, one after the other
  NoAddress, NoEntry

ASSUME BoundsAssumption ==
  /\ MaxRebuilds \in Nat
  /\ MaxFamilies \in Nat \ {0}

Schemas == 0 .. MaxRebuilds
Families == 1 .. MaxFamilies

ASSUME KindsAssumption == Kinds \subseteq {"aliases", "extraction", "adapter", "canonical"}

\* A cache belongs to the model (family 0) or to a compiled family.
ModelKinds == {"aliases", "extraction"}
FamilyKinds == {"adapter", "canonical"}
CacheOf(kind, f) == [kind |-> kind, family |-> IF kind \in ModelKinds THEN 0 ELSE f]
Caches == {CacheOf(kind, f) : kind \in ModelKinds \cup FamilyKinds, f \in Families}

VARIABLES
  schema,   \* the model's current core schema
  address,  \* address[s]: where core schema s is or was
  own,      \* own[f]: the core schema that family f was compiled from
  current,  \* the family that new operations use
  entry,    \* entry[c]: what cache c holds: a tag, and the schema it was built from
  op        \* op[t]: the operation thread t performs

vars == <<schema, address, own, current, entry, op>>

\* A cache has tags of its kind: alias plans are tagged with an address.
TagsOf(kind) == IF kind = "aliases" THEN Addresses ELSE Schemas
Tags == Schemas \cup Addresses
Entry == [tag : Tags, built : Schemas]

(***************************************************************************)
(* An operation: its family, the schema that was current when it checked   *)
(* the family's graph, the cache it looks into, the tag it looks for, and  *)
(* the schema that the plan or adapter it has got was built from.          *)
(***************************************************************************)
Op ==
  [pc : {"idle", "ready", "look", "wait", "build", "store", "using"}, family : Families,
   start : Schemas, cache : Caches, key : Tags, built : Schemas]

NoOp ==
  [pc |-> "idle", family |-> 1, start |-> 0, cache |-> CacheOf("aliases", 1),
   key |-> 0, built |-> 0]

TypeOK ==
  /\ schema \in Schemas
  /\ address \in [Schemas -> Addresses \cup {NoAddress}]
  /\ \A s \in 0 .. schema : address[s] \in Addresses
  /\ own \in [Families -> Schemas]
  /\ current \in Families
  /\ entry \in [Caches -> Entry \cup {NoEntry}]
  /\ \A c \in Caches : entry[c] # NoEntry => entry[c].tag \in TagsOf(c.kind)
  /\ op \in [Threads -> Op]

Init ==
  /\ schema = 0
  /\ \E a \in Addresses : address = [s \in Schemas |-> IF s = 0 THEN a ELSE NoAddress]
  /\ own = [f \in Families |-> 0]
  /\ current = 1
  /\ entry = [c \in Caches |-> NoEntry]
  /\ op = [t \in Threads |-> NoOp]

-----------------------------------------------------------------------------
(* State functions. *)

Active(t) == op[t].pc # "idle"
InUse(f) == f = current \/ \E t \in Threads : Active(t) /\ op[t].family = f

\* Something refers to core schema s: the model, a family in use, the tag of an entry
\* that holds schemas, or a thread that remembers one for such a tag.
Live(s) ==
  \/ s = schema
  \/ \E f \in Families : InUse(f) /\ own[f] = s
  \/ \E c \in Caches :
       /\ c.kind \in {"extraction", "canonical"}
       /\ c.family = 0 \/ InUse(c.family)
       /\ entry[c] # NoEntry
       /\ entry[c].tag = s
  \/ \E t \in Threads :
       /\ op[t].pc \in {"look", "wait", "build", "store"}
       /\ op[t].cache.kind \in {"extraction", "canonical"}
       /\ op[t].key = s

\* What an operation looks for: the identity of the core schema, or its address.
Key(kind) == IF kind = "aliases" THEN address[schema] ELSE schema

\* Mutant of Found: an entry is taken whatever schema it was built for.
FoundUntagged(c, key) == entry[c] # NoEntry

\* The cache has an entry for key; the current wire adapter has no tag.
Found(c, key) == entry[c] # NoEntry /\ (c.kind = "adapter" \/ entry[c].tag = key)

\* A thread is inside the lock of family f.
Locked(f) ==
  \E t \in Threads : op[t].pc \in {"build", "store"} /\ op[t].cache.family = f

\* Mutant of FoundUnderLock: the second look is missing.
NeverFoundUnderLock(c, key) == FALSE

\* The second look of the double-checked lookups.
FoundUnderLock(c, key) == Found(c, key)

-----------------------------------------------------------------------------
(* Actions. *)

\* Model.model_rebuild(force=True): a new core schema, where no other one is.
Rebuild(a) ==
  /\ schema < MaxRebuilds
  /\ \A s \in 0 .. schema : Live(s) => address[s] # a
  /\ schema' = schema + 1
  /\ address' = [address EXCEPT ![schema + 1] = a]
  /\ UNCHANGED <<own, current, entry, op>>

\* The invalid family is recreated and compiled.
Recreate ==
  /\ own[current] # schema
  /\ current < MaxFamilies
  /\ current' = current + 1
  /\ own' = [own EXCEPT ![current + 1] = schema]
  /\ UNCHANGED <<schema, address, entry, op>>

\* An operation begins, and finds the family's graph unchanged.
Begin(t) ==
  /\ ~Active(t)
  /\ own[current] = schema
  /\ op' = [op EXCEPT ![t] =
       [NoOp EXCEPT !.pc = "ready", !.family = current, !.start = schema]]
  /\ UNCHANGED <<schema, address, own, current, entry>>

\* An operation of a family whose model was rebuilt is refused.
Refuse ==
  /\ own[current] # schema
  /\ UNCHANGED vars

\* A lookup begins: the tag is read first.
ReadKey(t, kind) ==
  /\ op[t].pc \in {"ready", "using"}
  /\ op' = [op EXCEPT ![t] =
       [@ EXCEPT !.pc = "look", !.cache = CacheOf(kind, op[t].family), !.key = Key(kind), !.built = 0]]
  /\ UNCHANGED <<schema, address, own, current, entry>>

\* The cache is read, without a lock.
Look(t) ==
  LET c == op[t].cache IN
  /\ op[t].pc = "look"
  /\ op' = [op EXCEPT ![t] =
       IF Found(c, op[t].key) THEN [@ EXCEPT !.pc = "using", !.built = entry[c].built]
       ELSE [@ EXCEPT !.pc = IF c.kind \in FamilyKinds THEN "wait" ELSE "build"]]
  /\ UNCHANGED <<schema, address, own, current, entry>>

\* The family's lock is acquired, and the cache read again; a hit releases the lock.
Acquire(t) ==
  LET c == op[t].cache IN
  /\ op[t].pc = "wait"
  /\ ~Locked(c.family)
  /\ op' = [op EXCEPT ![t] =
       IF FoundUnderLock(c, op[t].key) THEN [@ EXCEPT !.pc = "using", !.built = entry[c].built]
       ELSE [@ EXCEPT !.pc = "build"]]
  /\ UNCHANGED <<schema, address, own, current, entry>>

\* A plan or an adapter is built from the schema that the model has then.
Build(t) ==
  /\ op[t].pc = "build"
  /\ op' = [op EXCEPT ![t] = [@ EXCEPT !.pc = "store", !.built = schema]]
  /\ UNCHANGED <<schema, address, own, current, entry>>

\* Mutant of Store: the lock is not released.
StoreKeepingLock(t) ==
  /\ op[t].pc = "store"
  /\ entry' = [entry EXCEPT ![op[t].cache] = [tag |-> op[t].key, built |-> op[t].built]]
  /\ UNCHANGED <<schema, address, own, current, op>>

\* It is stored with the tag that was looked for, and the lock, if any, released.
Store(t) ==
  /\ op[t].pc = "store"
  /\ entry' = [entry EXCEPT ![op[t].cache] = [tag |-> op[t].key, built |-> op[t].built]]
  /\ op' = [op EXCEPT ![t] = [@ EXCEPT !.pc = "using"]]
  /\ UNCHANGED <<schema, address, own, current>>

\* The operation returns, or raises where it holds no lock.
Finish(t) ==
  /\ op[t].pc \in {"ready", "using"}
  /\ op' = [op EXCEPT ![t] = NoOp]
  /\ UNCHANGED <<schema, address, own, current, entry>>

\* An adapter or a plan cannot be built.
Fail(t) ==
  /\ op[t].pc = "build"
  /\ op' = [op EXCEPT ![t] = NoOp]
  /\ UNCHANGED <<schema, address, own, current, entry>>

Next ==
  \/ \E a \in Addresses : Rebuild(a)
  \/ Recreate \/ Refuse
  \/ \E t \in Threads :
       \/ Begin(t) \/ Look(t) \/ Acquire(t) \/ Build(t) \/ Store(t) \/ Finish(t) \/ Fail(t)
       \/ \E kind \in Kinds : ReadKey(t, kind)

Spec == Init /\ [][Next]_vars

\* A thread that builds an adapter under the lock goes on: nothing in there waits.
FairSpec == Spec /\ \A t \in Threads : WF_vars(Build(t)) /\ WF_vars(Store(t)) /\ SF_vars(Acquire(t))
-----------------------------------------------------------------------------
(* Properties. *)

\* What an operation takes out of a cache was built from a core schema that the model
\* had during that operation, although the tag is read before the cache, the adapter is
\* built after the tag was read, and the current wire adapter has no tag at all
\* (_runtime_render.py:58-91, _runtime_validation.py:210-240, _runtime_payload.py:280-300).
PlansFresh ==
  \A t \in Threads :
    op[t].pc = "using" /\ op[t].cache.kind # "aliases" => op[t].built >= op[t].start

\* "per-model schema-keyed alias and field extraction plans"
\* (docs/guide/external-families.md:172-174): the same of alias plans.
AliasPlansFresh ==
  \A t \in Threads :
    op[t].pc = "using" /\ op[t].cache.kind = "aliases" => op[t].built >= op[t].start

\* Concurrent first uses of a family build its current wire adapter once, and it stays
\* (_runtime_render.py:69-91).
AdapterBuiltOnce ==
  [][\A f \in Families :
       LET c == CacheOf("adapter", f)
       IN entry[c] # NoEntry => entry'[c] = entry[c]]_vars

\* Whoever waits for the lock of a family's caches gets its adapter, or fails.
LookupEnds == \A t \in Threads : op[t].pc = "wait" ~> op[t].pc \in {"using", "idle"}
=============================================================================
