------------------------- MODULE RuntimeCacheProofs -------------------------
(***************************************************************************)
(* However many threads look up however many caches, and however often the *)
(* model is rebuilt and its family recreated meanwhile: no operation uses  *)
(* an adapter or an extraction plan older than the operation itself.       *)
(*                                                                         *)
(* Entries are compared with the operation that finds them.  An entry with *)
(* an identity as its tag is as young as the tag, and the tag was read     *)
(* after the operation began; the current wire adapter has no tag, but its *)
(* family was compiled from the schema the operation began with.           *)
(***************************************************************************)
EXTENDS RuntimeCache, TLAPS

\* Kinds whose entries are tagged with the core schema itself.
IdentityKinds == {"extraction", "canonical"}

\* A family in use was compiled from the core schema its operations began with.
FamiliesOk ==
  /\ \A f \in Families : own[f] <= schema
  /\ \A t \in Threads : op[t].pc # "idle" =>
       /\ op[t].family <= current
       /\ op[t].start = own[op[t].family]

\* What a lookup looks for, and where.
LookupOk(o) ==
  /\ o.cache = CacheOf(o.cache.kind, o.family)
  /\ o.key \in TagsOf(o.cache.kind)
  /\ o.cache.kind \in IdentityKinds => o.start <= o.key /\ o.key <= schema

\* What a thread is about to store is as young as its tag and its operation.
StoredOk(o) ==
  /\ o.start <= o.built
  /\ o.cache.kind \in IdentityKinds => o.key <= o.built

OpsOk ==
  \A t \in Threads :
    /\ op[t].pc \in {"look", "wait", "build", "store"} => LookupOk(op[t])
    /\ op[t].pc = "store" => StoredOk(op[t])

\* What the caches hold is as young as its tag, or as the family.
EntriesOk ==
  \A c \in Caches : entry[c] # NoEntry =>
    /\ c.kind \in IdentityKinds => entry[c].tag <= entry[c].built
    /\ c.kind = "adapter" => c.family <= current /\ own[c.family] <= entry[c].built

IInv == TypeOK /\ FamiliesOk /\ OpsOk /\ EntriesOk /\ PlansFresh

USE DEF Schemas, Families

-----------------------------------------------------------------------------
(* The parts of a cache's name. *)

LEMMA CacheParts ==
  ASSUME NEW kind \in ModelKinds \cup FamilyKinds, NEW f \in Families
  PROVE  /\ CacheOf(kind, f) \in Caches
         /\ CacheOf(kind, f).kind = kind
         /\ kind \in FamilyKinds => CacheOf(kind, f).family = f
  BY DEF Caches, CacheOf, FamilyKinds, ModelKinds

\* Caches of different kinds are different, and there are four kinds.
LEMMA CacheKinds ==
  ASSUME NEW c \in Caches
  PROVE  /\ c.kind \in {"aliases", "extraction", "adapter", "canonical"}
         /\ c.kind = "adapter" => c.family \in Families
  BY DEF Caches, CacheOf, FamilyKinds, ModelKinds

\* What Found finds for a lookup is as young as the operation.
LEMMA FoundFresh ==
  ASSUME IInv, NEW t \in Threads, op[t].pc \in {"look", "wait"},
         Found(op[t].cache, op[t].key), op[t].cache.kind # "aliases"
  PROVE  op[t].start <= entry[op[t].cache].built
<1> DEFINE c == op[t].cache
<1>1. op[t] \in Op /\ c \in Caches /\ LookupOk(op[t])
  BY DEF IInv, TypeOK, OpsOk, Op
<1>2. entry[c] # NoEntry /\ entry[c] \in Entry
  BY <1>1 DEF IInv, TypeOK, Found
<1>3. entry[c].built \in Schemas /\ op[t].start \in Schemas
  BY <1>1, <1>2 DEF Entry, Op
<1>4. CASE c.kind \in IdentityKinds
  <2>1. entry[c].tag = op[t].key
    BY <1>4 DEF Found, IdentityKinds
  <2>2. entry[c].tag <= entry[c].built
    BY <1>1, <1>2, <1>4 DEF IInv, EntriesOk
  <2> QED
    BY <1>1, <1>3, <1>4, <2>1, <2>2 DEF LookupOk, IdentityKinds, TagsOf
<1>5. CASE c.kind = "adapter"
  <2>1. own[c.family] <= entry[c].built
    BY <1>1, <1>2, <1>5 DEF IInv, EntriesOk
  <2>2. c.family = op[t].family
    BY <1>1, <1>5, CacheParts DEF LookupOk, Op, FamilyKinds
  <2>3. op[t].start = own[op[t].family]
    BY <1>1 DEF IInv, FamiliesOk
  <2> QED
    BY <2>1, <2>2, <2>3
<1> QED
  BY <1>1, <1>4, <1>5, CacheKinds DEF IdentityKinds

-----------------------------------------------------------------------------
(* Initially nothing is cached, and no operation is under way. *)

LEMMA InitIInv ==
  ASSUME Init
  PROVE  IInv
<1>1. NoOp \in Op
  BY BoundsAssumption, CacheParts DEF NoOp, Op, Tags, ModelKinds
<1>2. TypeOK
  BY <1>1, BoundsAssumption DEF Init, TypeOK
<1>3. FamiliesOk /\ OpsOk /\ EntriesOk /\ PlansFresh
  BY BoundsAssumption DEF Init, NoOp, FamiliesOk, OpsOk, EntriesOk, PlansFresh
<1> QED
  BY <1>2, <1>3 DEF IInv

-----------------------------------------------------------------------------
(* Steps of the model and of its families. *)

LEMMA RebuildIInv ==
  ASSUME IInv, NEW a \in Addresses, Rebuild(a)
  PROVE  IInv'
<1> USE DEF IInv
<1>1. schema' = schema + 1 /\ schema' \in Schemas /\ schema \in Schemas
  BY BoundsAssumption DEF Rebuild, TypeOK
<1>2. UNCHANGED <<own, current, entry, op>>
  BY DEF Rebuild
<1>3. TypeOK'
  <2>1. address' \in [Schemas -> Addresses \cup {NoAddress}]
    BY DEF Rebuild, TypeOK
  <2>2. ASSUME NEW s \in 0 .. schema' PROVE address'[s] \in Addresses
    <3>1. CASE s = schema + 1
      BY <1>1, <3>1 DEF Rebuild, TypeOK
    <3>2. CASE s \in 0 .. schema
      BY <1>1, <3>2 DEF Rebuild, TypeOK
    <3> QED
      BY <1>1, <3>1, <3>2
  <2> QED
    BY <1>1, <1>2, <2>1, <2>2 DEF TypeOK
<1>4. FamiliesOk'
  BY <1>1, <1>2 DEF FamiliesOk, TypeOK
<1>5. OpsOk'
  <2> SUFFICES ASSUME NEW t \in Threads,
                      op[t].pc \in {"look", "wait", "build", "store"}
               PROVE  LookupOk(op[t])' /\ (op[t].pc = "store" => StoredOk(op[t]))
    BY <1>2 DEF OpsOk, StoredOk
  <2>1. LookupOk(op[t]) /\ (op[t].pc = "store" => StoredOk(op[t]))
    BY DEF OpsOk
  <2>2. op[t].key \in Schemas \/ op[t].cache.kind = "aliases"
    BY <2>1 DEF LookupOk, TagsOf
  <2> QED
    BY <1>1, <1>2, <2>1, <2>2 DEF LookupOk, IdentityKinds, TagsOf
<1>6. EntriesOk' /\ PlansFresh'
  BY <1>2 DEF EntriesOk, PlansFresh
<1> QED
  BY <1>3, <1>4, <1>5, <1>6

LEMMA RecreateIInv ==
  ASSUME IInv, Recreate
  PROVE  IInv'
<1> USE DEF IInv
<1>1. current' = current + 1 /\ current' \in Families /\ current \in Families
  BY BoundsAssumption DEF Recreate, TypeOK
<1>2. UNCHANGED <<schema, address, entry, op>>
  BY DEF Recreate
<1>3. own' \in [Families -> Schemas] /\ \A f \in Families : own'[f] <= schema
  BY <1>1 DEF Recreate, TypeOK, FamiliesOk
<1>4. \A f \in Families : f <= current => own'[f] = own[f]
  BY <1>1 DEF Recreate, TypeOK
<1>5. TypeOK'
  BY <1>1, <1>2, <1>3 DEF TypeOK
<1>6. FamiliesOk'
  <2> SUFFICES ASSUME NEW t \in Threads, op[t].pc # "idle"
               PROVE  op[t].family <= current' /\ op[t].start = own'[op[t].family]
    BY <1>2, <1>3 DEF FamiliesOk
  <2>1. op[t].family \in Families /\ op[t].family <= current /\ op[t].start = own[op[t].family]
    BY DEF TypeOK, Op, FamiliesOk
  <2> QED
    BY <1>1, <1>4, <2>1
<1>7. EntriesOk'
  <2> SUFFICES ASSUME NEW c \in Caches, entry[c] # NoEntry, c.kind = "adapter"
               PROVE  c.family <= current' /\ own'[c.family] <= entry[c].built
    BY <1>2 DEF EntriesOk
  <2>1. c.family <= current /\ own[c.family] <= entry[c].built /\ c.family \in Families
    BY CacheKinds DEF EntriesOk
  <2> QED
    BY <1>1, <1>4, <2>1
<1>8. OpsOk' /\ PlansFresh'
  BY <1>2 DEF OpsOk, LookupOk, StoredOk, PlansFresh
<1> QED
  BY <1>5, <1>6, <1>7, <1>8

-----------------------------------------------------------------------------
(* Steps of a thread: one of the others is as before, and so are the       *)
(* model, its families and, except where a plan is stored, the caches.     *)

\* What has to be shown of the operation of a thread that takes a step.
OpOk(o) ==
  /\ o \in Op
  /\ o.pc # "idle" => o.family <= current /\ o.start = own[o.family]
  /\ o.pc \in {"look", "wait", "build", "store"} => LookupOk(o)
  /\ o.pc = "store" => StoredOk(o)
  /\ o.pc = "using" /\ o.cache.kind # "aliases" => o.built >= o.start

LEMMA OpsAreOk ==
  ASSUME IInv, NEW t \in Threads
  PROVE  OpOk(op[t])
BY DEF IInv, TypeOK, FamiliesOk, OpsOk, PlansFresh, OpOk

LEMMA NoOpOk == OpOk(NoOp)
<1>1. NoOp \in Op
  BY BoundsAssumption, CacheParts DEF NoOp, Op, Tags, ModelKinds
<1> QED
  BY <1>1 DEF OpOk, NoOp

LEMMA ThreadStep ==
  ASSUME IInv, NEW t \in Threads, NEW o, OpOk(o), op' = [op EXCEPT ![t] = o],
         UNCHANGED <<schema, address, own, current, entry>>
  PROVE  IInv'
<1> USE DEF IInv
<1>1. op \in [Threads -> Op] /\ o \in Op
  BY DEF TypeOK, OpOk
<1>2. ASSUME NEW u \in Threads PROVE OpOk(op'[u])
  BY <1>1, OpsAreOk
<1>3. op' \in [Threads -> Op]
  BY <1>1
<1>4. TypeOK' /\ EntriesOk'
  BY <1>3 DEF TypeOK, EntriesOk
<1>5. FamiliesOk'
  BY <1>2 DEF FamiliesOk, OpOk
<1>6. OpsOk'
  BY <1>2 DEF OpsOk, OpOk, LookupOk, StoredOk
<1>7. PlansFresh'
  BY <1>2 DEF PlansFresh, OpOk
<1> QED
  BY <1>4, <1>5, <1>6, <1>7

LEMMA BeginIInv ==
  ASSUME IInv, NEW t \in Threads, Begin(t)
  PROVE  IInv'
<1> DEFINE o == [NoOp EXCEPT !.pc = "ready", !.family = current, !.start = schema]
<1>1. o \in Op
  BY NoOpOk DEF NoOp, OpOk, Op, IInv, TypeOK
<1>2. o.pc = "ready" /\ o.family = current /\ o.start = schema
  BY DEF NoOp
<1>3. current <= current /\ schema = own[current]
  BY DEF Begin, IInv, TypeOK
<1>4. OpOk(o)
  BY <1>1, <1>2, <1>3 DEF OpOk
<1>5. op' = [op EXCEPT ![t] = o] /\ UNCHANGED <<schema, address, own, current, entry>>
  BY DEF Begin
<1> QED
  BY <1>4, <1>5, ThreadStep

LEMMA ReadKeyIInv ==
  ASSUME IInv, NEW t \in Threads, NEW kind \in Kinds, ReadKey(t, kind)
  PROVE  IInv'
<1> DEFINE c == CacheOf(kind, op[t].family)
           o == [op[t] EXCEPT !.pc = "look", !.cache = c, !.key = Key(kind), !.built = 0]
<1>1. op[t] \in Op /\ op[t].pc # "idle"
  BY DEF IInv, TypeOK, ReadKey
<1>2. c \in Caches /\ c.kind = kind
  <2>1. kind \in ModelKinds \cup FamilyKinds
    BY KindsAssumption DEF ModelKinds, FamilyKinds
  <2> QED
    BY <1>1, <2>1, CacheParts DEF Op
<1>3. schema \in Schemas /\ Key(kind) \in TagsOf(kind)
  <2>1. schema \in Schemas /\ schema \in 0 .. schema
    BY BoundsAssumption DEF IInv, TypeOK
  <2>2. address[schema] \in Addresses
    BY <2>1 DEF IInv, TypeOK
  <2> QED
    BY <2>1, <2>2 DEF Key, TagsOf
<1>4. o \in Op
  <2>1. Key(kind) \in Tags /\ 0 \in Schemas
    BY <1>3, BoundsAssumption DEF Tags, TagsOf
  <2> QED
    BY <1>1, <1>2, <2>1 DEF Op
<1>5. /\ o.pc = "look" /\ o.cache = c /\ o.key = Key(kind)
      /\ o.family = op[t].family /\ o.start = op[t].start
  BY <1>1 DEF Op
<1>6. op[t].family <= current /\ op[t].start = own[op[t].family] /\ own[op[t].family] <= schema
  BY <1>1 DEF IInv, FamiliesOk, Op
<1>7. LookupOk(o)
  BY <1>2, <1>3, <1>5, <1>6 DEF LookupOk, Key, TagsOf, IdentityKinds
<1>8. OpOk(o)
  BY <1>4, <1>5, <1>6, <1>7 DEF OpOk
<1>9. op' = [op EXCEPT ![t] = o] /\ UNCHANGED <<schema, address, own, current, entry>>
  BY DEF ReadKey
<1> HIDE DEF o, c
<1> QED
  BY <1>8, <1>9, ThreadStep

LEMMA LookIInv ==
  ASSUME IInv, NEW t \in Threads, Look(t)
  PROVE  IInv'
<1> DEFINE c == op[t].cache
           hit == [op[t] EXCEPT !.pc = "using", !.built = entry[c].built]
           miss == [op[t] EXCEPT !.pc = IF c.kind \in FamilyKinds THEN "wait" ELSE "build"]
<1>1. op[t] \in Op /\ op[t].pc = "look" /\ OpOk(op[t])
  BY OpsAreOk DEF OpOk, Look
<1>2. UNCHANGED <<schema, address, own, current, entry>>
  BY DEF Look
<1>3. CASE Found(c, op[t].key)
  <2>1. entry[c].built \in Schemas
    BY <1>1, <1>3 DEF Found, IInv, TypeOK, Op, Entry
  <2>2. c.kind # "aliases" => op[t].start <= entry[c].built
    BY <1>1, <1>3, FoundFresh
  <2>3. OpOk(hit)
    BY <1>1, <2>1, <2>2 DEF OpOk, Op
  <2>4. op' = [op EXCEPT ![t] = hit]
    BY <1>3 DEF Look
  <2> QED
    BY <1>2, <2>3, <2>4, ThreadStep
<1>4. CASE ~Found(c, op[t].key)
  <2>1. OpOk(miss)
    BY <1>1 DEF OpOk, Op, LookupOk
  <2>2. op' = [op EXCEPT ![t] = miss]
    BY <1>4 DEF Look
  <2> QED
    BY <1>2, <2>1, <2>2, ThreadStep
<1> QED
  BY <1>3, <1>4

LEMMA AcquireIInv ==
  ASSUME IInv, NEW t \in Threads, Acquire(t)
  PROVE  IInv'
<1> DEFINE c == op[t].cache
           hit == [op[t] EXCEPT !.pc = "using", !.built = entry[c].built]
           miss == [op[t] EXCEPT !.pc = "build"]
<1>1. op[t] \in Op /\ op[t].pc = "wait" /\ OpOk(op[t])
  BY OpsAreOk DEF OpOk, Acquire
<1>2. UNCHANGED <<schema, address, own, current, entry>>
  BY DEF Acquire
<1>3. CASE Found(c, op[t].key)
  <2>1. entry[c].built \in Schemas
    BY <1>1, <1>3 DEF Found, IInv, TypeOK, Op, Entry
  <2>2. c.kind # "aliases" => op[t].start <= entry[c].built
    BY <1>1, <1>3, FoundFresh
  <2>3. OpOk(hit)
    BY <1>1, <2>1, <2>2 DEF OpOk, Op
  <2>4. op' = [op EXCEPT ![t] = hit]
    BY <1>3 DEF Acquire, FoundUnderLock
  <2> QED
    BY <1>2, <2>3, <2>4, ThreadStep
<1>4. CASE ~Found(c, op[t].key)
  <2>1. OpOk(miss)
    BY <1>1 DEF OpOk, Op, LookupOk
  <2>2. op' = [op EXCEPT ![t] = miss]
    BY <1>4 DEF Acquire, FoundUnderLock
  <2> QED
    BY <1>2, <2>1, <2>2, ThreadStep
<1> QED
  BY <1>3, <1>4

\* A thread builds from the schema the model has by then, no older than the tag.
LEMMA BuildIInv ==
  ASSUME IInv, NEW t \in Threads, Build(t)
  PROVE  IInv'
<1> DEFINE o == [op[t] EXCEPT !.pc = "store", !.built = schema]
<1>1. op[t] \in Op /\ op[t].pc = "build" /\ OpOk(op[t]) /\ schema \in Schemas
  BY OpsAreOk DEF OpOk, Build, IInv, TypeOK
<1>2. op[t].start <= schema
  BY <1>1 DEF OpOk, IInv, FamiliesOk, Op
<1>3. /\ o \in Op /\ o.pc = "store" /\ o.built = schema
      /\ o.family = op[t].family /\ o.start = op[t].start
      /\ o.cache = op[t].cache /\ o.key = op[t].key
  BY <1>1 DEF Op
<1>4. LookupOk(op[t])
  BY <1>1 DEF OpOk
<1>5. LookupOk(o) /\ StoredOk(o)
  BY <1>2, <1>3, <1>4 DEF LookupOk, StoredOk
<1>6. OpOk(o)
  BY <1>1, <1>3, <1>5 DEF OpOk
<1>7. op' = [op EXCEPT ![t] = o] /\ UNCHANGED <<schema, address, own, current, entry>>
  BY DEF Build
<1> HIDE DEF o
<1> QED
  BY <1>6, <1>7, ThreadStep

\* What is stored is as young as its tag; an adapter, as young as its family, because
\* the operation that stores it is.
LEMMA StoreIInv ==
  ASSUME IInv, NEW t \in Threads, Store(t)
  PROVE  IInv'
<1> DEFINE c == op[t].cache
           e == [tag |-> op[t].key, built |-> op[t].built]
           o == [op[t] EXCEPT !.pc = "using"]
<1>1. op[t] \in Op /\ op[t].pc = "store" /\ OpOk(op[t]) /\ c \in Caches
  BY OpsAreOk DEF OpOk, Store, Op
<1>2. LookupOk(op[t]) /\ StoredOk(op[t])
  BY <1>1 DEF OpOk
<1>3. UNCHANGED <<schema, address, own, current>>
  BY DEF Store
<1>4. entry' = [entry EXCEPT ![c] = e] /\ entry \in [Caches -> Entry \cup {NoEntry}]
  BY DEF Store, IInv, TypeOK
<1>5. OpOk(o)
  BY <1>1, <1>2 DEF OpOk, Op, StoredOk
<1>6. e \in Entry /\ e.tag \in TagsOf(c.kind)
  BY <1>1, <1>2, CacheKinds DEF Entry, Op, LookupOk, TagsOf, IdentityKinds
<1>7. /\ c.kind \in IdentityKinds => e.tag <= e.built
      /\ c.kind = "adapter" => c.family <= current /\ own[c.family] <= e.built
  <2>1. c.kind = "adapter" => c.family = op[t].family
    BY <1>1, <1>2, CacheParts DEF LookupOk, Op, FamilyKinds
  <2> QED
    BY <1>1, <1>2, <2>1 DEF StoredOk, OpOk
<1> HIDE DEF e
<1>8. entry' \in [Caches -> Entry \cup {NoEntry}]
  BY <1>1, <1>4, <1>6
<1>9. \A d \in Caches : entry'[d] = IF d = c THEN e ELSE entry[d]
  BY <1>1, <1>4
<1> HIDE DEF c
<1>10. EntriesOk'
  BY <1>3, <1>7, <1>9 DEF IInv, EntriesOk
<1>11. op' = [op EXCEPT ![t] = o] /\ op \in [Threads -> Op] /\ o \in Op
  BY <1>5 DEF Store, IInv, TypeOK, OpOk
<1> HIDE DEF o
<1>12. ASSUME NEW u \in Threads PROVE OpOk(op'[u])
  BY <1>5, <1>11, OpsAreOk
<1>13. op' \in [Threads -> Op]
  BY <1>11
<1>14. TypeOK'
  BY <1>3, <1>6, <1>8, <1>9, <1>13 DEF IInv, TypeOK
<1>15. FamiliesOk'
  BY <1>3, <1>12 DEF IInv, FamiliesOk, OpOk
<1>16. OpsOk'
  BY <1>3, <1>12 DEF OpsOk, OpOk, LookupOk, StoredOk
<1>17. PlansFresh'
  BY <1>12 DEF PlansFresh, OpOk
<1> QED
  BY <1>10, <1>14, <1>15, <1>16, <1>17 DEF IInv

-----------------------------------------------------------------------------
(* The theorem. *)

LEMMA NextIInv ==
  ASSUME IInv, [Next]_vars
  PROVE  IInv'
<1>1. ASSUME NEW t \in Threads, Finish(t) \/ Fail(t) PROVE IInv'
  BY <1>1, NoOpOk, ThreadStep DEF Finish, Fail
<1>2. CASE UNCHANGED vars
  BY <1>2 DEF vars, IInv, TypeOK, FamiliesOk, OpsOk, LookupOk, StoredOk, EntriesOk, PlansFresh
<1>3. CASE Refuse
  BY <1>2, <1>3 DEF Refuse
<1> QED
  BY <1>1, <1>2, <1>3, RebuildIInv, RecreateIInv, BeginIInv, ReadKeyIInv, LookIInv,
     AcquireIInv, BuildIInv, StoreIInv DEF Next

\* Schemas, addresses, entries and operations are of their types, and every entry has a
\* tag that its cache uses (_runtime_validation.py:210-240, _runtime_versioning.py:385-389).
THEOREM CacheTypeCorrect == Spec => []TypeOK
<1>1. Init => IInv
  BY InitIInv
<1>2. IInv /\ [Next]_vars => IInv'
  BY NextIInv
<1>3. IInv => TypeOK
  BY DEF IInv
<1> QED
  BY <1>1, <1>2, <1>3, PTL DEF Spec

\* What an operation takes out of a cache was built from a core schema the model had
\* during that operation, for any number of threads, rebuilds and families
\* (_runtime_render.py:58-91, _runtime_validation.py:210-240, _runtime_payload.py:280-300).
THEOREM AlwaysFresh == Spec => []PlansFresh
<1>1. Init => IInv
  BY InitIInv
<1>2. IInv /\ [Next]_vars => IInv'
  BY NextIInv
<1>3. IInv => PlansFresh
  BY DEF IInv
<1> QED
  BY <1>1, <1>2, <1>3, PTL DEF Spec

-----------------------------------------------------------------------------
(* The double-checked lookup: who is inside the lock of a family is there  *)
(* alone, and has seen there that no adapter is stored.                    *)

Inside(t) == op[t].pc \in {"build", "store"}

LockInv ==
  /\ \A t, u \in Threads : \A f \in Families :
       Inside(t) /\ Inside(u) /\ op[t].cache.family = f /\ op[u].cache.family = f => t = u
  /\ \A t \in Threads :
       Inside(t) /\ op[t].cache.kind = "adapter" => entry[op[t].cache] = NoEntry

\* A step that leaves the caches alone and puts nobody new inside keeps the lock.
LEMMA NobodyEnters ==
  ASSUME IInv, LockInv, UNCHANGED entry, NEW t \in Threads, NEW o,
         op' = [op EXCEPT ![t] = o],
         o.pc \in {"build", "store"} => Inside(t) /\ o.cache = op[t].cache
  PROVE  LockInv'
<1>1. \A u \in Threads : op'[u] = IF u = t THEN o ELSE op[u]
  BY DEF IInv, TypeOK
<1>2. \A u \in Threads : Inside(u)' => Inside(u) /\ op'[u].cache = op[u].cache
  BY <1>1 DEF Inside
<1> QED
  BY <1>2 DEF LockInv

\* Somebody who misses without a lock builds for the model, not for a family.
LEMMA LookLock ==
  ASSUME IInv, LockInv, NEW t \in Threads, Look(t)
  PROVE  LockInv'
<1> DEFINE c == op[t].cache
           o == IF Found(c, op[t].key) THEN [op[t] EXCEPT !.pc = "using", !.built = entry[c].built]
                ELSE [op[t] EXCEPT !.pc = IF c.kind \in FamilyKinds THEN "wait" ELSE "build"]
<1>1. op[t] \in Op /\ c \in Caches
  BY DEF IInv, TypeOK, Op
<1>2. op' = [op EXCEPT ![t] = o] /\ UNCHANGED entry
  BY DEF Look
<1>3. CASE o.pc # "build"
  <2>1. o.pc \notin {"build", "store"}
    BY <1>1, <1>3 DEF Op
  <2> HIDE DEF o
  <2> QED
    BY <1>2, <2>1, NobodyEnters
<1>4. CASE o.pc = "build"
  <2>1. c.kind \notin FamilyKinds /\ o.cache = c
    BY <1>1, <1>4 DEF Op
  <2>2. c.kind # "adapter" /\ c.family \notin Families
    BY <1>1, <2>1, BoundsAssumption DEF Caches, CacheOf, ModelKinds, FamilyKinds
  <2> HIDE DEF o
  <2>3. \A u \in Threads : op'[u] = IF u = t THEN o ELSE op[u]
    BY <1>2 DEF IInv, TypeOK
  <2>4. ASSUME NEW u \in Threads, Inside(u)', op'[u].cache.family \in Families
        PROVE  u # t /\ Inside(u) /\ op'[u].cache = op[u].cache
    BY <2>1, <2>2, <2>3, <2>4 DEF Inside
  <2>5. ASSUME NEW u \in Threads, Inside(u)', op'[u].cache.kind = "adapter"
        PROVE  u # t /\ Inside(u) /\ op'[u].cache = op[u].cache
    BY <2>1, <2>2, <2>3, <2>5 DEF Inside
  <2> QED
    BY <1>2, <2>4, <2>5 DEF LockInv
<1> QED
  BY <1>3, <1>4

\* Somebody enters a lock that is free, and stays if there is no entry.
LEMMA AcquireLock ==
  ASSUME IInv, LockInv, NEW t \in Threads, Acquire(t)
  PROVE  LockInv'
<1> DEFINE c == op[t].cache
           hit == [op[t] EXCEPT !.pc = "using", !.built = entry[c].built]
           miss == [op[t] EXCEPT !.pc = "build"]
<1>1. op[t] \in Op /\ c \in Caches /\ UNCHANGED entry
  BY DEF IInv, TypeOK, Op, Acquire
<1>2. CASE Found(c, op[t].key)
  <2>1. op' = [op EXCEPT ![t] = hit] /\ hit.pc = "using"
    BY <1>1, <1>2 DEF Acquire, FoundUnderLock, Op
  <2> HIDE DEF hit
  <2> QED
    BY <1>1, <2>1, NobodyEnters
<1>3. CASE ~Found(c, op[t].key)
  <2>1. op' = [op EXCEPT ![t] = miss] /\ miss.cache = c
    BY <1>1, <1>3 DEF Acquire, FoundUnderLock, Op
  <2> HIDE DEF miss
  <2>2. \A u \in Threads : op'[u] = IF u = t THEN miss ELSE op[u]
    BY <2>1 DEF IInv, TypeOK
  <2>3. \A u \in Threads : Inside(u) => op[u].cache.family # c.family
    BY DEF Acquire, Locked, Inside
  <2>4. c.kind = "adapter" => entry[c] = NoEntry
    BY <1>3 DEF Found
  <2>5. ASSUME NEW u \in Threads, Inside(u)'
        PROVE  /\ op'[u].cache = op[u].cache
               /\ u # t => Inside(u)
    BY <2>1, <2>2, <2>5 DEF Inside
  <2>6. ASSUME NEW u \in Threads, NEW v \in Threads, NEW f \in Families, Inside(u)', Inside(v)',
               op'[u].cache.family = f, op'[v].cache.family = f
        PROVE  u = v
    BY <2>3, <2>5, <2>6 DEF LockInv
  <2>7. ASSUME NEW u \in Threads, Inside(u)', op'[u].cache.kind = "adapter"
        PROVE  entry'[op'[u].cache] = NoEntry
    BY <1>1, <2>4, <2>5, <2>7 DEF LockInv
  <2> QED
    BY <2>6, <2>7 DEF LockInv
<1> QED
  BY <1>2, <1>3

\* Whoever stores an adapter leaves the lock; nobody else is inside.
LEMMA StoreLock ==
  ASSUME IInv, LockInv, NEW t \in Threads, Store(t)
  PROVE  LockInv'
<1> DEFINE c == op[t].cache
           o == [op[t] EXCEPT !.pc = "using"]
<1>1. op[t] \in Op /\ c \in Caches /\ Inside(t) /\ o.pc = "using"
  BY DEF IInv, TypeOK, Op, Store, Inside
<1>2. op' = [op EXCEPT ![t] = o]
  BY DEF Store
<1>3. \A d \in Caches : d # c => entry'[d] = entry[d]
  BY DEF Store, IInv, TypeOK
<1> HIDE DEF o
<1>4. ASSUME NEW u \in Threads, Inside(u)'
      PROVE  u # t /\ Inside(u) /\ op'[u].cache = op[u].cache /\ op[u].cache \in Caches
  BY <1>1, <1>2, <1>4 DEF Inside, IInv, TypeOK, Op
<1>5. ASSUME NEW u \in Threads, Inside(u)', op'[u].cache.kind = "adapter"
      PROVE  entry'[op'[u].cache] = NoEntry
  <2>1. op[u].cache # c
    BY <1>1, <1>4, <1>5, CacheKinds DEF LockInv
  <2> QED
    BY <1>3, <1>4, <1>5, <2>1 DEF LockInv
<1> QED
  BY <1>4, <1>5 DEF LockInv

LEMMA NextLock ==
  ASSUME IInv, LockInv, [Next]_vars
  PROVE  LockInv'
<1>1. CASE UNCHANGED <<entry, op>>
  BY <1>1 DEF LockInv, Inside
<1>2. (\E a \in Addresses : Rebuild(a)) \/ Recreate \/ Refuse \/ UNCHANGED vars
        => UNCHANGED <<entry, op>>
  BY DEF Rebuild, Recreate, Refuse, vars
<1>3. ASSUME NEW t \in Threads, Begin(t) PROVE LockInv'
  <2> DEFINE o == [NoOp EXCEPT !.pc = "ready", !.family = current, !.start = schema]
  <2>1. o.pc = "ready" /\ op' = [op EXCEPT ![t] = o] /\ UNCHANGED entry
    BY <1>3 DEF Begin, NoOp
  <2> HIDE DEF o
  <2> QED
    BY <2>1, NobodyEnters
<1>4. ASSUME NEW t \in Threads, NEW kind \in Kinds, ReadKey(t, kind) PROVE LockInv'
  <2> DEFINE o == [op[t] EXCEPT !.pc = "look", !.cache = CacheOf(kind, op[t].family),
                                !.key = Key(kind), !.built = 0]
  <2>1. o.pc = "look" /\ op' = [op EXCEPT ![t] = o] /\ UNCHANGED entry
    BY <1>4 DEF ReadKey, IInv, TypeOK, Op
  <2> HIDE DEF o
  <2> QED
    BY <2>1, NobodyEnters
<1>5. ASSUME NEW t \in Threads, Build(t) PROVE LockInv'
  <2> DEFINE o == [op[t] EXCEPT !.pc = "store", !.built = schema]
  <2>1. o.cache = op[t].cache /\ Inside(t) /\ op' = [op EXCEPT ![t] = o] /\ UNCHANGED entry
    BY <1>5 DEF Build, Inside, IInv, TypeOK, Op
  <2> HIDE DEF o
  <2> QED
    BY <2>1, NobodyEnters
<1>6. ASSUME NEW t \in Threads, Finish(t) \/ Fail(t) PROVE LockInv'
  <2>1. NoOp.pc = "idle" /\ op' = [op EXCEPT ![t] = NoOp] /\ UNCHANGED entry
    BY <1>6 DEF Finish, Fail, NoOp
  <2> QED
    BY <2>1, NobodyEnters
<1> QED
  BY <1>1, <1>2, <1>3, <1>4, <1>5, <1>6, LookLock, AcquireLock, StoreLock DEF Next

\* Concurrent first uses of a family build its current wire adapter once, and it stays,
\* for any number of threads (_runtime_render.py:69-91).
THEOREM BuiltOnce == Spec => AdapterBuiltOnce
<1>1. Init => IInv /\ LockInv
  BY InitIInv DEF Init, NoOp, LockInv, Inside
<1>2. IInv /\ LockInv /\ [Next]_vars => IInv' /\ LockInv'
  BY NextIInv, NextLock
<1>3. ASSUME IInv, LockInv, [Next]_vars, NEW f \in Families,
             entry[CacheOf("adapter", f)] # NoEntry
      PROVE  entry'[CacheOf("adapter", f)] = entry[CacheOf("adapter", f)]
  <2> DEFINE c == CacheOf("adapter", f)
  <2>1. c \in Caches /\ c.kind = "adapter"
    BY CacheParts DEF FamilyKinds
  <2>2. ASSUME NEW t \in Threads, Store(t) PROVE entry'[c] = entry[c]
    <3>1. op[t].cache # c
      BY <1>3, <2>1, <2>2 DEF LockInv, Inside, Store
    <3> QED
      BY <2>1, <2>2, <3>1 DEF Store, IInv, TypeOK
  <2>3. (~\E t \in Threads : Store(t)) => UNCHANGED entry
    BY <1>3 DEF Next, vars, Rebuild, Recreate, Begin, Refuse, ReadKey, Look, Acquire, Build,
       Finish, Fail
  <2> QED
    BY <2>2, <2>3
<1>4. IInv /\ LockInv /\ [Next]_vars =>
        [\A f \in Families :
           LET c == CacheOf("adapter", f)
           IN entry[c] # NoEntry => entry'[c] = entry[c]]_vars
  BY <1>3
<1> QED
  BY <1>1, <1>2, <1>4, PTL DEF Spec, AdapterBuiltOnce
=============================================================================
