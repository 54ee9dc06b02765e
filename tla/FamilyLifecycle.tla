--------------------------- MODULE FamilyLifecycle ---------------------------
(***************************************************************************)
(* The life of the SchemaFamily objects of one process (family.py, with    *)
(* the compile-time resolution of nested families in _compiler.py and      *)
(* _wire_nested.py): lazy compilation under the global reentrant           *)
(* _FAMILY_LOCK, the lock-free fast path of _compiled_family(), migration  *)
(* registration, selection of a model's default family, and forced         *)
(* rebuilds of the authoritative Pydantic models.                          *)
(*                                                                         *)
(* A core schema is represented by its identity, a number that grows with  *)
(* every forced rebuild of its model: the code compares core schemas with  *)
(* `is`.  Generated wire models and plans are left out; what a compilation *)
(* read in order to build them is kept.                                    *)
(***************************************************************************)
EXTENDS Naturals, Sequences

CONSTANTS
  Threads,          \* callers of the library
  Models,           \* authoritative Pydantic models
  Families,         \* SchemaFamily objects
  Edges,            \* (source, target) label pairs a migration() call may name
  ModelOf,          \* [Families -> Models]: family.model
  Routes,           \* [Families -> Seq(Route)]: the nested= declarations, in order
  Fields,           \* [Families -> SUBSET Models]: models found while walking the
                    \* annotations of family.model outside every declared path
  Decorated,        \* families created by @versioned_schema
  Adjacent,         \* [Families -> SUBSET Edges]: adjacent forward label pairs
  Migrations,       \* the (family, edge) pairs that callers try to register
  RacingRebuilds,   \* may model_rebuild(force=True) race family operations?
  MaxRebuilds,      \* bound: forced rebuilds of one model
  NoFamily, NoThread, NoArtifact

Direct(f)   == [kind |-> "direct",   family |-> f]
Provider(f) == [kind |-> "provider", family |-> f]
Route == [kind : {"direct", "provider"}, family : Families]

ASSUME ConstantsAssumption ==
  /\ ModelOf \in [Families -> Models]
  /\ Routes \in [Families -> Seq(Route)]
  /\ Fields \in [Families -> SUBSET Models]
  /\ Decorated \subseteq Families
  /\ Adjacent \in [Families -> SUBSET Edges]
  /\ Migrations \subseteq Families \X Edges
  /\ RacingRebuilds \in BOOLEAN
  /\ MaxRebuilds \in Nat
  /\ NoFamily \notin Families
  /\ NoThread \notin Threads

VARIABLES
  schema,       \* schema[m]: identity of m.__pydantic_core_schema__
  compiled,     \* compiled[f]: family._compiled
  compiling,    \* the families whose _compiling flag is set
  transitions,  \* transitions[f]: edges of family._transitions, in order
  default,      \* default[m]: the family stored on the model by as_default()
  factories,    \* decorators returned by migration() and kept by their callers
  holder,       \* the thread that owns _FAMILY_LOCK
  stack,        \* compile() calls the holder is inside, outermost first
  frame,        \* frame[f]: local state of the compile() call of f on the stack
  raising,      \* is an exception unwinding the stack?
  call          \* call[t]: the family operation thread t performs

vars == <<schema, compiled, compiling, transitions, default, factories,
          holder, stack, frame, raising, call>>

Schemas == 0 .. MaxRebuilds

(***************************************************************************)
(* What compile() publishes: the schema it captured (own), the schemas of  *)
(* every embedded family (deps), the migrations it compiled, the families  *)
(* it embeds (kids explicitly, found by discovery), and the identities of  *)
(* the core schema it read while building wire models (builtFrom).         *)
(***************************************************************************)
Dependency == [family : Families, schema : Schemas]
Artifact ==
  [own : Schemas, deps : SUBSET Dependency, transitions : Seq(Edges),
   kids : SUBSET Families, found : SUBSET Families, builtFrom : SUBSET Schemas]

ASSUME NoArtifactAssumption ==
  NoArtifact \notin Artifact \cup [own : Schemas, transitions : Seq(Edges)]

(***************************************************************************)
(* Local state of a compile() call: who called it (via), which part of     *)
(* compile() it is in, the schema it captured, the migrations it validated,*)
(* the next nested declaration, the children resolved so far, the children *)
(* whose wire models it has built against, and whether the provider it is  *)
(* calling has already called back into the library (bound: one call back  *)
(* for each provider call).                                                *)
(***************************************************************************)
Frame ==
  [via : {"root", "route", "build", "provider"}, phase : {"boundary", "build"},
   own : Schemas, validated : Seq(Edges), next : Nat \ {0},
   kids : SUBSET Families, found : SUBSET Families, touched : SUBSET Families,
   builtFrom : SUBSET Schemas, called : BOOLEAN]

NoFrame ==
  [via |-> "root", phase |-> "boundary", own |-> 0, validated |-> <<>>, next |-> 1,
   kids |-> {}, found |-> {}, touched |-> {}, builtFrom |-> {}, called |-> FALSE]

\* A thread is between calls, and remembers how its last one ended (served with the
\* family's artifact, done, or with an error), or inside a call for a family.
Results == {"none", "served", "done", "error"}
Idle(result) == [pc |-> "idle", family |-> NoFamily, result |-> result]
Call == {Idle(r) : r \in Results} \cup
        [pc : {"read", "enter", "inside"}, family : Families, result : {"none"}]

TypeOK ==
  /\ schema \in [Models -> Schemas]
  /\ compiled \in [Families -> Artifact \cup {NoArtifact}]
  /\ compiling \subseteq Families
  /\ transitions \in [Families -> Seq(Edges)]
  /\ default \in [Models -> Families \cup {NoFamily}]
  /\ factories \subseteq Migrations
  /\ holder \in Threads \cup {NoThread}
  /\ stack \in Seq(Families)
  /\ frame \in [Families -> Frame]
  /\ raising \in BOOLEAN
  /\ call \in [Threads -> Call]

Init ==
  /\ schema = [m \in Models |-> 0]
  /\ compiled = [f \in Families |-> NoArtifact]
  /\ compiling = {}
  /\ transitions = [f \in Families |-> <<>>]
  /\ default = [m \in Models |-> NoFamily]
  /\ factories = {}
  /\ holder = NoThread
  /\ stack = <<>>
  /\ frame = [f \in Families |-> NoFrame]
  /\ raising = FALSE
  /\ call = [t \in Threads |-> Idle("none")]

-----------------------------------------------------------------------------
(* State functions. *)

Published(f) == compiled[f] # NoArtifact

\* _ensure_compiled_graph_unchanged(compiled) finds nothing to raise.  The loop
\* over the dependencies is one step: identities never come back, so a loop that
\* passes would also have passed had it run at its beginning, and one that fails
\* would also have failed had it run at its end.
Unchanged(artifact) ==
  \A d \in artifact.deps : schema[ModelOf[d.family]] = d.schema

Top == stack[Len(stack)]
Below == SubSeq(stack, 1, Len(stack) - 1)
Caller == stack[Len(stack) - 1]
Route1(p) == Routes[p][frame[p].next]
Children(p) == frame[p].kids \cup frame[p].found

Active(phase) == stack # <<>> /\ ~raising /\ frame[Top].phase = phase

\* The top compile() call is inside a callable family provider, user code that
\* may call the library again on the thread that owns the lock.
InProvider ==
  /\ Active("boundary")
  /\ frame[Top].next <= Len(Routes[Top])
  /\ Route1(Top).kind = "provider"
  /\ ~frame[Top].called

\* The families _family_graph_was_rebuilt examines from f: it descends through
\* families that are not compiled, and only along direct nested declarations.
Examined(f) ==
  LET closed(S) == \A g \in S :
        compiled[g] = NoArtifact =>
          \A i \in DOMAIN Routes[g] :
            Routes[g][i].kind = "direct" => Routes[g][i].family \in S
  IN {g \in Families : \A S \in SUBSET Families : f \in S /\ closed(S) => g \in S}

\* Mutant of GraphWasRebuilt: a family that was never compiled may be displaced.
GraphWasRebuiltOrNew(f) ==
  \E g \in Examined(f) : Published(g) => ~Unchanged(compiled[g])

GraphWasRebuilt(f) ==
  \E g \in Examined(f) : Published(g) /\ ~Unchanged(compiled[g])

\* _compile_decorator_nested_families: the decorator-created default families of
\* the models that the annotations of a decorator-created owner reach.
Discovered(p) ==
  IF p \in Decorated
  THEN {default[m] : m \in Fields[p]} \cap Decorated
  ELSE {}

\* Mutant of Dependencies: the schemas the children's models have now.
DependenciesReadNow(p) ==
  {[family |-> p, schema |-> frame[p].own]} \cup
  {[family |-> d.family, schema |-> schema[ModelOf[d.family]]] :
     d \in UNION {compiled[k].deps : k \in Children(p)}}

\* _collect_schema_dependencies: the owner first, then what its children recorded.
Dependencies(p) ==
  {[family |-> p, schema |-> frame[p].own]} \cup
  {d \in UNION {compiled[k].deps : k \in Children(p)} : d.family # p}

\* Mutant of TransitionAllowed: a compilation in progress is not considered.
TransitionAllowedWhileCompiling(f, e) ==
  ~Published(f) /\ e \in Adjacent[f] /\ \A i \in DOMAIN transitions[f] : transitions[f][i] # e

\* Mutant of TransitionAllowed: only a compilation in progress is considered.
TransitionAllowedAfterCompile(f, e) ==
  f \notin compiling /\ e \in Adjacent[f] /\ \A i \in DOMAIN transitions[f] : transitions[f][i] # e

\* _ensure_legacy_transition_allowed(source, target) finds nothing to raise.
TransitionAllowed(f, e) ==
  /\ ~Published(f)
  /\ f \notin compiling
  /\ e \in Adjacent[f]
  /\ \A i \in DOMAIN transitions[f] : transitions[f][i] # e

-----------------------------------------------------------------------------
(* Calls made by threads, outside the lock or in one critical section. *)

Return(t, result) == call' = [call EXCEPT ![t] = Idle(result)]

\* Mutant of MustCompile: the second look at _compiled, under the lock, is missing.
MustCompileAnyway(f) == f \notin compiling

\* What compile() finds once it owns the lock: nothing compiled (another thread may
\* have been faster), and no compilation in progress.
MustCompile(f) == ~Published(f) /\ f \notin compiling

\* compile() of g, which is neither compiled nor compiling, begins.
Push(g, via) ==
  /\ stack' = Append(stack, g)
  /\ compiling' = compiling \cup {g}
  /\ frame' = [frame EXCEPT ![g] =
       [NoFrame EXCEPT !.via = via, !.own = schema[ModelOf[g]],
                       !.validated = transitions[g]]]

\* family.validate(...), dump, describe, plan_*, model_for: the operation is
\* about to call _compiled_family().
Begin(t, f) ==
  /\ call[t].pc = "idle"
  /\ call' = [call EXCEPT ![t] = [pc |-> "read", family |-> f, result |-> "none"]]
  /\ UNCHANGED <<schema, compiled, compiling, transitions, default, factories,
                 holder, stack, frame, raising>>

\* validate_versioned(Model, ...), dump_versioned, model_for_version: _family_for
\* reads the model's default family under the lock.
BeginModelCall(t, m) ==
  /\ call[t].pc = "idle"
  /\ holder = NoThread
  /\ call' = [call EXCEPT ![t] =
       IF default[m] = NoFamily
       THEN Idle("error")
       ELSE [pc |-> "read", family |-> default[m], result |-> "none"]]
  /\ UNCHANGED <<schema, compiled, compiling, transitions, default, factories,
                 holder, stack, frame, raising>>

\* family.compile() by the application.
BeginCompile(t, f) ==
  /\ call[t].pc = "idle"
  /\ call' = [call EXCEPT ![t] = [pc |-> "enter", family |-> f, result |-> "none"]]
  /\ UNCHANGED <<schema, compiled, compiling, transitions, default, factories,
                 holder, stack, frame, raising>>

\* Mutant of Read: the cached artifact is returned as it is.
ReadUnchecked(t) ==
  /\ call[t].pc = "read"
  /\ IF Published(call[t].family) THEN Return(t, "served")
     ELSE call' = [call EXCEPT ![t].pc = "enter"]
  /\ UNCHANGED <<schema, compiled, compiling, transitions, default, factories,
                 holder, stack, frame, raising>>

\* _compiled_family(): the lock-free read of family._compiled, and the check of
\* the graph when something was read.
Read(t) ==
  LET artifact == compiled[call[t].family] IN
  /\ call[t].pc = "read"
  /\ IF artifact = NoArtifact
     THEN call' = [call EXCEPT ![t].pc = "enter"]
     ELSE Return(t, IF Unchanged(artifact) THEN "served" ELSE "error")
  /\ UNCHANGED <<schema, compiled, compiling, transitions, default, factories,
                 holder, stack, frame, raising>>

\* compile() acquires the lock and does not have to compile.
EnterAnswered(t) ==
  LET f == call[t].family IN
  /\ call[t].pc = "enter"
  /\ holder = NoThread
  /\ ~MustCompile(f)
  /\ Return(t, IF Published(f) /\ Unchanged(compiled[f]) THEN "served" ELSE "error")
  /\ UNCHANGED <<schema, compiled, compiling, transitions, default, factories,
                 holder, stack, frame, raising>>

\* compile() acquires the lock and has to compile.
Enter(t) ==
  LET f == call[t].family IN
  /\ call[t].pc = "enter"
  /\ holder = NoThread
  /\ MustCompile(f)
  /\ holder' = t
  /\ call' = [call EXCEPT ![t].pc = "inside"]
  /\ Push(f, "root")
  /\ UNCHANGED <<schema, compiled, transitions, default, factories, raising>>

\* Short critical sections: an idle thread takes the lock for one step; the owner
\* of the lock gets here from a family provider, whose caller either handles an
\* error or lets it escape into the compilation.
CanCall(t) ==
  \/ /\ call[t].pc = "idle"
     /\ holder = NoThread
  \/ /\ holder = t
     /\ InProvider

Answer(t, result) ==
  IF holder = t
  THEN /\ frame' = [frame EXCEPT ![Top].called = TRUE]
       /\ raising' \in {FALSE, (result = "error")}
       /\ UNCHANGED call
  ELSE /\ Return(t, result)
       /\ UNCHANGED <<frame, raising>>

\* migration(family, source, target): the declaration is checked and the caller
\* gets a decorator.
MigrationFactory(t, f, e) ==
  /\ CanCall(t)
  /\ IF TransitionAllowed(f, e)
     THEN factories' = factories \cup {<<f, e>>} /\ Answer(t, "done")
     ELSE UNCHANGED factories /\ Answer(t, "error")
  /\ UNCHANGED <<schema, compiled, compiling, transitions, default, holder, stack>>

\* The decorator is applied, at any later time and by any thread:
\* _register_legacy_transition repeats the check.
ApplyMigration(t, f, e) ==
  /\ CanCall(t)
  /\ <<f, e>> \in factories
  /\ IF TransitionAllowed(f, e)
     THEN /\ transitions' = [transitions EXCEPT ![f] = Append(@, e)]
          /\ Answer(t, "done")
     ELSE UNCHANGED transitions /\ Answer(t, "error")
  /\ UNCHANGED <<schema, compiled, compiling, default, factories, holder, stack>>

\* family.as_default()
AsDefault(t, f) ==
  LET existing == default[ModelOf[f]] IN
  /\ CanCall(t)
  /\ IF existing \in {NoFamily, f} \/ GraphWasRebuilt(existing)
     THEN /\ default' = [default EXCEPT ![ModelOf[f]] = f]
          /\ Answer(t, "done")
     ELSE UNCHANGED default /\ Answer(t, "error")
  /\ UNCHANGED <<schema, compiled, compiling, transitions, factories, holder, stack>>

\* Model.model_rebuild(force=True): the model gets a new core schema object.
Rebuild(m) ==
  /\ schema[m] < MaxRebuilds
  /\ RacingRebuilds \/ (holder = NoThread /\ \A t \in Threads : call[t].pc = "idle")
  /\ schema' = [schema EXCEPT ![m] = @ + 1]
  /\ UNCHANGED <<compiled, compiling, transitions, default, factories,
                 holder, stack, frame, raising, call>>

-----------------------------------------------------------------------------
(* Steps of compile(), taken by the owner of the lock. *)

\* Mutant of ChildRaises: a compiled child is taken as it is.
ChildRaisesOnlyOnRecursion(c) == ~Published(c) /\ c \in compiling

\* A child's _compiled_family() inside the compilation of a parent raises: the
\* child's graph was rebuilt, or its compile() call is already on the stack.
ChildRaises(c) ==
  IF Published(c) THEN ~Unchanged(compiled[c]) ELSE c \in compiling

\* An explicitly declared child may not embed decorator-discovered families.
Embeddable(c) == compiled[c].found = {}

Raise ==
  /\ raising' = TRUE
  /\ UNCHANGED <<stack, compiling, frame>>

AddKid(fr, p, c) ==
  [fr EXCEPT ![p] = [fr[p] EXCEPT !.kids = @ \cup {c}, !.next = @ + 1,
                                  !.called = FALSE]]

\* _validate_compilation_boundary, one declaration: resolve it to a child family,
\* which must own another model; compile the child if it is not compiled.
ResolveRoute ==
  LET p == Top
      c == Route1(p).family
  IN
  /\ Active("boundary")
  /\ frame[p].next <= Len(Routes[p])
  /\ IF \/ ModelOf[c] = ModelOf[p]
        \/ ChildRaises(c)
        \/ Published(c) /\ ~Embeddable(c)
     THEN Raise
     ELSE /\ UNCHANGED raising
          /\ IF Published(c)
             THEN UNCHANGED <<stack, compiling>> /\ frame' = AddKid(frame, p, c)
             ELSE Push(c, "route")
  /\ UNCHANGED <<schema, compiled, transitions, default, factories, holder, call>>

\* A family provider calls compile() of g, or an operation that compiles it; an
\* error is handled by the provider or escapes.
ProviderCompile(g) ==
  /\ InProvider
  /\ IF Published(g) \/ g \in compiling
     THEN /\ raising' \in {FALSE, ChildRaises(g)}
          /\ frame' = [frame EXCEPT ![Top].called = TRUE]
          /\ UNCHANGED <<stack, compiling>>
     ELSE /\ stack' = Append(stack, g)
          /\ compiling' = compiling \cup {g}
          /\ frame' = [frame EXCEPT
               ![Top].called = TRUE,
               ![g] = [NoFrame EXCEPT !.via = "provider", !.own = schema[ModelOf[g]],
                                      !.validated = transitions[g]]]
          /\ UNCHANGED raising
  /\ UNCHANGED <<schema, compiled, transitions, default, factories, holder, call>>

\* _compile_decorator_nested_families, after the last declaration; from here on
\* wire models are built from the owner's current core schema.
Discover ==
  /\ Active("boundary")
  /\ frame[Top].next > Len(Routes[Top])
  /\ frame' = [frame EXCEPT ![Top].phase = "build", ![Top].found = Discovered(Top),
                            ![Top].builtFrom = {schema[ModelOf[Top]]}]
  /\ UNCHANGED <<schema, compiled, compiling, transitions, default, factories,
                 holder, stack, raising, call>>

TouchKid(fr, p, c) ==
  [fr EXCEPT ![p] = [fr[p] EXCEPT !.touched = @ \cup {c},
                                  !.builtFrom = @ \cup {schema[ModelOf[p]]}]]

\* _rewrite_annotation: a wire model embeds the child's wire model, for which
\* model_for() compiles a discovered child and checks a compiled one again.
Touch(c) ==
  LET p == Top IN
  /\ Active("build")
  /\ c \in Children(p) \ frame[p].touched
  /\ IF ChildRaises(c) THEN Raise
     ELSE /\ UNCHANGED raising
          /\ IF Published(c)
             THEN UNCHANGED <<stack, compiling>> /\ frame' = TouchKid(frame, p, c)
             ELSE Push(c, "build")
  /\ UNCHANGED <<schema, compiled, transitions, default, factories, holder, call>>

\* A declaration is invalid, or a wire model cannot be built safely.
Reject ==
  /\ Active("boundary") \/ Active("build")
  /\ Raise
  /\ UNCHANGED <<schema, compiled, transitions, default, factories, holder, call>>

\* Mutant of OwnerUnchanged: the schema is not compared again.
OwnerTrusted(p) == TRUE

\* The core schema captured at the beginning is still the model's.
OwnerUnchanged(p) == frame[p].own = schema[ModelOf[p]]

\* The owner's model was rebuilt while it was being compiled.
RejectRebuilt ==
  /\ Active("build")
  /\ frame[Top].touched = Children(Top)
  /\ ~OwnerUnchanged(Top)
  /\ Raise
  /\ UNCHANGED <<schema, compiled, transitions, default, factories, holder, call>>

\* Mutant of Finally: the flag is cleared by a compilation that succeeds.
FinallyOnSuccess(p) ==
  compiling' = IF raising THEN compiling ELSE compiling \ {p}

\* The finally clause of compile().
Finally(p) == compiling' = compiling \ {p}

\* Mutant of Leave: an exception leaves the lock with its thread.
LeaveOnSuccess(result) ==
  IF Len(stack) = 1 /\ result = "served"
  THEN holder' = NoThread /\ Return(holder, result)
  ELSE UNCHANGED <<holder, call>>

\* The lock is released when the outermost compile() call returns or raises.
Leave(result) ==
  IF Len(stack) = 1
  THEN /\ holder' = NoThread
       /\ Return(holder, result)
  ELSE UNCHANGED <<holder, call>>

NewArtifact(p) ==
  [own |-> frame[p].own, deps |-> Dependencies(p), transitions |-> transitions[p],
   kids |-> frame[p].kids, found |-> frame[p].found, builtFrom |-> frame[p].builtFrom]

\* What a returning compile() call of p hands to the call below it.
Resume(p) ==
  LET cleared == [frame EXCEPT ![p] = NoFrame] IN
  CASE frame[p].via = "route" -> AddKid(cleared, Caller, p)
    [] frame[p].via = "build" -> TouchKid(cleared, Caller, p)
    [] OTHER -> cleared

\* compile() publishes and returns.  A caller at a declared route goes on to
\* refuse a child that discovered families of its own.
Publish ==
  LET p == Top IN
  /\ Active("build")
  /\ frame[p].touched = Children(p)
  /\ OwnerUnchanged(p)
  /\ compiled' = [compiled EXCEPT ![p] = NewArtifact(p)]
  /\ Finally(p)
  /\ stack' = Below
  /\ frame' = Resume(p)
  /\ raising' = (frame[p].via = "route" /\ frame[p].found # {})
  /\ Leave("served")
  /\ UNCHANGED <<schema, transitions, default, factories>>

\* An exception leaves the top compile() call; a provider that made the call may handle it.
Unwind ==
  LET p == Top IN
  /\ raising
  /\ Finally(p)
  /\ stack' = Below
  /\ frame' = [frame EXCEPT ![p] = NoFrame]
  /\ raising' \in IF Len(stack) = 1 THEN {FALSE}
                  ELSE IF frame[p].via = "provider" THEN BOOLEAN ELSE {TRUE}
  /\ Leave("error")
  /\ UNCHANGED <<schema, compiled, transitions, default, factories>>

-----------------------------------------------------------------------------
CompileStep ==
  \/ ResolveRoute
  \/ Discover
  \/ \E c \in Families : Touch(c)
  \/ Reject
  \/ RejectRebuilt
  \/ Publish
  \/ Unwind

Next ==
  \/ \E t \in Threads, f \in Families :
       Begin(t, f) \/ BeginCompile(t, f) \/ AsDefault(t, f)
  \/ \E t \in Threads, m \in Models : BeginModelCall(t, m)
  \/ \E t \in Threads : Read(t) \/ EnterAnswered(t) \/ Enter(t)
  \/ \E t \in Threads, r \in Migrations :
       MigrationFactory(t, r[1], r[2]) \/ ApplyMigration(t, r[1], r[2])
  \/ \E m \in Models : Rebuild(m)
  \/ \E g \in Families : ProviderCompile(g)
  \/ CompileStep

Spec == Init /\ [][Next]_vars

\* A compile() call that has begun runs on: no step of it waits for another
\* thread.  Family providers are assumed to return.
FairSpec == Spec /\ WF_vars(CompileStep)
-----------------------------------------------------------------------------
(* Properties. *)

\* The lock, the compile() calls in progress and the _compiling flags tell one
\* story in every state, also while an exception unwinds several compilations: a
\* flag is set exactly for the families on the lock owner's stack, no family is
\* there twice, and nothing is left behind when the lock is free.  A flag left set
\* by a failed compilation would make its family unusable for good
\* (family.py:139-147 and 235-236).
CompilationStack ==
  /\ holder = NoThread <=> stack = <<>>
  /\ raising => stack # <<>>
  /\ \A i, j \in DOMAIN stack : stack[i] = stack[j] => i = j
  /\ compiling = {stack[i] : i \in DOMAIN stack}
  /\ \A f \in compiling : ~Published(f)
  /\ \A t \in Threads : call[t].pc = "inside" <=> holder = t

\* A migration decorator kept by its caller can be applied long after it was
\* checked, and a provider can apply one in the middle of a compilation.  Whatever
\* the order, the migrations a compilation validated are the ones it compiles, the
\* compiled ones are all the ones the family has, and no edge has two
\* (family.py:391-430).
MigrationsFrozen ==
  \A f \in Families :
    /\ Published(f) => compiled[f].transitions = transitions[f]
    /\ f \in compiling => frame[f].validated = transitions[f]
    /\ \A i, j \in DOMAIN transitions[f] :
         transitions[f][i] = transitions[f][j] => i = j

\* The dependencies an artifact recorded cover its whole embedded graph, and name
\* for every family in it the schema that family itself was compiled from, however
\* many paths lead to it and whichever path was compiled first (family.py:433-453).
CoherentGraph ==
  \A f \in {g \in Families : Published(g)} :
    /\ [family |-> f, schema |-> compiled[f].own] \in compiled[f].deps
    /\ \A d \in compiled[f].deps :
         /\ Published(d.family)
         /\ compiled[d.family].own = d.schema
    /\ \A k \in compiled[f].kids \cup compiled[f].found :
         /\ Published(k)
         /\ compiled[k].deps \subseteq compiled[f].deps

\* Everything an artifact was built from belongs to one core schema of its model,
\* although the model may be rebuilt between any two reads (family.py:149, 210-216).
UnmixedArtifact ==
  \A f \in Families : Published(f) => compiled[f].builtFrom = {compiled[f].own}

\* Concurrent first uses produce one artifact, which is never replaced or withdrawn
\* (family.py:139-142; "Concurrent calls to compile() produce one immutable cache",
\* architecture/decisions).
PublishedOnce ==
  [][\A f \in Families : Published(f) => compiled'[f] = compiled[f]]_vars

\* The atomic specification of a set of families, of which this one is an
\* implementation: a family's compilation takes effect when it publishes.
Atomic == INSTANCE AtomicFamilies WITH
  Unpublished <- NoArtifact,
  published <- [f \in Families |->
    IF Published(f)
    THEN [own |-> compiled[f].own, transitions |-> compiled[f].transitions]
    ELSE NoArtifact]

\* Threads, the lock-free fast path, recursion, provider calls and exceptions
\* together implement families that are compiled in one atomic step, at most once,
\* from all the migrations they will ever have (family.py:138-237, 391-430).
ImplementsAtomicFamilies == Atomic!Spec

\* The families reached from f through published children.
Embedded(f) ==
  {g \in Families :
     \A S \in SUBSET Families :
       /\ f \in S
       /\ \A h \in S : Published(h) => compiled[h].kids \cup compiled[h].found \subseteq S
       => g \in S}

\* An operation that finds its family compiled goes on only if no model of the
\* family's graph, at any depth, was rebuilt since that model's own family was
\* compiled (family.py:342-368).
ServesUnchangedGraph ==
  [][\A t \in Threads :
       call[t].pc \in {"read", "enter"} /\ call'[t].result = "served"
         => \A g \in Embedded(call[t].family) :
              Published(g) /\ compiled[g].own = schema[ModelOf[g]]]_vars

\* When forced rebuilds do not race family operations, an artifact describes the
\* current schemas of its whole graph at the moment it is published, so that its
\* first user, who is not checked again, is served correctly (family.py:210-236).
FreshPublication ==
  [][\A f \in Families :
       ~Published(f) /\ compiled'[f] # NoArtifact
         => \A d \in compiled'[f].deps : schema[ModelOf[d.family]] = d.schema]_vars

\* The families of the graph f selects: declared nested families, whichever way
\* they are declared, and those a published family embeds.
GraphFrom(f) ==
  LET next(g) ==
        {Routes[g][i].family : i \in DOMAIN Routes[g]} \cup
        IF Published(g) THEN compiled[g].kids \cup compiled[g].found ELSE {}
  IN {g \in Families :
        \A S \in SUBSET Families : f \in S /\ (\A h \in S : next(h) \subseteq S) => g \in S}

\* A compiled component of f's graph describes a core schema that is gone.
GraphInvalid(f) ==
  \E g \in GraphFrom(f) : Published(g) /\ compiled[g].own # schema[ModelOf[g]]

\* A selected default is displaced only after a compiled component of its family
\* graph has become invalid (docs/guide/external-families.md:149-152).
DefaultDisplacedOnlyWhenInvalid ==
  [][\A m \in Models :
       default[m] # NoFamily /\ default'[m] # default[m] => GraphInvalid(default[m])]_vars

\* Once a compiled component of the selected family graph has been invalidated,
\* directly or through a nested family, as_default() on its recreated replacement
\* rebinds model-only calls (docs/reference/api.md:63-66).
InvalidDefaultIsReplaceable ==
  [][\A t \in Threads, f \in Families :
       /\ AsDefault(t, f)
       /\ ~Published(f)
       /\ default[ModelOf[f]] # NoFamily
       /\ GraphInvalid(default[ModelOf[f]])
       => default'[ModelOf[f]] = f]_vars

\* A thread that holds the family lock to compile releases it, whatever fails and
\* however the declarations are nested, recursive ones included.
LockReleased == (holder # NoThread) ~> (holder = NoThread)
=============================================================================
