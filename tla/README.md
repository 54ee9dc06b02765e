# A verification development for pydantic-versions

`pydantic-versions` lets one authoritative Pydantic model be read and written at
older versions of its schema. A *family* names the model and its ordered labels; a
*transition* joins two adjacent labels with optional upgrade and downgrade callbacks;
families embed other families. Documents are *validated* (any label to the current
one) and *dumped* (the current label to any other). Everything runs synchronously in
the caller's thread, and callers may use many threads.

This directory holds TLA+ modules translated from the library's source, TLC
configurations that check them on small instances, and theorems about them that TLAPS
proves for every value of the constants. Source paths below are relative to
`src/pydantic_versions/` of the repository; `PROJECT.json` maps every definition to
the lines it stands for.

    tlc -workers 2 -config FamilyDiamond.cfg MCFamilyLifecycle.tla
    tlapm FamilyLifecycleProofs.tla

## 1. Inventory of the system

| Component | State | Operations | What is hard | What makes it correct |
|---|---|---|---|---|
| Family lifecycle (`family.py`, `core.py`) | `_compiled`, `_compiling`, `_transitions` of every family; the default family stored on a model; the global reentrant `_FAMILY_LOCK` | lazy `compile()`, the lock-free `_compiled_family()`, `migration()` and its kept decorator, `as_default()` | racing first uses; recursion through declarations, providers and wire model generation under one lock; exceptions several levels deep; `model_rebuild(force=True)` at any moment | one artifact per family, never replaced; no flag or lock left behind; artifacts of a graph agree with each other; nothing stale is served |
| Family compiler (`_compiler.py`) | none of its own; produces `_CompiledFamily` | resolves nested declarations, checks declarations and label maps, compiles transitions | the order of checks, and calls into user code (providers) | what was validated is what is compiled; inadmissible declarations are refused |
| Wire models (`_wire.py`, `_wire_nested.py`, `_wire_document.py`) | models generated per label | build fields, rewrite annotations to embedded wire models, discover decorated families, wrap documents | discovery compiles other families in the middle of a compilation | every embedded family is compiled and recorded |
| Wire contract checks (`_wire_contract.py`, `_wire_shape_contract.py`) | none | accept or refuse core schemas and annotations | a long catalogue of cases | soundness of each refusal |
| Conversion planning (`_planning.py`, `inspection.py`) | none | `plan_validation`, `plan_render`, route semantics | recursion over families and label maps that may go backwards | the plan is what is executed, and its promises (exact, lossy, unavailable) hold |
| Conversion runtime (`_runtime.py`, `_runtime_nested.py`) | one private payload per call | walk the edges, convert embedded families, call callbacks, project to the target | order of owner and children; shortcuts for unchanged labels; callbacks that drop or supply values; failures | children first; every value delivered at its label; no irreversible edge passed |
| Decorator runtime (`_runtime_decorators.py`) | selections of discovered occurrences per call | select, normalise, migrate, reconcile after callbacks | identity of values that callbacks move, copy or drop | every surviving occurrence is converted exactly once |
| Version metadata and names (`_runtime_versioning.py`) | labels in documents | detect, check, remove, rebase, write labels; translate field names and aliases | four places that remove or rebase; documents shared by threads; names that are swapped or used again; callbacks that use aliases | read as written, rendered as requested, hidden from callbacks; every value in its field |
| Payload extraction and traversal (`_runtime_payload.py`) | the private payload of a call; a set of the identities being extracted, shared by the recursion | detach declared data from a model; find and convert the values on a path; rebuild the containers on the way | cycles against values that merely occur twice; members of sets and mapping keys, which must stay hashable and may become equal; unions whose arm is chosen from a value that is no longer a model | cycles and nothing else refused; callbacks share nothing with the caller; what is converted is what was checked; no member lost |
| Canonical validation and rendering (`_runtime_validation.py`, `_runtime_render.py`) | adapters cached per family under a lock; plans cached per model without one; three context-local stacks of frames during validation | adapt core schemas by layers, rebuild models that hold adapted nodes; validate; serialise | double-checked caches against rebuilds; recursive schemas; nested unions, and functions of the application that catch, replace and raise | nothing stale used; frames balanced whatever is raised; enum values and set members kept |
| Facade (`declarations.py`, `patches.py`, `exceptions.py`, `__init__.py`) | frozen records | constructors | - | - |

Interactions. A public call goes through `_compiled_family()`, which may compile the
whole graph under the lock, recursively through declared families
(`_validate_compilation_boundary`), through user providers, and through discovery while
wire models are built. `validate` and `dump` ask planning for the semantics of their
route, then walk the compiled transitions; at every edge the embedded families are
converted first by the same loop one level down, then the callback runs. Version labels
are read before the first edge and written after the last. Caches are shared by all
threads; payloads never are.

There is no persistence, no network and no timeout in the library, so there is nothing
to say of crash recovery, message loss or retries. Its hazards are interleavings, state
read without a lock and used later, partial failure of recursive work, order of
conversions, and promises made before a payload is seen. `PROJECT.json` lists each one
at its line.

## 2. Modules

| Module | Models |
|---|---|
| `FamilyLifecycle` | families, lock, recursion, providers, discovery, defaults, rebuilds |
| `AtomicFamilies` | abstract: families compiled in one atomic step, at most once |
| `FamilyLifecycleProofs` | theorems about `FamilyLifecycle`, and that it implements `AtomicFamilies` |
| `ConversionPlan` | label maps, route semantics, plan steps (no state) |
| `PlannedConversion` | abstract: values move from label to label as the steps of a plan say, or the plan is refused as a whole |
| `ConversionRuntime` | the loops of validate and dump over a tree of embedded families |
| `ConversionProofs` | theorems about `ConversionRuntime` (preflight, callbacks, delivery, plans), and that it implements `PlannedConversion` |
| `VersionMetadata` | version labels in documents, payloads and embedded values |
| `VersionMetadataProofs` | theorems about `VersionMetadata` |
| `DecoratorSelection` | occurrences of decorator-discovered families in a payload, through callbacks |
| `DecoratorSelectionProofs` | theorems about `DecoratorSelection` |
| `FieldNames` | renames, removals, defaults and aliases of fields through a conversion |
| `FieldNamesProofs` | theorems about `FieldNames` |
| `Annotations` | objects in a heap, and the annotations that declare them (no state) |
| `PayloadExtraction` | the recursion that makes the private payload of a model |
| `PayloadExtractionProofs` | theorems about `PayloadExtraction` |
| `PayloadConversion` | the path of an embedded family in that payload, and sets on it |
| `CoreSchemas` | the nodes of core schemas (no state) |
| `SchemaAdaptation` | the layers and rebuilds that adapt a core schema (no state) |
| `CanonicalValidation` | validation by an adapted schema: frames, unions, functions of the application |
| `AdaptedValidation` | both together: validation by the schemas that `SchemaAdaptation` makes |
| `CanonicalProofs` | theorems about `CanonicalValidation` |
| `RuntimeCache` | adapter and plan caches, rebuilds and recreated families |
| `RuntimeCacheProofs` | theorems about `RuntimeCache` |
| `MC*` | small instances for TLC |

`FamilyLifecycle` and `ConversionRuntime` do not share variables: a conversion works
with an artifact that no longer changes (this is `PublishedOnce`), so the family graph
of a conversion is a constant. `VersionMetadata` adds to the same loops what
`ConversionRuntime` leaves out, the labels inside the values, and `DecoratorSelection` the
places where values are and the objects they are; it takes the conversion of one embedded
value, which `ConversionRuntime` models, as one step. What the values of a conversion hold
is in three further modules, each a closer look at one step of these loops:
`PayloadConversion` extends `PayloadExtraction` and shows one payload as a graph of objects, from
extraction to delivery; `FieldNames` shows the keys of one mapping; and
`CanonicalValidation` the validation of one field, which `PayloadConversion` takes as
one step with the guard of sets. `RuntimeCache` takes from
`FamilyLifecycle` only that an operation begins with a check of its family's graph.

### FamilyLifecycle

*State.* `schema` numbers a model's core schemas (the code compares them with `is`).
`compiled`, `compiling`, `transitions`, `default` are the fields of the objects.
`holder` and `stack` are the owner of the reentrant lock and the compile() calls it is
inside; `frame[f]` holds the locals of the call that compiles f, among them the schema
it captured and the migrations it validated. `call` is what each thread does.

*Actions.* `Begin`, `BeginModelCall`, `BeginCompile` are the public entries; `Read` is
the lock-free fast path with its graph check; `Enter` takes the lock. `ResolveRoute`
resolves the next declaration, which answers, recurses (`Push`) or raises; a provider may call
`ProviderCompile` or apply a kept migration. `Discover` and `Touch` are discovery and
wire generation, which compile children and read schemas once more. `Publish`, `RejectRebuilt`, `Reject`
end a compilation; `Unwind` pops one call of an exception. `MigrationFactory` and
`ApplyMigration` are the two halves of `migration()`. `AsDefault` replaces a default.
`Rebuild` is Pydantic's, external.

*Abstracted.* The checks of declarations are one nondeterministic `Reject`; the content
of wire models is the set of core schemas they were built from.

### ConversionPlan and ConversionRuntime

*State.* A *site* is a place where a family's values are embedded; `at[s]` is the label
at which the values of site s now are, `raw` the sites whose values have wire names,
`stack` the loops of nested conversions, `outcome` and `lost` what the call has come to.
A site whose values a callback dropped, or never had any, has no label (`0`).

*Actions.* `Begin` is a call with its preflight; `Pass` and `Descend` the visit of an
embedded family at an edge, `Identity` an edge without callback, `Callback` one with (it
may drop and supply embedded values, or fail), `Return` the end of a nested loop, `Finish`
projection and delivery, `Reject` any validation failure.

*Semantics* is a constant of `ConversionPlan`, constrained by an assumption to the
equation that the recursive `_nested_route_semantics` satisfies; the MC module computes
it, so TLC checks that the assumption can be met, and proofs need no recursion.

*Abstracted.* The values, except whether they are there, their label and their
naming; a collection of embedded values is one of them.

*The plan.* `PlannedConversion` is what a reader of a plan may rely on. A step has a family
and two labels, and an effect: it moves the label of its family's value (`labels`), and no label moves otherwise. An embedded
family that has no value makes its step one without effect, and a callback may drop embedded values or supply
others that follow the label it leads to. `ConversionRuntime` implements it (`ImplementsPlan`) with `labels` read from `at`, except that
while an embedded family is walked its value still shows the label at which `Descend` entered it
(`LabelOf`): what the walk reached counts when `Return` delivers it. So a loop that does not
descend into an embedded family, descends to another label, visits the families in another order, comes to the
callback early or walks an edge twice is no behaviour of the plan. The plan has no steps for what is embedded deeper, and does not say
how a nested value is converted; that is what `ChildrenFirst` and `Delivered` are about.

### VersionMetadata

*State.* `declared[m]` is the label that mapping object m holds, `wrote[m]` the one its
caller put there, `embedded[d]` the label in the embedded value; `op[t]` a thread's
call with its private payload's labels. Two documents may share a mapping.

*Actions.* `Write` and `Keep` are the caller's; `BeginValidate` and `BeginRender` check
and detect, `CheckSource` validates the source model, `Extract` makes the private
payload, `Edge` converts and rebases, `Callback` runs user code, which may write labels
itself, `Reject` fails. After the last edge each place that handles labels is an action: `Project`
checks the embedded value's label and removes, rebases or (in sets and tuples) sets it, which
ends a validation; `SetOwn` writes the family's own label where dump does, `Serialize` has
the target model check what is in the payload, as literals, and fill in what is missing, `PruneChild` and
`ApplyOwn` compare the labels of the serialized document, the embedded one and then the family's own, with those
that were asked for, and remove, add or keep them.

None of these actions knows what another one did: each acts on the labels it finds. When one finds a label that
it refuses, the operation ends `"mislabelled"`. `meddled` records which labels the application wrote: callbacks
write any into the payload, and the serializer of an explicit target model may write others than the payload has.
`RenderedAsRequested` says what the places achieve together: what leaves the last one has the labels that were asked for,
and none refuses a label unless the application wrote it and no place was to replace it (`Standing`).
So a projection that leaves labels as conversions left them, a `SetOwn` that leaves out one kind of owner, a pruning that does not remove,
an output without label that keeps it, and a check of the last two places that is
left out for models that own their labels each violate it. The projection's check of a family's label is not
needed for it: pruning removes that label in any case. A conversion that does not remove a label is
what `NoFamilyMetadataInCallbacks` is violated by. The options of `dump` cannot omit labels:
`_validate_model_dump_options` refuses those that could.

### DecoratorSelection

*State.* `payload[l]` is the value at location l, a path of dispatch sites (places in the
annotations of an owner) with list indices or mapping keys. A value has what the code sees
of it, its object identity and whether it is a model instance, and what the code must
infer: the family and the label its data follow. The guards never read the latter, except
through the class of an instance. `selections` are the `_DecoratorRouteSelection` records;
`before`, `todo` and `replaced` the locals of `_reconcile_decorator_selections`.

*Actions.* `Begin` validates and selects; `Convert` is `_apply_selected_decorator_migrations`
before an edge or at the end, with its refresh of identities; `ReconcileGroup` reconciles
one group of selections (`Refused` names the refusals, `Claims`, `Replacements` and
`Rebound` the three ways to recognise a value); `SettleConverted` and `SettleCalled` end a
reconciliation, the latter with discovery; `Project` is the projection and validation at
the end. `Swap`, `Relocate`, `Duplicate`, `Copy`, `Drop`, `PutInstance`, `PutMapping`
are what a callback of the root family does, one thing at a time until it returns.

*Abstracted.* A value converted by the wrong family, or from the wrong label, is spoiled.
Intermediate models between an owner and a value are part of the site. Label maps of the
discovered families are the identity; `ConversionPlan` has general ones.

### FieldNames

*State.* `payload` maps names to values, and a value is represented by where it was put
first: the key of a document, the field of a model, or what a callback or a default
supplies. `meant` (ghost) says which value each field should come to hold; the code does
not keep it and no guard reads it. `todo` are the fields whose aliases are still to be normalised.

*Actions.* `ReadDocument` validates with the wire model of the document's version, extracts
and translates to current names; `ReadModel` starts a rendering. `Callback` supplies, drops
or adds one thing at a time (`Supply`, `Drop`, `SupplyAlias`, `Add`) until `Settle`. `Normalise`
is one field of `_normalize_payload_field_aliases`. `FinishValidate` and `FinishRender`
validate, by alias or by name as Pydantic would, and serialise. `Compiles` is what compile()
refuses of names; a family in `Families` that it refuses has no behaviours.

*Abstracted.* Fields are normalised in any order: where the properties speak, no two
fields share an alias and the order makes no difference. Aliases are names, not paths.

### Annotations, PayloadExtraction and PayloadConversion

*State.* `heap` numbers the objects: those of the source (one of `Sources`) first, then those that are
made. `calls` are the running calls of the recursion, each with the parts it still has to extract, and
`active` is the set they share of identities of objects that are being extracted. An
object that stands for a member of a set or for a mapping key is a *carrier* and
remembers source identities in `ids`. `path`, `converted` and `steps` belong to the conversion.

*Actions.* `PassOn` hands a scalar over; `Enter` begins an object; `Raise` refuses one that is
active; `Return` makes the new object and leaves; `Collapse` is the refusal of a set that lost a
member; `Unwind` pops one call of an exception. `Convert` transforms the values of the embedded
family along the path and rebuilds the containers on it; `Callback` removes a
field of one value; `Deliver` validates.

*Abstracted.* A conversion step may forget one field, which is the least it takes to make two
members equal. Type variables, aliases and generic classes count as what they stand for;
the fast paths of a compiled extraction plan are not told apart from the general path.
Equality of source objects (`Alike`) is a constant: it decides which members a set can
have in the first place, and nothing else.

### SchemaAdaptation, CanonicalValidation and AdaptedValidation

A core schema is a tree of nodes with named definitions. `SchemaAdaptation` is a pure
function: it puts *layers* around nodes (validators of the library that run before or around
the node), tells ancestors by flags, and repeats the pass over the definitions until no flag is
new (`Passes`). `CanonicalValidation` takes adapted schemas as they come: `AdaptationOf` and `Inner` (the nodes that
a node leads to) are constants, and `AdaptationAssumption` names what it needs to know of them. `Closed`: nodes
lead to nodes. `Placed`: repairs, frames of unions and records are the innermost layers of
their nodes. `Guards`: where sets are guarded, every set is, a union with a guard inside watches its choices, and a
function around a guard is recorded. `AdaptedValidation` puts `AdaptedSchema` and `InnerNodes` in their place, and TLC
evaluates the assumption for every schema of the instance in every run.

*State.* `calls` are the calls of layers and nodes, `control` what is being called or returned;
`unions`, `choices` and `apps` are the three context variables. `recognised` (ghost) says
that the stored value was the value of exactly one enum member.

*Actions.* `CallLayer` and `CallNode`, `CallThrough`, `CallReference`, `CallParts`,
`CallApplication` begin a layer or a node; `LeaveRetry`, `LeaveGuard`, `LeaveRecord`, `LeaveChoice`,
`LeaveUnion`, `LeaveMapping` are the ends of the layers, by value or by error; `NextChoice`,
`EndUnion`, `NextMember`, `EndSet`, `LeaveApplication` those of nodes; `End` delivers or refuses.

*Abstracted.* Pydantic may fail or succeed at any node, and a function of the application may
return what it got, another value, raise, or catch. Values are a stored enum value or a set of
two carriers, and what may become of them.

### RuntimeCache

*State.* `schema` and `address[s]`: core schemas are numbered, and each had an address
that is free again when nothing refers to it (`Live`). `own[f]` and `current` are the
families created for the model one after the other, `entry` the caches, `op` the
threads. Actions are the steps of a lookup: `ReadKey`, `Look` (no lock), `Acquire`
(with the second look), `Build`, `Store`, and `Rebuild` and `Recreate` beside them.

## 3. What the runs show

Every run finishes within a few minutes on two cores. Deadlock is checked everywhere:
callers may always begin something, be it a call that is refused.

| Run | Configuration | Question |
|---|---|---|
| `family_diamond` | `FamilyDiamond.cfg` | Two threads, a diamond of three families with one edge through a provider that calls back, one late migration, rebuilds at any moment: `CompilationStack`, `MigrationsFrozen`, `CoherentGraph`, `UnmixedArtifact`, `PublishedOnce`, `ServesUnchangedGraph`, and the refinement `ImplementsAtomicFamilies`. |
| `family_discovery` | `FamilyDiscovery.cfg` | Families found by the decorator while wire models are built, two families that declare each other (one through a provider), and two families competing to be a model's default; one thread, rebuilds wait for running operations: `FreshPublication`, `DefaultDisplacedOnlyWhenInvalid`, and under fairness `LockReleased`: recursion is refused and the lock always released. |
| `conversion` | `Conversion.cfg` | All validations and renderings of a tree of four sites: `NoUnavailableDowngrade`, `ExactMeansLossless`, `ChildrenFirst`, `Delivered`, and the refinement `ImplementsPlan`. |
| `metadata` | `Metadata.cfg` | Labels owned by families or by models, callbacks and serializers that write labels, the places that remove, rebase, set, check and fill them in, two threads on one document: `ReadAsWritten`, `NoFamilyMetadataInCallbacks`, `RenderedAsRequested`. |
| `metadata_shared` | `MetadataShared.cfg` | Violated: `RemovedPrivately` (section 6). |
| `names` | `Names.cfg` | Two fields under every history of renames, swaps, removals and defaults, with aliases and callbacks that use them: `ValidatedAsMeant`, `RenderedAsMeant`, and `RefusedOnlyAfterCallbacks`: what compile() refuses is enough. |
| `payload` | `Payload.cfg` | Extraction, conversion and validation of documents that share, repeat and contain values in all ways: `TypeOK`, `CyclesRefused`, `Detached`, `DeclaredOnly`, `ConvertsWhatItChecks`, `NoMemberLost`. |
| `payload_lost` | `PayloadLost.cfg` | Violated: `NoMemberLost` when a path goes through a set (section 6). |
| `canonical` | `Canonical.cfg` | Stored enum values and guarded sets through adapted schemas: `TypeOK` (frames are those of the running calls), `EnumKept`, `SetsKept`, `RebuiltIfReached`. |
| `decorators` | `Decorators.cfg` | Every conversion of small nested payloads with callbacks that move, copy, drop, replace and introduce values: `TypeOK`, `RightlyBound`, `NoneOverlooked`, `KeptApart`, `ReordersAccepted`, `Delivered`. |
| `decorators_owner` | `DecoratorsOwner.cfg` | Violated: `RightlyBound` when an embedded owner reorders values of two families (section 6). |
| `cache` | `Cache.cfg` | Two threads, all caches but the alias plans, rebuilds and recreated families, builds that fail: `PlansFresh`, `AdapterBuiltOnce`, and under fairness `LookupEnds`. |

`RightlyBound` is checked for owners whose values are of one family (`decorators`), `NoMemberLost`
for paths that do not go through sets of wrappers (`payload`), and `ExactMeansLossless` for label maps
without the crossing of section 6 (`conversion`). `EnumKept` and `SetsKept` are checked for all schemas of
the instance but those that `Misattributes` and `Swallows` describe; `MCGuardedValidation`, the module of run `canonical`, has TLC
evaluate on them the hypotheses of the theorems, `SetsWatched` and `EnumsWatched`. Section 6 says what
happens in the cases left out, and each has a configuration in which TLC finds it.

The type invariants of `FamilyLifecycle`, `ConversionRuntime`, `VersionMetadata`, `FieldNames` and
`RuntimeCache` are proved and not repeated in the runs; those of `DecoratorSelection`, `PayloadExtraction` and
`CanonicalValidation`, which say more than types, are proved and checked.

These configurations are kept beside the runs, to be run by hand; each is violated as section 6 says:

| Configuration | Module | Violated |
|---|---|---|
| `FamilyProviderDefault.cfg` | `MCFamilyLifecycle` | `InvalidDefaultIsReplaceable` |
| `ConversionExact.cfg` | `MCConversion` | `ExactMeansLossless` |
| `MetadataRebased.cfg` | `MCVersionMetadata` | `ChildRebasedAtEachEdge` |
| `CacheAddress.cfg` | `MCRuntimeCache` | `AliasPlansFresh` |
| `NamesCrossing.cfg` | `MCFieldNames` | `ValidatedIfClear` |
| `CanonicalAuthorized.cfg` | `MCCanonicalValidation` | `EnumKept` |
| `CanonicalSwallowed.cfg` | `MCCanonicalValidation` | `SetsKept` |

Each property of a passing run has a mutant: an operator, commented "Mutant of X", beside
the definition X of the model, which changes it as a plausible bug of the code would. With
the mutant in place of X the run finds the property violated; the mutants are part of
no specification.

### Bounds, and why they are enough

* *Families.* A diamond is the smallest graph in which one family is reached twice, by
  routes of different kinds and in either order of compilation. Discovery adds the shapes
  a diamond cannot have: an explicit declaration that is refused because the family embeds
  discovered ones, and a cycle of two families, one of whose edges is a provider.
* *Threads.* Two in the diamond, the cache and the metadata runs. There is one lock, and
  what a third thread can do to a thread between two of its steps the second can do too;
  the theorems do not have this bound. The discovery run has one thread: rebuilds there
  wait for running operations, and what it asks happens under the lock.
* *Rebuilds.* `MaxRebuilds = 1` per model: code compares core schemas only for identity,
  so one change distinguishes all that is stale. `CacheAddress.cfg` has two because an
  address must be freed before it is used again.
* *RacingRebuilds.* `FreshPublication` and the default properties are only promised when
  nobody rebuilds models under a running operation, and hold only then; the diamond lets
  rebuilds race.
* *Provider calls.* A provider calls back into the library at most once for each call of it.
* *Conversions.* Four sites in three levels are the smallest tree with siblings and
  grandchildren. Five labels of the root are needed for it to have at once a label that is
  exact to render, one that is lossy, ones that are refused, and a source that validation
  refuses; two embedded families go back where the root advances. Callbacks are enumerated over all
  aligned trees of embedded values they could return.
* *Metadata.* Three labels, an embedded family that keeps its version on the first edge
  and advances on the second; label 1 has an explicit model, label 2 a generated one, and 3 is the current one, so that
  each kind of source and target model occurs. The family's label is its own, in a wrapper, with a model-owned
  one below it, or the reverse with the embedded values in a field or in a set or tuple: the label at each place is
  seen with either owner. Two documents share a mapping only where that is the question.
* *Decorators.* Two values at a site can be reordered, confused and duplicated, two levels
  have owners that are moved or replaced with what is in them, and two families overlap. A
  callback does two things: one can make room for the other (copy and move, drop and
  put), and what takes three is two such pairs in sequence. Three labels, with a callback on
  one edge each way and none on the next, show what a wrong selection does afterwards. In
  this run the values in an owner are of one family, because the second run refutes
  `RightlyBound` when they are of two.
* *Names.* Two fields are the fewest that can swap names, or of which one takes the name that
  the other gave up; three versions remove a field twice, or rename it differently. A field has no
  alias, one, or a choice of two of which one is its own name; models are populated by
  alias, by name or by both, and forbid, allow or ignore extras. `ValidatedAsMeant` and
  `RenderedAsMeant` are stated for families in which no place belongs to two fields
  (`Unambiguous`); the theorems have no other bound. `RefusedOnlyAfterCallbacks` leaves out
  fields that are both required and excluded, which a model cannot be rendered with.
* *Payloads.* 24 objects hold a document, two values, two wrappers and one container of
  every kind. Four groups of documents vary what refers to what: values that
  contain each other, members of sets and keys, dataclasses and typed dictionaries, and
  lists of wrappers. `StackLimit` is one more than the number of objects; that no extraction
  reaches it is a theorem (`CyclesAreRefused`). Two steps (`MaxSteps`) let a callback undo what a conversion did, and the reverse.
* *Schemas.* Leaves, unions in unions, sets, and functions around each, in all combinations of
  the depth at which the frames of two unions, two choices and two functions nest; pairs
  and triples of models that refer to each other for the fixpoint. `MaxCalls = 7` is
  one recursion through the linked models.
* *Caches.* Two families created one after the other; `MaxFamilies` ends the recreation.
  Alias plans are left out of the passing run because they are checked, and fail, in a run of their own.

### Fairness

`FairSpec` of `FamilyLifecycle` assumes weak fairness of the steps that the owner of the
lock takes inside compile(), nothing else: it is sequential code in one thread, and
providers are assumed to return. No fairness is assumed of callers, and none of getting
the lock. `FairSpec` of `RuntimeCache` assumes weak fairness of building and storing under the
cache lock, which is sequential code again, and strong fairness of acquiring that lock:
`threading.Lock` wakes waiters, and no thread uses the same family without pause. `LookupEnds` would
not hold without the latter, and nothing else rests on it.

## 4. What is proved

TLAPS checks the theorems below for every value of the constants that satisfies the
named assumptions; TLC evaluates the assumptions in every run.

`FamilyLifecycleProofs` (`ConstantsAssumption`, `NoArtifactAssumption`: any threads, any
finite or infinite graph of families, any bound on rebuilds):

* `TypeCorrect`, `StackCorrect`, `MigrationsCorrect`, `CoherentGraphCorrect`: the type
  invariant, `CompilationStack`, `MigrationsFrozen`, `CoherentGraph`.
* `PublishedOnceCorrect`: `PublishedOnce`, as an action property.
* `ServedCorrectly`, `DisplacedCorrectly`: `ServesUnchangedGraph`, `DefaultDisplacedOnlyWhenInvalid`, as
  action properties.
* `UnmixedCorrect`: `UnmixedArtifact`, with rebuilds at any moment.
* `FreshWithoutRaces`: `FreshPublication`, for `~RacingRebuilds`.
* `Refinement`: `FamilyLifecycle` implements `AtomicFamilies`.

None of the invariants is inductive alone. `Typing` adds to the types that the children
a compilation has resolved are published, without which a recorded artifact could be
ill-typed. `StackInv` adds to `CompilationStack` which frame is in which phase and what a
caller waits for: an exception pops calls one by one, and each must find its own flag.
`MigrationsInv` needs the stack, because migrations are frozen by the `_compiling` flag
before there is an artifact. `CoherentGraph` is inductive given the others: an artifact
takes over the dependencies of artifacts that no longer change. Serving and displacing look
at a graph through the dependencies that were recorded, and both directions are needed: a check of the
dependencies sees the whole embedded graph because they are closed under it (`DependenciesClosed`), and
what it finds belongs to that graph because they are no more than it (`DependenciesEmbedded`). `ReadBetween`
says why one comparison at the end of compile() is enough: all that was read lies between
the schema captured first and the present one, and identities do not come back.

`ConversionProofs` (`SitesAssumption`, `TreeAssumption`, `SemanticsAssumption`: any tree
of families, any label maps and declarations):

* `ConversionTypeCorrect`: loops stay on their routes, and values at labels of their family.
* `DowngradesAvailable`: `NoUnavailableDowngrade`. The inductive invariant says of
  every active loop that the rest of its route is *walkable*: its semantics, as planning
  computes them, are not "unavailable". Entering a nested loop keeps it because the route
  semantics of the owner include those of the nested family over the same move, and this
  is what the recursive preflight is for.
* `ChildrenFirstCorrect`, `DeliveredCorrectly`: `ChildrenFirst` and `Delivered`. The inductive
  invariant `TreeInv` has three parts. `Linked`: the loops on the stack follow declarations from
  the root. `Settled`: an embedded value follows the label of its owner, on this side of the
  edge the owner is at, or on the other once it was visited. `RawBelow`: wire names are found only below
  values with wire names, or at declarations that are still to be visited. What the properties
  say of whole subtrees then follows without induction over the tree: the subtree of a site is the least set that is closed under
  embedding (`UnderLeast`), so it lies in every closed set, and "in step with its owner" is one.

* `ExactIsLossless`: `ExactMeansLossless`, for families where `ForwardKeepsFields`: a
  label to which an embedded family advances while its owner goes back removes no field of it.
  The hypothesis is about the label maps and declarations only. TLC finds it true of the instance of run `conversion`
  and false of that of `ConversionExact.cfg`, where the property is violated (section 6). Elsewhere
  an embedded family passes, on its way back, only labels that its route semantics have looked at: the labels
  its owner maps to may jump, but each step in between belongs to some edge of the owner.
* `PlanImplemented`: `ImplementsPlan`. A *place* is an edge of the outermost loop with an embedded family that
  is visited there, or with the callback at its end. A place that moves something adds one step to the plan and the others none; the plan that is still
  to be performed is the part after the present place. That the labels move as that step says rests on
  `ShownInv`, which `TreeInv` and `RootInv` imply: the embedded values that the outermost loop has passed on its present edge are at the labels
  that the end of the edge selects, the others at those of its beginning, and the one that is being walked
  shows where it began. Hence `Return` is the step of an embedded family, whose walk has arrived at the
  label that the plan names (`PlannedKid`), `Pass` is one when it moves nothing because there is no value, and
  the steps of deeper loops are stutters.

`FieldNamesProofs` (`NamesAssumption`: any fields and names, any family of any number of
versions, any callbacks):

* `NamesTypeCorrect`, `ValidatedCorrect`, `RenderedCorrect`: the type invariant,
  `ValidatedAsMeant`, `RenderedAsMeant`. The results are facts about the last step; what must be
  kept until then is `Inv`: a field is held at its own name or at one of its aliases, with
  the value it is meant to have (`Held`); once normalised, only in one of these ways (`OneWay`), which is
  where Pydantic looks; what is held by no field is at no field's place in the wire model
  (`Foreign`); and a value from a model's field is at that field (`Tagged`), so that an
  excluded field cannot reappear under another name. That names are translated back and forth without
  loss rests on `OwnNames`, which compile() checks.
* `RefusedCorrectly`: `RefusedOnlyAfterCallbacks`. Without callbacks the payload is what was read
  (`Untouched`): every field of the version it came from is held under its own name and nothing else is. A required
  field that is missing at the end was therefore absent from the source's version and came in later; at the first version
  in which it is there, compile() asked for an upgrade, and that is a callback on the way.

`VersionMetadataProofs` (`VersionsAssumption`, `MetadataAssumption`: any threads and documents, any
number of versions, any map between the labels of a family and of the one it embeds):

* `MetadataTypeCorrect`, `HiddenFromCallbacks`, `RenderedCorrectly`: the type invariant,
  `NoFamilyMetadataInCallbacks`, `RenderedAsRequested`. The inductive invariant `OpsInv` says for each
  stage of an operation what the next place may rely on. `Hidden` is about the edges: it needs that the embedded value of an
  explicit source model, whose label is under its wire name, is converted on the first edge in any
  case: otherwise a label could pass an edge on which the embedded family does not change. `Requested` is
  about the places after the last edge, one clause for each: the target model finds only labels
  that it admits (so projection has replaced those of models, and `SetOwn` has replaced what callbacks
  wrote or left a label that is `Standing`), the serialized labels are as asked for unless a
  serializer wrote them, and the embedded one is final when it was pruned. `OnRoute` says that a rendering
  at the current version calls no callback, so no label of its own can have been written there. The proof has one lemma per place.
* `RemovedOnlyPrivately`, `ReadCorrectly`: `RemovedPrivately`, `ReadAsWritten`, under `NothingShared`: no
  declaration of a family with discovered children puts its label into a wrapper mapping. The first
  disagreement of section 6 is thereby confined to families that do both.

`RuntimeCacheProofs` (`BoundsAssumption`, `KindsAssumption`):

* `CacheTypeCorrect`: the type invariant.
* `AlwaysFresh`: `PlansFresh`. An entry tagged with a schema's identity is as young as
  its tag, because it is built after the tag was read; an adapter without tag is as
  young as its family's own schema, which is the one the operation began with.
* `BuiltOnce`: `AdapterBuiltOnce`. At most one thread is inside the lock of a family,
  and it has seen there that no adapter is stored.

`PayloadExtractionProofs` (`ClassesAssumption`, `FormsAssumption`, `SourcesAssumption`, `EqualityAssumption`: any
number of source objects that refer to each other in any way, any classes and annotations, finite or not).
The theorems are about `ExtractionSpec`; run `payload` checks the same properties of `ConversionSpec`, which continues
where extraction ends.

* `TypeCorrect`: `TypeOK`; the active identities are those of the running calls, also while an exception leaves them.
* `PayloadDetached`: `Detached`. Structures that no annotation declares are handed on as they are and are left out
  of it, as in the property.
* `RefusedIfRefusable`: an extraction that ends was refused if and only if its source is `Refusable`: some object is part of
  itself, or a list or set is where a hashable value has to be. `CyclesAreRefused`: `CyclesRefused`, provided that
  `StackLimit` is greater than the number of objects; the calls are for different objects (`FewCalls`), so a
  recursion that is deeper cannot be.
* `PayloadDeclared`: `DeclaredOnly`, under `Validated`: a field of a structure holds what its class, and every ancestor
  that has the field, declares. That is what a validated model is; an instance made by `model_construct`, and a
  field that a subclass declares more widely than its base, are not covered. Of the declarations it needs that a class
  precedes its ancestors in every method resolution order, that the ancestors of a structure are of its kind, and that unions
  are flat, as `typing.Union` makes them.

The inductive invariant `Inv` is stated of a heap and a stack of calls. `Stack`: every call is for the next part of the one
before. `Objects` and `Extracted`: what was made consists of older objects that were made, and of what is passed on, and of a collection
the same collection was made (`StandsFor`). `OneHolder` and `OneCall`: every object that was made is in one place, be it of another or of
a call; this is what `Detached` becomes at the end, and it is inductive because a finished call gives what it made to
one other. `Judged` is what refusals need: an extracted part is refusable, below the objects that the
calls are for, only if it is not hashable where it has to be, and a refusable part of a call makes the root refusable.
That no set and no mapping loses a member on the way, and so refuses what `Refusable` does not name, follows because distinct members of a
source are not alike, and what is made of them is equal only where they are (`SameIsAlike`).

`Fitting` adds what `DeclaredOnly` needs: the object of every call matches its annotation (`Matches`), and what was made of its parts
`Conforms` to theirs. The parts of an object that matches do (`PartsMatch`), by cases on what the object is taken apart as
(`StructureShown`): the arm that `Matching` chooses is one that the object matches, and its class, if the object is an instance of a
declared one, is the most specific (`NearestIsMostSpecific`); this is where an arm that comes first but is a base class breaks the
proof, as the mutant does the run. What conforms keeps doing so in a heap that grows (`ConformsKept`), because it is judged
by older objects only.

The model recurs over objects and annotations with recursive functions. `FixedPoint` shows that each of
them exists, `LeastNumber` and `Induction` over the numbers of objects, which are older than what is made of
them, take the place of induction over data.

`CanonicalProofs` (`InputsAssumption`, `AdaptationAssumption`: any adapted schemas, recursive ones included, of any depth, data of
any depth, and validators that return, replace, catch and raise anything):

* `TypeCorrect`: `TypeOK`; the frames are those of the running calls of layers.
* `NoMemberIsLost`: `SetsKept`, under `SetsWatched`: no wrap function encloses a union of guarded sets
  (`NothingSwallowed`), and a function before what may shrink a set is guarded or shielded
  (`BeforeGuarded`). The first excludes what disagreement 10 of section 6 is about; the second is what adaptation does wherever it
  may record functions, that is outside models with an `__init__` of their own.
* `MembersAreKept`: `EnumKept`, under `EnumsWatched`: a union with a repair inside has a frame
  (`RepairsFramed`), and one with recorded functions inside watches its choices, unless it has no frame and
  is in no choice (`RecordsWatched`). This excludes what disagreement 9 is about.

The hypotheses are about schemas only. TLC finds both true of the schemas of run `canonical` (`MCGuardedValidation`), the first false of those
of `CanonicalSwallowed.cfg` and the second false of those of `CanonicalAuthorized.cfg`, where the properties are violated.

The stacks of frames say nothing by themselves of whose frames they are. `BaseInv` says it: the frame of a call is
the one at its rank among the calls of its kind (`Rank`), and the calls are a line of nodes each of
which leads to the next through its layers (`Lined`). That a call of a layer is followed by one of
the next layer, without induction over schemas, is what `Inner` and its closure are for.
`SetsInv` follows a member that was lost (`Noticed`): a guard is about to see that; or it was told to
the innermost choice, and every function that could catch its error is inside that choice; or to
all applications; or no function is left that could catch it. A choice that was told is left
before its union tries another (`ChoicesMarked`). `EnumsInv` follows a member that was recognised. Outside
unions it is returned at once (`Straight`). Inside, the outermost union was told (`Told`), and what it selects is
either the stored value or a value all of whose results are by choices in which a function ran
(`Recorded`); such a choice is on its way to return what the function took part in (`RanLast`,
`Nested`), because unions on the way that could select something else have frames of their own
(`Traced`, with `RecordsWatched`).

`DecoratorSelectionProofs` (`SitesAssumption`, `BoundsAssumption`, `DocumentsAssumption`: any families and
dispatch sites, each with any number of families, any documents of any depth, any edges with callbacks,
and callbacks of the root family that do any number of things):

* `TypeCorrect`: the type invariant, of which the payload being a tree is a part, whatever callbacks do.
* `SelectionsHold`, `OccurrencesSelected`, `OccurrencesDelivered`, `ReordersPass`: `RightlyBound`,
  `NoneOverlooked`, `Delivered`, `ReordersAccepted`; and `ObjectsKeptApart`: `KeptApart`, as an action property.
  All five for `OwnerEdits = {}`: callbacks of embedded owners leave the values in them in place. A hypothesis of
  this kind is needed, because run `decorators_owner` violates `RightlyBound` without it, and this one is stronger than
  the code needs: TLC finds the properties true in run `decorators`, where owners drop and reorder
  values of a site of one family.

`RightlyBound` is not inductive: it is silent while a callback works and while its result is reconciled, and the
reconciliation recognises values one group at a time, by object, by key and by position. The inductive invariant is `Typing`
with `Kept`, which says for each phase what the next one needs. Between the steps of the loop, selections and
payload agree (`Consistent`). While a callback works, an object it was given still has the family and the label that
its selection says, wherever it is now, and a mapping that it was not given follows the label it was told of (`Given`).
While its result is reconciled (`Progress`), owners come before what is in them, and a selection whose group was
reconciled is given up with its owner or found: at the same site, in the same owner, and alone there. A group that is not
refused pairs the selections that remain with the candidates that remain, one to one (`Claims`,
`Replacements` and `Rebound` are shown to be such pairings), and what discovery adds afterwards lies in models that
were introduced. `ReordersPass` needs in addition that if values only changed places, every value of a reconciled group was recognised
by its object and nothing replaced. Together these show that the refusals leave only
results in which every value is recognised.

## 5. What is only model-checked, and why

* `LockReleased` and `LookupEnds` are liveness under fairness, which is out of reach of
  this prover.
* The properties of `DecoratorSelection`, but for its types, where callbacks of embedded owners drop or
  reorder values (`OwnerEdits`).
* The properties that `PayloadConversion` adds (`ConvertsWhatItChecks`, `NoMemberLost`), and `RebuiltIfReached` of
  `SchemaAdaptation`. These modules recur over annotations, objects and schemas with RECURSIVE
  operators, and what such an operator computes for every input is out of reach of this prover.
  `PayloadExtraction` writes its recursion as functions, which are within reach, and `CanonicalValidation` has none.
* That `SchemaAdaptation` makes schemas which satisfy `AdaptationAssumption`, for the same reason. The theorems of
  `CanonicalProofs` rest on that assumption; TLC evaluates it for the schemas of the instances.

Where a proof above needs induction over numbers (versions, edges, places, steps of a plan) it takes the least element
of a set of counterexamples, which the provers can do; the recursive functions over numbers
(`PlanPrefix`) are unfolded after their existence is proved. What is sorted or paired (`Listed`, `Replacements`)
is reasoned about through a set of natural numbers that contains 0 and is closed under successor; induction over trees is
avoided: it is replaced by an invariant of each value and its owner, or by the shortest of the paths in question.

## 6. Where the code and its documentation disagree

Found by runs:

1. *A label is removed from the caller's document* (`_runtime.py:1104`). Before a family
   with decorator-discovered children validates, it normalises a copy of the document one
   level deep; with a tuple metadata path the label is popped from the nested mapping that
   the copy shares with the caller. A second validation of the same document finds its
   label missing. `docs/guide/version-discovery.md:82-84` says that metadata is removed
   only from the private value. Run `metadata_shared`.
2. *Selections follow locations, not identities, when an embedded owner reorders its values*
   (`_runtime.py:847`). The owner's callback runs inside the conversion step, after which
   identities are refreshed by location: with a list of two families each value is converted
   further by the family of the other. `docs/guide/generated-wire-contracts.md:182-184` says that identities
   move with the values. Run `decorators_owner`.
3. *Members of a set of wrappers may be lost* (`_runtime_payload.py:1837`). When the path of an
   embedded family passes through a set of models that each hold a value of the family, every wrapper is
   copied into a plain dictionary and made hashable again without the identities it
   remembered, and the guard of canonical validation only looks at sets with identities. Two wrappers that a
   conversion makes equal become one. `docs/guide/migrations.md:246-249` says that a conversion
   that cannot preserve the cardinality of a set fails. Run `payload_lost`.

Found by the configurations that are run by hand:

4. *Model-owned labels are not rebased on every edge* (`_runtime_nested.py:323`).
   `docs/guide/migrations.md:163-164` says they are. `MetadataRebased.cfg`.
5. *An exact render plan may lose a field of an embedded family* (`_planning.py:595`) whose label
   goes up while its owner is rendered down. `ConversionExact.cfg`.
6. *An invalid default may not be replaceable* (`family.py:375`) when it was never compiled
   and names the invalid child through a provider. `FamilyProviderDefault.cfg`.
7. *Alias plans are keyed by the address of a core schema* (`_runtime_versioning.py:385`),
   which may be in use again. `CacheAddress.cfg`.
8. *A value may move to another field whose name is its alias* (`_runtime_versioning.py:447-452`). A
   model may have a field `internal_id` with the alias `id`, declared before a field `id` with the alias
   `external_id`: documents can tell them apart, but in a payload the names of fields count too, and the
   normalisation of the first takes the value of the second. `docs/guide/generated-wire-contracts.md:21` says
   "Unrenamed fields keep supported validation and serialization aliases." `NamesCrossing.cfg`.
9. *An alternative that was not selected authorizes a result* (`_runtime_validation.py:595`). A function
   of the application marks the innermost choice frame as soon as it succeeds. A union without
   enums inside a choice has no frames of its own, so an alternative of it that is not selected
   marks the enclosing choice, whose stored enum value may then change its type.
   `docs/guide/rendering.md:123` says "Failed and unselected application arms cannot authorize
   another arm's result." `CanonicalAuthorized.cfg`.
10. *A wrap validator around a union swallows the loss of a set member* (`_runtime_validation.py:865`). Inside a
   choice a violation is told to the innermost choice frame only; if the union fails as a whole,
   a `WrapValidator` outside it that catches the error finds no violation in its own frame, and its value is
   delivered. `docs/guide/rendering.md:129-133` says "Canonical guards reject a carrier-backed
   cardinality collapse" and "An application wrap validator cannot swallow that core-loss invariant".
   `CanonicalSwallowed.cfg`.

## 7. What is not modelled, and why

* Of payloads: type variables, generic classes and type aliases, which count as what they stand for;
  the fast paths of extraction plans; alias paths into nested mappings.
* Of canonical validation: the bypass of materialized wire models,
  `_same_canonical_container_shape`, the refusal of overridden `model_validate`, and validation that
  a function of the application starts inside another. Keys of mappings are represented by members of sets.
* Of rendering: pruning of serialised output, and copies of inputs and of validated state.
* Of names: alias generators and paths, explicit wire models, and version metadata inside `FieldNames`
  (`VersionMetadata` has the latter without names).
* The catalogue of contract checks (`_wire_contract.py`, `_wire_shape_contract.py`) but for the
  uniqueness of output names: pure predicates over Pydantic's data structures, without state and
  better covered by the repository's tests. A declaration they refuse is `Reject` in `FamilyLifecycle`.
* Wire documents (`_wire_document.py`): generated root models; the labels in them are in `VersionMetadata`.
* Of decorator-discovered occurrences: sets, tuples, mapping keys that are not strings, and
  sites that also accept plain mappings, where a payload that holds both a value of a family
  and a plain mapping is refused as if a callback had introduced the latter. A callback does not put a mapping
  into a model instance that does not belong at its site (`Understood`).
* Pydantic itself: validation and serialisation are success or failure, except where it looks for the
  value of a field (`FieldNames`) and how it tries the alternatives of unions (`CanonicalValidation`);
  `model_rebuild` is a new core schema.
* Release script, benchmarks and documentation tooling.

## 8. Plan

Done, in the order of importance: the family lifecycle with its abstract specification
and proofs; conversion with plan, refinement and their proofs; version metadata with proofs; decorator
selections with proofs; runtime caches with proofs; names with proofs; payload extraction with proofs, and conversion;
canonical validation with the adaptation of schemas, and proofs of the former.

Left, should the development be continued:

1. `DecoratorSelection`: sites with an arm for plain mappings, and members of sets; its
   composition with label maps.
2. `FamilyDeclarations` (`_compiler.py:299-474`): what compile() admits besides names, as a
   predicate in place of the nondeterministic `Reject`.
3. `WireDocument` together with `VersionMetadata`; alias paths in `FieldNames`.
4. Theorems: those of `DecoratorSelection` for owners that drop and reorder values of one family.
