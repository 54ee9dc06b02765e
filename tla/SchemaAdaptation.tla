--------------------------- MODULE SchemaAdaptation ---------------------------
(***************************************************************************)
(* How the core schema of a model is adapted to canonical payloads         *)
(* (_runtime_render.py:109-690, _runtime_validation.py:261-417).           *)
(*                                                                         *)
(* A schema is a tree of nodes and, by name, the trees of its definitions. *)
(* Adaptation puts layers around nodes: validators of the library that run *)
(* before, or around, the node itself, the outermost first.  What a node   *)
(* changes is told to its ancestors by flags, and to the references to its *)
(* definition by repeating the whole pass until nothing new is found.      *)
(*                                                                         *)
(* Node types that only pass values on (default, chain, json-or-python,    *)
(* tuple, ...) are represented by "nullable", those that hold one value    *)
(* per key by "model", and the keys of mappings by "set".  The bypass of   *)
(* materialized wire models is left out.                                   *)
(***************************************************************************)
EXTENDS CoreSchemas

\* The flags of _SchemaChanges that are told only where enums may be bridged.
EnumFlags == {"enum", "enum_union", "application"}

RECURSIVE HasModel(_, _, _), Adapt(_, _, _, _, _), RefsIn(_), NodesIn(_)

\* _render_validation_schema_model: does the node always produce one model?
HasModel(definitions, node, seen) ==
  \/ node.type \in Models
  \/ node.type \in {"after", "before", "wrap"} /\ HasModel(definitions, node.kids[1], seen)
  \/ /\ node.type = "ref" /\ node.name \notin seen
     /\ HasModel(definitions, definitions[node.name], seen \cup {node.name})

\* _validation_reachable_references.
RefsIn(node) ==
  IF node.type = "ref" THEN {node.name} ELSE UNION {RefsIn(node.kids[i]) : i \in DOMAIN node.kids}
RECURSIVE ReachableFrom(_, _)
ReachableFrom(definitions, names) ==
  LET more == names \cup UNION {RefsIn(definitions[d]) : d \in names}
  IN  IF more = names THEN names ELSE ReachableFrom(definitions, more)
Reachable(schema) == ReachableFrom(schema.definitions, RefsIn(schema.root))

\* Must what the children of the node produce be hashable, where hash says so of the node itself?
HashesChild(type, hash) ==
  \/ type = "set"
  \/ hash /\ type \in {"union", "tagged", "nullable", "after", "before", "wrap"}

-----------------------------------------------------------------------------
(* The layers of one node; below are the flags of its children. *)

\* Layers of an application's function, _canonical_validation_schema_transform.
Shields(type, below, hash) ==
  IF hash \/ "opaque_hash" \in below THEN <<"reject">>
  ELSE IF "structural" \notin below /\ type # "after" THEN <<"unwrap">>
  ELSE <<>>
ShrinkGuard(mode, type, below) ==
  IF mode.guard /\ "structural" \in below /\ type = "before" THEN <<"guard">> ELSE <<>>

LayersOf(mode, type, below, allow, hash) ==
  CASE allow /\ type = "enum" -> <<"retry">>
    [] mode.guard /\ type = "any" -> IF hash THEN <<"reject">> ELSE <<"unwrap">>
    [] mode.guard /\ type = "set" -> <<"guard">>
    [] type \in Applications ->
         ShrinkGuard(mode, type, below) \o
         (IF mode.instrument /\ allow THEN Shields(type, below, hash) \o <<"record">> ELSE <<>>)
    [] type = "union" /\ "enum" \in below -> <<"union">>
    [] OTHER -> <<>>

FlagsOf(type, layer) ==
  CASE layer = "retry" -> {"enum"}
    [] layer = "reject" -> IF type = "any" THEN {"structural", "opaque_hash"} ELSE {"structural"}
    [] layer = "unwrap" -> {"unwrap"}
    [] layer \in {"guard", "mapping"} -> {"structural"}
    [] layer = "record" -> {"application"}
    [] layer = "union" -> {"enum", "enum_union"}

\* Does the union watch its choices?
Watched(mode, type, below) ==
  /\ mode.instrument /\ type = "union"
  /\ below \cap {"enum", "structural"} # {}
  /\ below \cap {"application", "structural"} # {}
Watch(node) == [node EXCEPT !.layers = <<"choice">> \o @]

\* A model is rebuilt around its adapted fields: a shell is validated, and the model made of it.
WithLayers(node, layers, kids, watched, changes) ==
  [node EXCEPT !.layers = layers,
     !.kids = IF watched THEN [i \in DOMAIN kids |-> Watch(kids[i].node)] ELSE [i \in DOMAIN kids |-> kids[i].node],
     !.rebuilt = node.type \in Models /\ changes # {}]

-----------------------------------------------------------------------------
(* One pass, and the repetition of passes. *)

Adapted(node, changes) == [node |-> node, changes |-> changes]
AllFlags(node, layers) == UNION {FlagsOf(node.type, layers[i]) : i \in DOMAIN layers}
Finished(node, mapping, layers, kids, watched, below) ==
  Adapted(WithLayers(node, mapping \o layers, kids, watched, below \cup AllFlags(node, layers)),
          below \cup AllFlags(node, mapping \o layers))
AdaptWith(mode, node, mapping, kids, below, allow, hash) ==
  Finished(node, mapping, LayersOf(mode, node.type, below, allow, hash), kids,
           Watched(mode, node.type, below), below)
Below(mode, node, kids, allow) ==
  IF node.type = "ref"
  THEN mode.known[node.name] \ (IF allow THEN {} ELSE EnumFlags)
  ELSE UNION {kids[i].changes : i \in DOMAIN kids}

\* Enums are not bridged in models with a custom __init__.
AllowedBelow(node, allow) == allow /\ node.type # "init_model"

\* _clone_render_validation_schema.  A model that must be hashable takes its payload out of
\* the carrier first, and its fields need not be hashable.
AdaptKids(mode, node, mapping, kids, allow, hash) ==
  AdaptWith(mode, node, mapping, kids, Below(mode, node, kids, allow), allow, hash)
AdaptAs(mode, definitions, node, hash, allow, model) ==
  AdaptKids(mode, node, IF model THEN <<"mapping">> ELSE <<>>,
            [i \in DOMAIN node.kids |->
               Adapt(mode, definitions, node.kids[i], HashesChild(node.type, hash /\ ~model),
                     AllowedBelow(node, allow))],
            allow, hash /\ ~model)
Adapt(mode, definitions, node, hash, allow) ==
  AdaptAs(mode, definitions, node, hash, allow, hash /\ HasModel(definitions, node, {}))

\* Mutant of Settled: what is told only where enums may be bridged is not awaited.
SettledApartFromEnums(known, found) == \A d \in DOMAIN known : found[d].changes \ EnumFlags \subseteq known[d]

Settled(known, found) == \A d \in DOMAIN known : found[d].changes \subseteq known[d]

Mode(guard, instrument, known) == [guard |-> guard, instrument |-> instrument, known |-> known]
Definitions(mode, schema) ==
  [d \in Reachable(schema) |-> Adapt(mode, schema.definitions, schema.definitions[d], FALSE, TRUE)]
Whole(mode, schema, found) ==
  [root |-> Adapt(mode, schema.definitions, schema.root, FALSE, TRUE), definitions |-> found]

\* _build_adapted_validation_schema.
RECURSIVE Passes(_, _)
PassesFrom(mode, schema, found) ==
  IF Settled(mode.known, found) THEN Whole(mode, schema, found)
  ELSE Passes([mode EXCEPT !.known = [d \in DOMAIN @ |-> @[d] \cup found[d].changes]], schema)
Passes(mode, schema) == PassesFrom(mode, schema, Definitions(mode, schema))
Built(guard, instrument, schema) ==
  Passes(Mode(guard, instrument, [d \in Reachable(schema) |-> {}]), schema)

\* Every node, and every one of an adapted schema.
NodesIn(node) == {node} \cup UNION {NodesIn(node.kids[i]) : i \in DOMAIN node.kids}
AllNodes(root, definitions) ==
  NodesIn(root) \cup UNION {NodesIn(definitions[d]) : d \in DOMAIN definitions}

\* A model cannot be rebuilt around code of its own.
Unsupported(node) == node.rebuilt /\ node.type \in {"init_model", "new_model"}

\* Where nothing changes the model validates the payload itself.
Nodes(whole) == [d \in DOMAIN whole.definitions |-> whole.definitions[d].node]
ResultOf(schema, whole, root, definitions) ==
  [root |-> IF whole.root.changes = {} THEN schema.root ELSE root,
   definitions |-> IF whole.root.changes = {} THEN schema.definitions ELSE definitions,
   refused |-> \E n \in AllNodes(root, definitions) : Unsupported(n)]
Result(schema, whole) == ResultOf(schema, whole, whole.root.node, Nodes(whole))

\* _build_canonical_validation_schema: applications are recorded where sets are guarded, or
\* in a second build because there are unions of enums.
Again(schema, whole) == IF "enum_union" \in whole.root.changes THEN Built(FALSE, TRUE, schema) ELSE whole
AdaptedSchema(schema, guard) ==
  Result(schema, IF guard THEN Built(TRUE, TRUE, schema) ELSE Again(schema, Built(FALSE, FALSE, schema)))

-----------------------------------------------------------------------------
(* What adaptation promises. *)

\* The layers that can be told to a reference.
Told(node, masked) == ToSet(node.layers) \ ({"choice"} \cup (IF masked THEN {"retry", "record", "union"} ELSE {}))

\* Is an adapted node reached from node, through any number of references?
RECURSIVE Reaches(_, _, _, _, _)
Reaches(definitions, node, allow, masked, seen) ==
  \/ Told(node, masked) # {}
  \/ \E i \in DOMAIN node.kids :
       Reaches(definitions, node.kids[i], AllowedBelow(node, allow), masked, seen)
  \/ /\ node.type = "ref" /\ <<node.name, masked \/ ~allow>> \notin seen
     /\ Reaches(definitions, definitions[node.name], TRUE, masked \/ ~allow,
                seen \cup {<<node.name, masked \/ ~allow>>})

\* The models of a tree with whether enums are bridged in them.
RECURSIVE ModelsIn(_, _)
ModelsIn(node, allow) ==
  (IF node.type \in Models THEN {<<node, allow>>} ELSE {})
    \cup UNION {ModelsIn(node.kids[i], AllowedBelow(node, allow)) : i \in DOMAIN node.kids}
RebuiltIn(definitions, tree) ==
  \A m \in ModelsIn(tree, TRUE) :
    m[1].rebuilt <=> Reaches(definitions, [m[1] EXCEPT !.layers = SelectSeq(@, LAMBDA l : l \notin {"mapping"})], m[2], FALSE, {})
================================================================================
