--------------------------- MODULE VersionMetadata ---------------------------
(***************************************************************************)
(* Version labels inside documents (_runtime_versioning.py and its callers *)
(* in _runtime.py, _runtime_nested.py, _runtime_render.py): how validate   *)
(* and dump discover the label of a caller's document, check it, keep it   *)
(* away from transition callbacks or rebase it, and write it again.        *)
(*                                                                         *)
(* One family, with one embedded family, used by several threads.  Only    *)
(* the version labels of payloads are kept; 0 stands for no label.  A      *)
(* document keeps its label in a mapping object, which documents of the    *)
(* same caller may share.                                                  *)
(***************************************************************************)
EXTENDS Naturals

CONSTANTS
  Threads,
  Docs,            \* documents the caller owns
  Mappings,        \* mapping objects that hold version labels
  MappingOf,       \* MappingOf[d]: the one that holds the label of document d
  Size, ChildSize, \* numbers of versions of the family and the embedded family
  ChildMap,        \* ChildMap[l]: the embedded family's label under label l
  Declarations,    \* the ways in which the two families declare version metadata
  Discovered,      \* is the embedded family found by the decorator, not declared?
  Explicit,        \* labels of the family that have an explicit wire model
  MissingVersion   \* the missing_version label, or 0

Labels == 1 .. Size
ChildLabels == 1 .. ChildSize

ASSUME VersionsAssumption ==
  /\ Size \in Nat \ {0}
  /\ ChildSize \in Nat \ {0}
  /\ ChildMap \in [Labels -> ChildLabels]
  /\ ChildMap[Size] = ChildSize
  /\ Discovered => \A l \in Labels : ChildMap[l] = l
  /\ Explicit \subseteq Labels \ {Size}
  /\ MissingVersion \in Labels \cup {0}

ASSUME MetadataAssumption ==
  /\ Docs # {} /\ MappingOf \in [Docs -> Mappings]
  /\ Declarations \subseteq
       [owner : {"family", "model"}, child : {"family", "model"},
        wrapped : BOOLEAN, collected : BOOLEAN]
  /\ \A m \in Declarations : m.wrapped => m.owner = "family"
  /\ Discovered \in BOOLEAN

VARIABLES
  metadata,  \* who owns the label of the family and that of the embedded family, whether
             \* the family's metadata path is a tuple, into a wrapper mapping, and whether
             \* the embedded values are collected in a set or a tuple
  declared,  \* declared[m]: the label that mapping m holds now
  wrote,     \* wrote[m]: the label its caller put there
  embedded,  \* embedded[d]: the label the embedded value of document d declares
  op         \* op[t]: the operation thread t performs

vars == <<metadata, declared, wrote, embedded, op>>

Owner == metadata.owner
ChildOwner == metadata.child
WrappedPath == metadata.wrapped

(***************************************************************************)
(* An operation: the document it reads, the label it was given (an explicit*)
(* version, or the one to render at), the label it discovered, the label   *)
(* its private payload follows (pos), the labels that the payload (own) and*)
(* the embedded value (child) contain, whether the embedded value has      *)
(* canonical names, and which labels code of the application wrote         *)
(* (meddled): callbacks either of the two, the serializer of an explicit   *)
(* target model any.                                                       *)
(* "mislabelled" is a refusal for a label found in the private payload, in *)
(* the target model or in its serialization; what else may go wrong, and a *)
(* label of the caller's document, is "refused".                           *)
(***************************************************************************)
Op ==
  [pc : {"idle", "begun", "checked", "walking", "called", "projected", "labelled", "dumped",
         "pruned", "validated", "rendered", "missing", "refused", "mislabelled"},
   kind : {"validate", "render"}, doc : Docs, given : Labels \cup {0}, body : BOOLEAN,
   source : Labels, pos : Labels, own : Labels \cup {0}, child : ChildLabels \cup {0},
   canonical : BOOLEAN, meddled : SUBSET {"own", "child", "serialized"}]

NoOp ==
  [pc |-> "idle", kind |-> "validate", doc |-> CHOOSE d \in Docs : TRUE, given |-> 0,
   body |-> FALSE, source |-> Size, pos |-> Size, own |-> 0, child |-> 0,
   canonical |-> FALSE, meddled |-> {}]

TypeOK ==
  /\ metadata \in Declarations
  /\ declared \in [Mappings -> Labels \cup {0}]
  /\ wrote \in [Mappings -> Labels \cup {0}]
  /\ embedded \in [Docs -> ChildLabels \cup {0}]
  /\ op \in [Threads -> Op]

Init ==
  /\ metadata \in Declarations
  /\ declared = [m \in Mappings |-> 0]
  /\ wrote = [m \in Mappings |-> 0]
  /\ embedded = [d \in Docs |-> 0]
  /\ op = [t \in Threads |-> NoOp]

-----------------------------------------------------------------------------
(* State functions. *)

Active(t) ==
  op[t].pc \in {"begun", "checked", "walking", "called",
                "projected", "labelled", "dumped", "pruned"}
InUse(d) == \E t \in Threads : Active(t) /\ MappingOf[op[t].doc] = MappingOf[d]

LabelIn(t) == declared[MappingOf[op[t].doc]]
Target(o) == IF o.kind = "validate" THEN Size ELSE o.given
Ahead(o) == IF o.kind = "validate" THEN o.pos + 1 ELSE o.pos - 1

\* _preflight_nested_version_metadata: the embedded value declares the label that
\* the map selects, or none.
ChildAgrees(d, label) == embedded[d] \in {0, ChildMap[label]}

\* _detect_version; 0 when the label is missing.
Detected(d, explicit) ==
  IF explicit # 0 THEN explicit
  ELSE IF declared[MappingOf[d]] # 0 THEN declared[MappingOf[d]] ELSE MissingVersion

\* _to_current_names: a label that the family owns is removed, one that the model
\* owns is replaced by the current label.
CurrentName(owner, size) == IF owner = "family" THEN 0 ELSE size

\* _normalize_validated_nested_family_value, _normalize_decorator_value
CurrentChild == CurrentName(ChildOwner, ChildSize)

\* _rebase_canonical_version_metadata
Rebased(owner, label, target) == IF owner = "family" THEN 0 ELSE target

\* Mutant of Converted: an embedded family is only looked at when its label changes.
ConvertedIfChanged(o) == ChildMap[o.pos] # ChildMap[Ahead(o)]

\* The edge converts the embedded value: _apply_nested_family_migrations for a
\* declared family, _apply_selected_decorator_migrations for a discovered one.
Converted(o) == ChildMap[o.pos] # ChildMap[Ahead(o)] \/ ~o.canonical

\* Mutant of RemovedFromDocument: the name is removed from the caller's own mapping.
RemovedInPlace(t) == Owner = "family"

\* _preflight_selected_decorator_version_metadata normalises a copy of the document
\* that shares the wrapper mappings with the caller's.
RemovedFromDocument(t) == Owner = "family" /\ WrappedPath /\ Discovered

\* The operation fails for a label of its own payload.
Mislabelled(o) ==
  [NoOp EXCEPT !.pc = "mislabelled", !.kind = o.kind, !.given = o.given, !.meddled = o.meddled]

Step(t, new) == op' = [op EXCEPT ![t] = new]

-----------------------------------------------------------------------------
(* Actions of the caller. *)

\* The caller writes a document, with or without labels.
Write(d, label, child) ==
  /\ ~InUse(d)
  /\ declared' = [declared EXCEPT ![MappingOf[d]] = label]
  /\ wrote' = [wrote EXCEPT ![MappingOf[d]] = label]
  /\ embedded' = [embedded EXCEPT ![d] = child]
  /\ UNCHANGED <<metadata, op>>

\* The caller keeps a rendered document.
Keep(t, d) ==
  /\ op[t].pc = "rendered"
  /\ ~InUse(d)
  /\ declared' = [declared EXCEPT ![MappingOf[d]] = op[t].own]
  /\ wrote' = [wrote EXCEPT ![MappingOf[d]] = op[t].own]
  /\ embedded' = [embedded EXCEPT ![d] = op[t].child]
  /\ Step(t, NoOp)
  /\ UNCHANGED metadata

\* validate(d, version=explicit): the label is discovered, and the labels of embedded
\* values are compared with the one it selects.
BeginValidate(t, d, explicit) ==
  LET source == Detected(d, explicit)
      begun == [NoOp EXCEPT !.doc = d, !.given = explicit]
  IN
  /\ ~Active(t)
  /\ IF source = 0 THEN Step(t, [begun EXCEPT !.pc = "missing"])
     ELSE IF ~ChildAgrees(d, source) THEN Step(t, [begun EXCEPT !.pc = "refused"])
     ELSE Step(t, [begun EXCEPT !.pc = "begun", !.source = source, !.pos = source])
  /\ UNCHANGED <<metadata, declared, wrote, embedded>>

\* dump(version=label, data=d): body-only output is refused for labels that the model
\* owns; whatever label the document has must be the current one.
BeginRender(t, d, label, body) ==
  LET begun == [NoOp EXCEPT !.kind = "render", !.doc = d, !.given = label, !.body = body]
      accepted ==
        /\ body => Owner = "family"
        /\ ChildAgrees(d, Size)
        /\ declared[MappingOf[d]] \in {0, Size}
  IN
  /\ ~Active(t)
  /\ Step(t, [begun EXCEPT !.pc = IF accepted THEN "checked" ELSE "refused"])
  /\ UNCHANGED <<metadata, declared, wrote, embedded>>

-----------------------------------------------------------------------------
(* Steps of an operation. *)

\* The wire model of the discovered label validates the document itself: a label in
\* it must be that one, and a missing one is filled in.
CheckSource(t) ==
  /\ op[t].pc = "begun"
  /\ Step(t, [op[t] EXCEPT !.pc =
       IF LabelIn(t) \in {0, op[t].source} /\ ChildAgrees(op[t].doc, op[t].source)
       THEN "checked" ELSE "refused"])
  /\ UNCHANGED <<metadata, declared, wrote, embedded>>

\* Validated values are extracted into a private payload, whose labels get canonical
\* names.  The embedded values of an explicit source model wait for their first edge.
Extract(t) ==
  LET o == op[t]
      wire == o.kind = "validate" /\ o.source \in Explicit /\ ~Discovered
  IN
  /\ o.pc = "checked"
  /\ Step(t, [o EXCEPT
       !.pc = "walking",
       !.own = CurrentName(Owner, Size),
       !.child = IF wire THEN ChildMap[o.source] ELSE CurrentChild,
       !.canonical = ~wire])
  /\ declared' = [declared EXCEPT ![MappingOf[o.doc]] =
       IF RemovedFromDocument(t) THEN 0 ELSE @]
  /\ UNCHANGED <<metadata, wrote, embedded>>

\* The embedded value is converted for the next edge, whose callback is then called.
Edge(t) ==
  LET o == op[t] IN
  /\ o.pc = "walking"
  /\ o.pos # Target(o)
  /\ Step(t, [o EXCEPT
       !.pc = "called",
       !.pos = Ahead(o),
       !.child = IF Converted(o) THEN Rebased(ChildOwner, o.child, ChildMap[Ahead(o)]) ELSE @,
       !.canonical = TRUE])
  /\ UNCHANGED <<metadata, declared, wrote, embedded>>

\* The callback returns a dictionary, in which it may have written labels.
Callback(t, own, child) ==
  /\ op[t].pc = "called"
  /\ Step(t, [op[t] EXCEPT
       !.pc = "walking", !.own = own, !.child = child,
       !.meddled = @ \cup (IF own # op[t].own THEN {"own"} ELSE {})
                       \cup (IF child # op[t].child THEN {"child"} ELSE {})])
  /\ UNCHANGED <<metadata, declared, wrote, embedded>>

\* _project_nested_family_payload: a label of the embedded value that its family owns
\* must be the one the target selects.
ChildProjectable(o) ==
  ChildOwner = "family" => o.child \in {0, ChildMap[Target(o)]}

\* Mutant of ProjectedChild: the labels of embedded values are left to their conversion.
ProjectedChildAsConverted(o) == o.child

\* The projection removes the label, or rebases one that the model owns, whatever it was;
\* at the wire boundary, values in sets and tuples get the one of their family back.
ProjectedChild(o) ==
  IF ChildOwner = "family" /\ o.kind = "render" /\ metadata.collected
  THEN ChildMap[o.given]
  ELSE Rebased(ChildOwner, o.child, ChildMap[Target(o)])

\* The embedded value is projected.  That is all for the labels of a validation.
Project(t) ==
  LET o == op[t] IN
  /\ o.pc = "walking"
  /\ o.pos = Target(o)
  /\ \/ /\ ChildProjectable(o)
        /\ Step(t, [o EXCEPT !.pc = IF o.kind = "render" THEN "projected" ELSE "validated",
                             !.child = ProjectedChild(o)])
     \/ ~ChildProjectable(o) /\ Step(t, Mislabelled(o))
  /\ UNCHANGED <<metadata, declared, wrote, embedded>>

\* A label that the model owns is set in the payload, and one that the family owns is for
\* the generated model of an earlier version; others are left to the target model.
SetOwn(t) ==
  LET o == op[t] IN
  /\ o.pc = "projected"
  /\ Step(t, [o EXCEPT !.pc = "labelled",
       !.own = IF Owner = "model" \/ o.given \notin Explicit \cup {Size} THEN o.given ELSE @])
  /\ UNCHANGED <<metadata, declared, wrote, embedded>>

\* The labels in the payload are literals of the target model and of the models of the
\* embedded values, which are also their defaults.
Literal(label, expected) == label \in {0, expected}

\* The target model validates the payload, and is serialized with its labels.  The
\* serializer of an explicit model may write others, but not for the label of its family,
\* which is added to what it writes.
Serialize(t, own, child) ==
  LET o == op[t]
      kept == own = o.given /\ child = ChildMap[o.given]
      accepted == Literal(o.own, o.given) /\ Literal(o.child, ChildMap[o.given])
  IN
  /\ o.pc = "labelled"
  /\ o.given \notin Explicit => kept
  /\ Owner = "family" => own = o.given
  /\ Step(t, IF accepted THEN [o EXCEPT !.pc = "dumped", !.own = own, !.child = child,
                                        !.meddled = IF kept THEN @ ELSE @ \cup {"serialized"}]
                         ELSE Mislabelled(o))
  /\ UNCHANGED <<metadata, declared, wrote, embedded>>

\* _prune_nested_family_metadata_payload: the label of the serialized embedded value is the
\* one that the target selects.  It is removed when its family owns it.
PruneChild(t) ==
  LET o == op[t]
      expected == ChildMap[o.given]
  IN
  /\ o.pc = "dumped"
  /\ Step(t,
       IF ChildOwner = "family" /\ o.child \in {0, expected}
         THEN [o EXCEPT !.pc = "pruned", !.child = 0]
       ELSE IF ChildOwner = "model" /\ o.child = expected
         THEN [o EXCEPT !.pc = "pruned"]
       ELSE Mislabelled(o))
  /\ UNCHANGED <<metadata, declared, wrote, embedded>>

\* _apply_serialized_version_metadata: a label that the family owns is removed for
\* body-only output, and otherwise there; one that the model owns must be there.
ApplyOwn(t) ==
  LET o == op[t] IN
  /\ o.pc = "pruned"
  /\ Step(t,
       IF Owner = "family" /\ o.body THEN [o EXCEPT !.pc = "rendered", !.own = 0]
       ELSE IF Owner = "family" /\ o.own \in {0, o.given}
         THEN [o EXCEPT !.pc = "rendered", !.own = o.given]
       ELSE IF Owner = "model" /\ o.own = o.given THEN [o EXCEPT !.pc = "rendered"]
       ELSE Mislabelled(o))
  /\ UNCHANGED <<metadata, declared, wrote, embedded>>

\* Validation fails, or a callback raises.
Reject(t) ==
  /\ Active(t)
  /\ Step(t, [NoOp EXCEPT !.pc = "refused"])
  /\ UNCHANGED <<metadata, declared, wrote, embedded>>

Next ==
  \/ \E d \in Docs, label \in Labels \cup {0}, child \in ChildLabels \cup {0} :
       Write(d, label, child)
  \/ \E t \in Threads, d \in Docs :
       \/ Keep(t, d)
       \/ \E explicit \in Labels \cup {0} : BeginValidate(t, d, explicit)
       \/ \E label \in Labels, body \in BOOLEAN : BeginRender(t, d, label, body)
  \/ \E t \in Threads :
       \/ CheckSource(t) \/ Extract(t) \/ Edge(t)
       \/ Project(t) \/ SetOwn(t) \/ PruneChild(t) \/ ApplyOwn(t) \/ Reject(t)
       \/ \E own \in Labels \cup {0}, child \in ChildLabels \cup {0} :
            Callback(t, own, child) \/ Serialize(t, own, child)

Spec == Init /\ [][Next]_vars
-----------------------------------------------------------------------------
(* Properties. *)

\* A document is always read as the version its caller wrote into it, however often
\* and by however many threads it was read or rendered before; an explicit version that
\* contradicts it is not accepted, and missing_version is for documents that never had
\* a label (_runtime_versioning.py:251-278, docs/guide/version-discovery.md:3-8, 25-28).
ReadAsWritten ==
  [][\A t \in Threads :
       LET o == op'[t]
           written == wrote[MappingOf[o.doc]]
       IN
       /\ o.pc = "missing" /\ o # op[t] => written = 0
       /\ o.pc = "checked" /\ o.kind = "validate"
            => o.source = IF written # 0 THEN written
                          ELSE IF o.given # 0 THEN o.given ELSE MissingVersion]_vars

\* Family-owned metadata is removed only from the private transition value
\* (docs/guide/version-discovery.md:82-84), never from a caller's document.
RemovedPrivately == \A m \in Mappings : declared[m] = wrote[m]

\* A callback finds no version metadata that a family owns, neither in its payload nor
\* in an embedded value, also where the embedded family keeps its version and where the
\* source model is explicit (_runtime_nested.py:1598-1610).
NoFamilyMetadataInCallbacks ==
  \A t \in Threads : op[t].pc = "called" =>
    /\ Owner = "family" /\ "own" \notin op[t].meddled => op[t].own = 0
    /\ ChildOwner = "family" /\ "child" \notin op[t].meddled => op[t].child = 0

\* A callback finds the label of an embedded model rebased to the one its edge selects
\* (docs/guide/migrations.md:163-164).
ChildRebasedAtEachEdge ==
  \A t \in Threads :
    op[t].pc = "called" /\ "child" \notin op[t].meddled /\ ChildOwner = "model" =>
      op[t].child = ChildMap[op[t].pos]

\* Labels that callbacks or serializers wrote and that the code neither replaces nor
\* removes: those of a family, except that dump sets its own for the generated model of an
\* earlier version, and what a serializer wrote.
Standing(o) ==
  \/ "child" \in o.meddled /\ ChildOwner = "family"
  \/ "own" \in o.meddled /\ Owner = "family" /\ o.given \in Explicit
  \/ "serialized" \in o.meddled

\* The places that remove, rebase, set, fill in and check labels agree on the label that
\* belongs where they look.  A rendered document carries the requested label, and the
\* label that it selects for an embedded model, whatever callbacks and serializers wrote.
\* No operation is refused for a label that the library itself wrote or left in the
\* payload, also where conversions are skipped because a label does not change, nor for
\* one that a callback wrote where the library writes its own (_runtime.py:412-419,
\* 484-548, _runtime_nested.py:779-814, 1598-1610, 1739-1779, _runtime_versioning.py:94-184).
RenderedAsRequested ==
  \A t \in Threads :
    /\ op[t].pc = "rendered" =>
         /\ op[t].own = IF op[t].body THEN 0 ELSE op[t].given
         /\ op[t].child = IF ChildOwner = "family" THEN 0 ELSE ChildMap[op[t].given]
    /\ op[t].pc = "mislabelled" => Standing(op[t])
=============================================================================
