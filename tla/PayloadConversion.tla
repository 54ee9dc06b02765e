--------------------------- MODULE PayloadConversion ---------------------------
(***************************************************************************)
(* What is done to an extracted payload along the path of an embedded      *)
(* family (_runtime_payload.py:1659-1976, _runtime_nested.py:1405-1783),   *)
(* until the current model validates it.  Before extraction the values on  *)
(* the path are checked, in the source and with its classes; in the        *)
(* payload they are mappings, found with the annotations alone.            *)
(*                                                                         *)
(* One conversion step of a value may forget its `Forgotten` field, so     *)
(* that different members of a set become equal.  Validation parses a set  *)
(* of equal members as a smaller set, unless the guard of canonical        *)
(* validation notices (_runtime_validation.py:839-870).                    *)
(***************************************************************************)
EXTENDS PayloadExtraction

CONSTANTS
  Paths,       \* paths of embedded families
  Family,      \* the class of the model of the embedded family
  Forgotten,   \* a field of it that a conversion, or a callback, may remove
  MaxSteps     \* bound: conversion steps and callbacks of one call

VARIABLES
  path,        \* the path of the embedded family, empty until it is first used
  converted,   \* the source objects of the values that are converted
  steps        \* how many steps and callbacks there were

conversionVars == <<path, converted, steps>>
allVars == <<vars, conversionVars>>

-----------------------------------------------------------------------------
(* The check of the values on the path, in the source. *)

RECURSIVE ValuesOn(_, _, _, _), ChildrenIn(_, _, _)

\* _declared_payload_occurrences_at_path, with every arm of a union.
ValuesOn(h, o, a, p) ==
  IF IsUnion(a) THEN UNION {ValuesOn(h, o, b, p) : b \in ToSet(a.args) \ {NoneType}}
  ELSE IF p = <<>> THEN {<<o, a>>}
  ELSE IF HasItems(h, o, a)
  THEN UNION {ValuesOn(h, x[1], x[2], p) : x \in Range(Items(h, o, a))}
  ELSE IF /\ a.form = "class" /\ Head(p) \in ToSet(Fields[a.class])
          /\ h[o].kind \in Structures \cup {"dict"} /\ Head(p) \in DOMAIN h[o].of
  THEN LET b == Declares[a.class][Head(p)] IN
       IF Len(p) = 1 THEN {<<h[o].of[Head(p)], b>>} ELSE ValuesOn(h, h[o].of[Head(p)], b, Tail(p))
  ELSE {}

\* _runtime_nested_structural_occurrences.
ChildrenIn(h, o, a) ==
  LET d == Matching(h, o, a) IN
  IF IsInstance(h, o, Family) THEN {o}
  ELSE IF IsUnion(a) THEN UNION {ChildrenIn(h, o, b) : b \in ToSet(a.args) \ {NoneType}}
  ELSE IF HasItems(h, o, d) THEN UNION {ChildrenIn(h, x[1], x[2]) : x \in Range(Items(h, o, d))}
  ELSE IF d.form = "class" THEN {o}
  ELSE {}

\* _preflight_nested_version_metadata: the models whose labels are checked.
Checked ==
  {o \in UNION {ChildrenIn(heap, v[1], v[2]) : v \in ValuesOn(heap, Root, Of(RootClass), path)} :
     IsModel(heap, o)}

-----------------------------------------------------------------------------
(* The conversion of the values on the path, in the payload. *)

RECURSIVE DeclaresPath(_, _)

\* _annotation_declares_path, for a path with at least one name.
DeclaresPath(a, p) ==
  \/ /\ a.form = "class" /\ Head(p) \in ToSet(Fields[a.class])
     /\ Len(p) = 1 \/ DeclaresPath(Declares[a.class][Head(p)], Tail(p))
  \/ a.form \in Collections \cup {"union"} /\ \E i \in DOMAIN a.args : DeclaresPath(a.args[i], p)

\* Mutant of TraversalOf: only what the payload itself shows.
MatchingOnly(h, o, a, p) == Matching(h, o, a)

\* _declared_traversal_annotation: a mapping may be taken for the model that declares the
\* rest of the path.
TraversalOf(h, o, a, p) ==
  LET arms == SelectSeq(a.args, LAMBDA b : b # NoneType)
      d == Matching(h, o, a)
      onPath == SelectSeq(arms, LAMBDA b : DeclaresPath(b, p))
      matching == SelectSeq(onPath, LAMBDA b : Matches(h, o, b))
      models == SelectSeq(onPath, IsModelClass)
      kinds == SelectSeq(onPath, LAMBDA b : b.form = h[o].kind)
  IN  IF ~IsUnion(a) THEN a
      ELSE IF ~IsUnion(d) /\ (Matches(h, o, d) \/ DeclaresPath(d, p)) THEN d
      ELSE IF onPath = <<>> THEN d
      ELSE IF matching # <<>> THEN matching[1]
      ELSE IF IsMapping(h, o) /\ models # <<>> THEN models[1]
      ELSE IF IsCollection(h, o) THEN IF kinds # <<>> THEN kinds[1] ELSE onPath[1]
      ELSE d

\* A heap, and the object in it that an operation returned.
At(h, o) == [heap |-> h, object |-> o]
Added(h, new) == At(Append(h, new), Len(h) + 1)

\* Mutant of Kept: a converted member of a set forgets where it came from.
KeptNot(h, o) == {}

\* The identities that a converted mapping keeps.
Kept(h, o) == h[o].ids

\* The copy of collection o with other items; members of a set become carriers, new ones
\* when they are plain mappings.
Hashed(h, o) == IF h[o].kind = "dict" THEN [h EXCEPT ![o].carrier = TRUE] ELSE h
Rebuilt(h, o, items) ==
  LET carriers == IF h[o].kind \in {"set", "frozenset"} THEN FoldLeft(Hashed, h, items) ELSE h
  IN  Added(carriers, Object(h[o].kind, items, FALSE, {}, h[o].from))

RECURSIVE Converted(_, _, _), ConvertedAt(_, _, _, _, _),
  ConvertedThrough(_, _, _, _, _), ConvertedAs(_, _, _, _, _)

\* Collection o with every item converted by Step, itself if no item changed.
WithItems(h, o, all) == IF all.items = h[o].of THEN At(h, o) ELSE Rebuilt(all.heap, o, all.items)
OneMore(done, x) == [heap |-> x.heap, items |-> Append(done.items, x.object)]
EachItem(h, o, Step(_, _, _)) ==
  WithItems(h, o, FoldLeft(LAMBDA done, i : OneMore(done, Step(done.heap, h[o].of[i], i)),
                           [heap |-> h, items |-> <<>>], [i \in DOMAIN h[o].of |-> i]))

\* _convert_nested_family_payload and _project_nested_family_payload: one value.
Converted(h, o, forget) ==
  IF IsMapping(h, o)
  THEN Added(h, [h[o] EXCEPT !.class = Family, !.of = [f \in DOMAIN @ \ (IF forget THEN {Forgotten} ELSE {}) |-> @[f]],
                             !.carrier = h[o].ids # {}, !.ids = Kept(h, o)])
  ELSE IF IsCollection(h, o)
  THEN EachItem(h, o, LAMBDA g, x, i : Converted(g, x, forget))
  ELSE At(h, o)

\* _nested_family_collection_kind: the collection that is declared at the end of the path.
Required(a) ==
  IF IsUnion(a) /\ NoneType \in ToSet(a.args) /\ Len(a.args) = 2
  THEN CHOOSE b \in ToSet(a.args) : b # NoneType
  ELSE a
RECURSIVE KindAt(_, _)
KindAt(a, p) ==
  IF p = <<>> THEN a.form
  ELSE IF a.form = "class" THEN KindAt(Required(Declares[a.class][Head(p)]), Tail(p))
  ELSE IF a.form \in Collections THEN KindAt(Required(a.args[1]), p)
  ELSE "none"

\* _project_nested_child_family: a set that was projected is tracked until validation.
Tracking(x) ==
  IF KindAt(Of(RootClass), path) \in {"set", "frozenset"} /\ IsCollection(x.heap, x.object)
  THEN At([x.heap EXCEPT ![x.object].class = "tracked"], x.object)
  ELSE x
AtEnd(h, o, step) ==
  IF step = "project" THEN Tracking(Converted(h, o, FALSE)) ELSE Converted(h, o, step = "forget")

\* _transform_declared_payload_at_path: the mapping is copied as a plain one.
WithField(h, o, f, x) ==
  IF x.object = h[o].of[f] THEN At(h, o)
  ELSE Added(x.heap, Object("dict", [h[o].of EXCEPT ![f] = x.object], FALSE, {}, h[o].from))
ConvertedAt(h, o, c, p, step) ==
  LET f == Head(p) IN
  IF ~IsMapping(h, o) \/ f \notin DOMAIN h[o].of THEN At(h, o)
  ELSE IF Len(p) = 1 THEN WithField(h, o, f, AtEnd(h, h[o].of[f], step))
  ELSE WithField(h, o, f, ConvertedThrough(h, h[o].of[f], Declares[c][f], Tail(p), step))

\* _transform_declared_payload_through_annotation.
ConvertedThrough(h, o, a, p, step) == ConvertedAs(h, o, TraversalOf(h, o, a, p), p, step)
ConvertedAs(h, o, d, p, step) ==
  IF IsModelClass(d) THEN ConvertedAt(h, o, d.class, p, step)
  ELSE IF HasItems(h, o, d)
  THEN EachItem(h, o, LAMBDA g, x, i : ConvertedThrough(g, x, Items(h, o, d)[i][2], p, step))
  ELSE At(h, o)

-----------------------------------------------------------------------------
(* Validation of the payload by the current model. *)

RECURSIVE SameData(_, _, _), Smaller(_, _, _), Rejected(_, _, _)

\* Equality of the values that validation makes of o and p.
SameData(h, o, p) ==
  \/ o = p
  \/ /\ h[o].kind = h[p].kind
     /\ IF h[o].kind = "frozenset"
        THEN /\ \A x \in Range(h[o].of) : \E y \in Range(h[p].of) : SameData(h, x, y)
             /\ \A y \in Range(h[p].of) : \E x \in Range(h[o].of) : SameData(h, x, y)
        ELSE /\ h[o].kind \in {"dict", "tuple"} \/ (h[o].kind = "model" /\ h[o].class = h[p].class)
             /\ DOMAIN h[o].of = DOMAIN h[p].of
             /\ \A k \in DOMAIN h[o].of : SameData(h, h[o].of[k], h[p].of[k])

\* Would a set, or the keys of a mapping, be smaller?
Shrinks(h, refs) == \E o, p \in refs : o # p /\ SameData(h, o, p)
Hashes(h, o) ==
  CASE h[o].kind \in {"set", "frozenset"} -> Range(h[o].of)
    [] h[o].kind = "dict" -> DOMAIN h[o].of
    [] OTHER -> {}

\* _guard_collection_cardinality: only tracked sets, and members that remember an identity,
\* are guarded.
GuardSees(h, o) == h[o].class = "tracked" \/ \E x \in Hashes(h, o) : Identities(h, x) # {}

\* Where the annotation says nothing, carriers become plain mappings, which cannot be hashed.
Opaque(h, o) == \E q \in Closure(h, {o}) : \E x \in Hashes(h, q) : Carriers(h, x) # {}
RejectedBy(h, o, b) ==
  CASE b.form = "any" -> Opaque(h, o)
    [] b.form \in Collections \cup {"dict"} ->
         \/ GuardSees(h, o) /\ Shrinks(h, Hashes(h, o))
         \/ \E i \in DOMAIN h[o].of : Rejected(h, h[o].of[i], b.args[Len(b.args)])
    [] b.form = "class" /\ h[o].kind = "dict" ->
         \E f \in DOMAIN h[o].of \cap ToSet(Fields[b.class]) : Rejected(h, h[o].of[f], Declares[b.class][f])
    [] OTHER -> FALSE

\* Is o rejected, by every arm of a that its kind fits?
Rejected(h, o, a) ==
  LET Fits(b) ==
        \/ b.form = "any" \/ b.form = h[o].kind
        \/ b.form = "class" /\ h[o].kind = "dict"
      arms == {b \in (IF IsUnion(a) THEN ToSet(a.args) ELSE {a}) : Fits(b)}
  IN  arms # {} /\ \A b \in arms : RejectedBy(h, o, b)

\* Has a set in the value that validation makes of o fewer members than in the payload?
Smaller(h, o, a) == \E q \in Closure(h, {o}) : Shrinks(h, Hashes(h, q))

-----------------------------------------------------------------------------
(* The specification. *)

ConversionInit ==
  /\ Init
  /\ path = <<>>
  /\ converted = {}
  /\ steps = 0

\* One edge: every value on the path is converted.
Convert ==
  \E step \in {"forget", "keep"}, p \in Paths :
    /\ outcome \in {"extracted", "changed"}
    /\ path \in {<<>>, p}
    /\ steps < MaxSteps
    /\ path' = p
    /\ \E x \in {ConvertedAt(heap, result, RootClass, p, step)} :
         /\ heap' = x.heap
         /\ result' = x.object
         /\ converted' = {x.heap[o].from : o \in {n \in DOMAIN x.heap \ SourceRefs : x.heap[n].class = Family}}
    /\ outcome' = "changed"
    /\ steps' = steps + 1
    /\ UNCHANGED <<calls, active>>

\* A callback changes one mapping of its payload in place; the last step is a conversion.
Callback ==
  \E o \in {x \in Reached : IsMapping(heap, x) /\ Forgotten \in DOMAIN heap[x].of} :
    /\ outcome \in {"extracted", "changed"}
    /\ steps < MaxSteps - (IF path = <<>> THEN 1 ELSE 0)
    /\ heap' = [heap EXCEPT ![o].of = [f \in DOMAIN @ \ {Forgotten} |-> @[f]]]
    /\ outcome' = "changed"
    /\ steps' = steps + 1
    /\ UNCHANGED <<calls, active, result, path, converted>>

\* The projection of the values on the path, and _validate_canonical_model.
Deliver ==
  /\ outcome = "changed"
  /\ path # <<>>
  /\ \E x \in {ConvertedAt(heap, result, RootClass, path, "project")} :
       /\ heap' = x.heap
       /\ result' = x.object
       /\ outcome' = IF Rejected(x.heap, x.object, Of(RootClass)) THEN "refused" ELSE "delivered"
  /\ UNCHANGED <<calls, active, conversionVars>>

Ended == outcome \in {"refused", "delivered", "overflow"} /\ UNCHANGED allVars

ConversionNext ==
  \/ Extract /\ UNCHANGED conversionVars
  \/ Convert \/ Callback \/ Deliver \/ Ended

ConversionSpec == ConversionInit /\ [][ConversionNext]_allVars

\* The values that are converted are those whose labels were checked, in the source, with
\* its classes and every arm of its unions (_runtime_nested.py:426-465, 1389-1402).
ConvertsWhatItChecks == outcome = "delivered" => converted = Checked

\* Members of a set and mapping keys that become equal on the way are not lost: the
\* payload is refused (_runtime_validation.py:839-870).
NoMemberLost == outcome = "delivered" => ~Smaller(heap, result, Of(RootClass))
================================================================================
