--------------------------- MODULE PayloadExtraction ---------------------------
(***************************************************************************)
(* The private canonical payload (_runtime_payload.py:72-670): what of a   *)
(* validated model instance, with the objects it refers to, a callback may *)
(* see.  Every call of the recursion is a frame of `calls`; `active` is    *)
(* the set of identities that the calls share.  The result is made of new  *)
(* objects in the same heap, so that what the two share can be seen.       *)
(*                                                                         *)
(* A mapping that has to be hashable, because it stands for a member of a  *)
(* set or for a mapping key, is a carrier: it is equal only to itself, and *)
(* `ids` are the source identities it remembers.  `from` is the object a   *)
(* new object was made of; the code does not keep it.                      *)
(*                                                                         *)
(* The fast paths of a compiled extraction plan give what the general path *)
(* gives, and are not told apart from it.                                  *)
(***************************************************************************)
EXTENDS Annotations

CONSTANTS
  Size,           \* how many source objects there are
  Sources,        \* heaps of source objects
  Alike(_, _, _), \* Alike(h, o, p): are the source objects o and p equal in h?
  Root,           \* the model instance that is extracted
  RootClass,      \* the class it is extracted as
  StackLimit      \* bound: the calls that Python's recursion limit admits

VARIABLES
  heap,        \* all objects, those of the source first
  calls,       \* the calls that are running, the innermost last
  active,      \* the identities of objects that are being extracted
  outcome,     \* "running", "raising", "extracted", "changed", "delivered", "refused" or "overflow"
  result       \* the payload

vars == <<heap, calls, active, outcome, result>>

SourceRefs == 1 .. Size
Source == [o \in SourceRefs |-> heap[o]]
New == DOMAIN heap \ SourceRefs
Nothing == 0
NoClass == ""

Object(kind, of, carrier, ids, from) ==
  [kind |-> kind, class |-> "", of |-> of, carrier |-> carrier, ids |-> ids, from |-> from]

\* A part that is still to be extracted, and a call for one.
Part(o, a, hash) == [object |-> o, annotation |-> a, hash |-> hash]
Parts == [object : SourceRefs, annotation : Forms, hash : BOOLEAN]
RootPart == Part(Root, Of(RootClass), FALSE)
Call(p, parts) ==
  [object |-> p.object, annotation |-> p.annotation, hash |-> p.hash,
   parts |-> parts, done |-> <<>>]

\* Objects as Python makes them: the names of fields and the values of scalars hold nothing,
\* and no two members of a set and no two keys of a mapping are equal.
WellFormed(h, o) ==
  /\ h[o].kind \in Structures \cup Collections \cup {"dict", "scalar", "none"}
  /\ ~h[o].carrier
  /\ Range(h[o].of) \subseteq SourceRefs
  /\ h[o].kind \in Structures =>
       h[o].class \in DOMAIN Mro /\ \A c \in ToSet(Mro[h[o].class]) : Shape[c] = h[o].kind
  /\ h[o].kind \in Collections => h[o].of \in Seq(SourceRefs)
  /\ h[o].kind = "dict" => DOMAIN h[o].of \subseteq SourceRefs
  /\ h[o].kind \in {"scalar", "none"} => h[o].of = <<>>
  /\ h[o].kind \in {"set", "frozenset"} => \A i, j \in DOMAIN h[o].of : i # j => ~Alike(h, h[o].of[i], h[o].of[j])
  /\ h[o].kind = "dict" => \A k, l \in DOMAIN h[o].of : k # l => ~Alike(h, k, l)

\* Equality of tuples and of frozen sets is that of what is in them.
AlikeWithin(h, o, p) ==
  \/ /\ h[o].kind = "tuple" /\ h[p].kind = "tuple" /\ DOMAIN h[o].of = DOMAIN h[p].of
     /\ \A i \in DOMAIN h[o].of : Alike(h, h[o].of[i], h[p].of[i])
  \/ /\ h[o].kind = "frozenset" /\ h[p].kind = "frozenset"
     /\ \A x \in Range(h[o].of) : \E y \in Range(h[p].of) : Alike(h, x, y)
     /\ \A y \in Range(h[p].of) : \E x \in Range(h[o].of) : Alike(h, x, y)

ASSUME SourcesAssumption ==
  /\ Size \in Nat /\ Root \in SourceRefs
  /\ NoClass \notin DOMAIN Mro /\ RootClass \in DOMAIN Mro
  /\ \A h \in Sources :
       /\ h = [o \in SourceRefs |-> h[o]]
       /\ \A o \in SourceRefs : WellFormed(h, o)
       /\ \A c \in DOMAIN Mro : \A i \in DOMAIN Fields[c] : Fields[c][i] \in SourceRefs /\ h[Fields[c][i]].kind = "scalar"
       /\ h[Root].kind = "model" /\ RootClass \in ToSet(Mro[h[Root].class])

ASSUME EqualityAssumption ==
  \A h \in Sources : \A o, p \in SourceRefs : o = p \/ AlikeWithin(h, o, p) => Alike(h, o, p)

\* Types; the active identities are those of the running calls, also while an exception
\* leaves them.
TypeOK ==
  /\ SourceRefs \subseteq DOMAIN heap
  /\ \A o \in DOMAIN heap : Range(heap[o].of) \subseteq DOMAIN heap
  /\ active = {calls[i].object : i \in DOMAIN calls} /\ active \subseteq SourceRefs
  /\ \A i \in DOMAIN calls :
       /\ Len(calls[i].done) <= Len(calls[i].parts)
       /\ ToSet(calls[i].done) \subseteq DOMAIN heap
  /\ outcome \in {"running", "raising", "extracted", "changed", "delivered", "refused", "overflow"}
  /\ result \in New \cup {Nothing}

-----------------------------------------------------------------------------
(* The parts of an object. *)

\* A set of numbers, in order.
InOrder(S) == [n \in 1 .. Cardinality(S) |-> CHOOSE i \in S : Cardinality({j \in S : j <= i}) = n]

\* _single_declared_dataclass_structure.
SingleDataclass(args) ==
  LET I == {i \in DOMAIN args : args[i].form = "class" /\ Shape[args[i].class] = "dataclass"}
  IN  IF Cardinality(I) = 1 THEN args[First(I)].class ELSE NoClass

\* The class whose fields are extracted, if any, where d is the matching annotation: the
\* declared one for an instance of it, the class of the object for another model, none for
\* what is passed on or is a collection.
StructureOf(h, o, d) ==
  IF IsModel(h, o) THEN IF IsModelClass(d) /\ IsInstance(h, o, d.class) THEN d.class ELSE h[o].class
  ELSE IF d.form = "class" /\ ~IsModelClass(d) THEN d.class
  ELSE IF h[o].kind = "dataclass" /\ IsUnion(d) THEN SingleDataclass(d.args)
  ELSE NoClass

\* The fields of class c that o has and the wire may carry.
Crossing(h, o, c) ==
  LET I == InOrder({i \in DOMAIN Fields[c] : Fields[c][i] \in DOMAIN h[o].of \ Omitted[c]})
  IN  [n \in DOMAIN I |-> Fields[c][I[n]]]

\* The parts of a structure, of a mapping (keys precede their values) and of a collection.
FieldParts(h, o, c, names) ==
  [i \in DOMAIN names |-> Part(h[o].of[names[i]], Declares[c][names[i]], FALSE)]
EntryParts(h, o, d, keys) ==
  [i \in 1 .. 2 * Len(keys) |->
     IF i % 2 = 1 THEN Part(keys[(i + 1) \div 2], KeyOf(d), TRUE)
     ELSE Part(h[o].of[keys[i \div 2]], ValueOf(d), FALSE)]
ItemParts(h, o, d, hash) ==
  [i \in DOMAIN h[o].of |->
     Part(h[o].of[i], ItemOf(d), h[o].kind \in {"set", "frozenset"} \/ (h[o].kind = "tuple" /\ hash))]

\* The parts of a part (or of the part of a call), in the order in which they are extracted.
PartsAs(h, o, d, c, hash) ==
  IF c # NoClass THEN FieldParts(h, o, c, Crossing(h, o, c))
  ELSE IF IsMapping(h, o) THEN EntryParts(h, o, d, InOrder(DOMAIN h[o].of))
  ELSE IF IsCollection(h, o) THEN ItemParts(h, o, d, hash)
  ELSE <<>>
Structure(h, p) == StructureOf(h, p.object, Matching(h, p.object, p.annotation))
PartsOf(h, p) ==
  PartsAs(h, p.object, Matching(h, p.object, p.annotation), Structure(h, p), p.hash)

\* Mutant of Guarded: built-in mappings are handed on as they are.
GuardedNoMapping(h, o) == h[o].kind \in Structures \cup Collections

\* Is o taken apart?  Anything else is part of the result as it is.
Guarded(h, o) == h[o].kind \in Structures \cup Collections \cup {"dict"}

-----------------------------------------------------------------------------
(* Equality, hashing, and the source identities of carriers. *)

\* Python's == of parts of a result.
Same(h, o, p) ==
  LET same[x \in (DOMAIN h) \X (DOMAIN h)] ==
        LET v == h[x[1]]
            w == h[x[2]]
        IN  \/ x[1] = x[2]
            \/ /\ v.kind = w.kind /\ v.kind \in {"dict", "list", "tuple"}
               /\ ~v.carrier /\ ~w.carrier
               /\ DOMAIN v.of = DOMAIN w.of
               /\ \A k \in DOMAIN v.of : same[<<v.of[k], w.of[k]>>]
            \/ /\ {v.kind, w.kind} \subseteq {"set", "frozenset"}
               /\ \A y \in Range(v.of) : \E z \in Range(w.of) : same[<<y, z>>]
               /\ \A z \in Range(w.of) : \E y \in Range(v.of) : same[<<y, z>>]
  IN  same[<<o, p>>]

Hashable(h, o) ==
  LET hashable[p \in DOMAIN h] ==
        /\ h[p].kind \notin {"list", "set"}
        /\ h[p].kind = "dict" => h[p].carrier
        /\ h[p].kind \in {"tuple", "frozenset"} => \A q \in Range(h[p].of) : hashable[q]
  IN  hashable[o]

Distinct(h, refs) == \A i, j \in DOMAIN refs : i # j => ~Same(h, refs[i], refs[j])

\* The carriers that are reached through tuples and frozen sets.
Carriers(h, o) ==
  LET carriers[p \in DOMAIN h] ==
        IF h[p].kind = "dict" /\ h[p].carrier THEN {p}
        ELSE IF h[p].kind \in {"tuple", "frozenset"} THEN UNION {carriers[q] : q \in Range(h[p].of)}
        ELSE {}
  IN  carriers[o]

\* _canonical_source_identities.
Identities(h, o) == UNION {h[p].ids : p \in Carriers(h, o)}

-----------------------------------------------------------------------------
(* The calls. *)

Init ==
  /\ heap \in Sources
  /\ calls = <<Call(RootPart, PartsOf(Source, RootPart))>>
  /\ active = {Root}
  /\ outcome = "running"
  /\ result = Nothing

Top == Last(calls)
PartIsNext == outcome = "running" /\ Len(Top.done) < Len(Top.parts)
NextPart == Top.parts[Len(Top.done) + 1]
Given(stack, r) == [stack EXCEPT ![Len(stack)].done = Append(@, r)]

\* A part that is not taken apart.
PassOn ==
  /\ PartIsNext
  /\ ~Guarded(Source, NextPart.object)
  /\ calls' = Given(calls, NextPart.object)
  /\ UNCHANGED <<heap, active, outcome, result>>

\* Mutant of IsActive: only models are looked for.
IsActiveModel(o) == IsModel(heap, o) /\ o \in active

IsActive(o) == o \in active

\* _extract_declared_value and _extract_declared_fields, up to their first part.
Enter ==
  LET p == NextPart IN
  /\ PartIsNext
  /\ Guarded(Source, p.object)
  /\ ~IsActive(p.object)
  /\ Len(calls) < StackLimit
  /\ calls' = Append(calls, Call(p, PartsOf(Source, p)))
  /\ active' = active \cup {p.object}
  /\ UNCHANGED <<heap, outcome, result>>

\* A reference to an object that is being extracted, or more calls than Python admits.
Raise ==
  /\ PartIsNext
  /\ Guarded(Source, NextPart.object)
  /\ IsActive(NextPart.object) \/ Len(calls) = StackLimit
  /\ outcome' = IF IsActive(NextPart.object) THEN "raising" ELSE "overflow"
  /\ UNCHANGED <<heap, calls, active, result>>

\* What a finished call has made, unless it hands on the object itself.
FirstNew == Cardinality(DOMAIN heap) + 1
Keys(done) == [i \in 1 .. Len(done) \div 2 |-> done[2 * i - 1]]
FieldsMade(names, done) ==
  [f \in ToSet(names) |-> done[CHOOSE i \in DOMAIN names : names[i] = f]]
EntriesMade(done) ==
  [k \in ToSet(Keys(done)) |-> done[2 * (CHOOSE i \in DOMAIN Keys(done) : Keys(done)[i] = k)]]
MadeAs(c, class) ==
  LET o == c.object IN
  IF class # NoClass
  THEN Object("dict", FieldsMade(Crossing(Source, o, class), c.done), c.hash, IF c.hash THEN {o} ELSE {}, o)
  ELSE IF IsMapping(Source, o) THEN Object("dict", EntriesMade(c.done), c.hash, {}, o)
  ELSE Object(Source[o].kind, c.done, FALSE, {}, o)
Made(c) == MadeAs(c, Structure(Source, c))
HandsOn(c) ==
  Structure(Source, c) = NoClass /\ ~IsMapping(Source, c.object) /\ ~IsCollection(Source, c.object)

\* Is a mapping key or a member of a set not hashable, or equal to another?
HashedOf(c) == IF IsMapping(Source, c.object) THEN Keys(c.done) ELSE c.done
Collapses(c) ==
  /\ Structure(Source, c) = NoClass
  /\ Source[c.object].kind \in {"dict", "set", "frozenset"}
  /\ \/ ~Distinct(heap, HashedOf(c))
     \/ \E i \in DOMAIN HashedOf(c) : ~Hashable(heap, HashedOf(c)[i])

\* _bind_canonical_source_identity: the members of a set remember the objects they come from.
IdsOf(c, p) ==
  {Source[c.object].of[i] : i \in {j \in DOMAIN c.done : p \in Carriers(heap, c.done[j])}}
Remembered(c) ==
  IF Structure(Source, c) = NoClass /\ Source[c.object].kind \in {"set", "frozenset"}
  THEN [p \in DOMAIN heap |->
          IF IdsOf(c, p) = {} THEN heap[p] ELSE [heap[p] EXCEPT !.ids = @ \cup IdsOf(c, p)]]
  ELSE heap

\* The objects, and one that was made.
Grown(c) ==
  [p \in DOMAIN heap \cup {FirstNew} |-> IF p = FirstNew THEN Made(c) ELSE Remembered(c)[p]]

\* Mutant of Left: a call leaves its object active.
LeftActive(c) == active

\* The finally clause of a call.
Left(c) == active \ {c.object}

Finished == outcome = "running" /\ Len(Top.done) = Len(Top.parts)

Return ==
  LET r == IF HandsOn(Top) THEN Top.object ELSE FirstNew IN
  /\ Finished
  /\ ~Collapses(Top)
  /\ heap' = IF HandsOn(Top) THEN heap ELSE Grown(Top)
  /\ active' = Left(Top)
  /\ IF Len(calls) = 1
     THEN calls' = <<>> /\ result' = r /\ outcome' = "extracted"
     ELSE calls' = Given(Front(calls), r) /\ UNCHANGED <<result, outcome>>

Collapse ==
  /\ Finished
  /\ Collapses(Top)
  /\ outcome' = "raising"
  /\ UNCHANGED <<heap, calls, active, result>>

\* An exception leaves one call.
Unwind ==
  /\ outcome = "raising"
  /\ active' = Left(Top)
  /\ calls' = Front(calls)
  /\ outcome' = IF Len(calls) = 1 THEN "refused" ELSE "raising"
  /\ UNCHANGED <<heap, result>>

Extract == PassOn \/ Enter \/ Raise \/ Return \/ Collapse \/ Unwind

ExtractionSpec == Init /\ [][Extract]_vars

-----------------------------------------------------------------------------
(* What is reached, in the heap and through declarations. *)

\* The objects in a built-in mapping or container: keys, values and items.  A dataclass that
\* no annotation declares is handed on as it is, with all it refers to.
Inside(h, o) ==
  IF h[o].kind = "dataclass" THEN {}
  ELSE Range(h[o].of) \cup (IF h[o].kind = "dict" THEN DOMAIN h[o].of ELSE {})

\* The objects that are reached from S.
Closure(h, S) ==
  LET within[n \in 0 .. Cardinality(DOMAIN h)] ==
        IF n = 0 THEN S ELSE LET T == within[n - 1] IN T \cup UNION {Inside(h, o) : o \in T}
  IN  within[Cardinality(DOMAIN h)]
Reached == IF result = Nothing THEN {} ELSE Closure(heap, {result})

\* A list or a set that is a member of a set, or a mapping key, is hashable only because of
\* its own class, which the result does not keep.
OddlyHashed(h, p) ==
  p.hash /\ h[p.object].kind \in {"list", "set"} /\ Structure(h, p) = NoClass

\* Is part p, which the objects in `above` consist of, one of them, or is it or what it
\* consists of to be refused otherwise?
Refusable(h, p, above) ==
  LET refusable[x \in Parts \X SUBSET SourceRefs] ==
        LET q == x[1] IN
        /\ Guarded(h, q.object)
        /\ \/ q.object \in x[2]
           \/ OddlyHashed(h, q)
           \/ \E r \in ToSet(PartsOf(h, q)) : refusable[<<r, x[2] \cup {q.object}>>]
  IN  refusable[<<p, above>>]

\* Extraction comes to an end.  It refuses an object that is part of itself, directly or
\* through any models and containers, and refuses no other: an object that only occurs
\* twice is extracted twice (_runtime_payload.py:408-416, 540-551).
CyclesRefused ==
  /\ outcome # "overflow"
  /\ outcome \in {"refused", "extracted"} => (result = Nothing <=> Refusable(Source, RootPart, {}))

\* In what a document declares, whatever a callback can change is new, and is in one place:
\* no change of it is seen by the caller, or at a second place of the payload.
Changeable(o) == heap[o].kind \in {"model", "dict", "list", "set"}
Places(reached) ==
  (UNION {{<<p, "at", k, heap[p].of[k]>> : k \in DOMAIN heap[p].of} : p \in reached})
    \cup (UNION {{<<p, "key", k, k>> : k \in DOMAIN heap[p].of} : p \in {o \in reached : IsMapping(heap, o)}})
Detached ==
  LET reached == {o \in Reached : heap[o].kind # "dataclass"}
      changeable == {p \in Places(reached) : Changeable(p[4])}
  IN  \A p \in changeable : p[4] \in New /\ \A q \in changeable : p[4] = q[4] => p = q

-----------------------------------------------------------------------------
(* What a payload may show. *)

\* The fields of a structure hold what its class, and every ancestor, declares.
Validated ==
  \A h \in Sources : \A o \in SourceRefs : h[o].kind \in Structures =>
    \A c \in ToSet(Mro[h[o].class]) : \A f \in DOMAIN h[o].of \cap ToSet(Fields[c]) :
      Matches(h, h[o].of[f], Declares[c][f])

\* The source objects of a heap.
SourceOf(h) == [o \in SourceRefs |-> h[o]]

Arms(a) == IF IsUnion(a) THEN ToSet(a.args) ELSE {a}

\* The declared classes that o is an instance of, and those that o may be shown as where a
\* is declared: the most specific of them, and its own class where anything is.
DeclaredClasses(h, o, a) ==
  {b.class : b \in {d \in Arms(a) : d.form = "class" /\ IsInstance(h, o, d.class)}}
ShownAs(h, o, a) ==
  LET C == DeclaredClasses(h, o, a) IN
  {c \in C : \A d \in C : c \in ToSet(Mro[d]) => c = d}
    \cup {c \in {h[o].class} : C = {} /\ IsModel(h, o) /\ Anything \in Arms(a)}

\* What an object was made of, or the object that is passed on.
Origin(h, o) == IF o \in SourceRefs THEN o ELSE h[o].from

\* Is object o of a payload what annotation a lets be seen of its origin: the declared fields
\* that are not omitted, the entries, or the items, and so for all that it holds?
Conforms(h, o, a) ==
  LET conforms[x \in (DOMAIN h) \X Forms] ==
        LET v == h[x[1]]
            w == h[v.from]
            Shown(p, q, b) == Origin(h, p) = q /\ conforms[<<p, b>>]
            ShowsFields(c) ==
              /\ DOMAIN v.of = (ToSet(Fields[c]) \ Omitted[c]) \cap DOMAIN w.of
              /\ \A f \in DOMAIN v.of : Shown(v.of[f], w.of[f], Declares[c][f])
            ShowsEntries(d) ==
              /\ {Origin(h, k) : k \in DOMAIN v.of} = DOMAIN w.of
              /\ \A k \in DOMAIN v.of : Shown(k, Origin(h, k), KeyOf(d)) /\ Shown(v.of[k], w.of[Origin(h, k)], ValueOf(d))
            ShowsItems(d) ==
              /\ DOMAIN v.of = DOMAIN w.of
              /\ \A i \in DOMAIN v.of : Shown(v.of[i], w.of[i], ItemOf(d))
        IN  IF x[1] \in SourceRefs
            THEN v.kind \in {"scalar", "none"} \/ (v.kind = "dataclass" /\ DeclaredClasses(h, x[1], x[2]) = {})
            ELSE IF w.kind \in Structures THEN \E c \in ShownAs(h, v.from, x[2]) : ShowsFields(c)
            ELSE \E d \in Arms(x[2]) :
                   /\ Matches(SourceOf(h), v.from, d)
                   /\ IF d.form = "class" THEN ShowsFields(d.class)
                      ELSE IF w.kind = "dict" THEN ShowsEntries(d)
                      ELSE ShowsItems(d)
  IN  conforms[<<o, a>>]

\* A payload shows of a source what annotations declare: of every structure the fields of the
\* most specific class that is declared where it is, and never those of a subclass
\* (_runtime_payload.py:525-592, 671-719).
DeclaredOnly == outcome = "extracted" => Conforms(heap, result, Of(RootClass))
================================================================================
