------------------------------ MODULE Annotations ------------------------------
(***************************************************************************)
(* Python objects and the annotations that declare them, as far as the     *)
(* library looks at them (_runtime_payload.py).  Objects live in a heap: a *)
(* function from references to [kind, class, of], where `of` maps field    *)
(* names, mapping keys or positions to references.  Names and keys are     *)
(* references themselves, those of strings or of hashable objects.         *)
(*                                                                         *)
(* An annotation is [form, class, args]: a class, a collection, a union,   *)
(* None, or anything (which stands for Any, object and no annotation).     *)
(* Left out are type variables, aliases and generic classes, which         *)
(* _runtime_annotation_value replaces by what they stand for.              *)
(***************************************************************************)
EXTENDS Integers, Sequences, FiniteSets, SequencesExt

CONSTANTS
  Forms,       \* the annotations that occur, with their arguments
  Mro,         \* Mro[c]: class c and its ancestors, in method resolution order
  Shape,       \* Shape[c]: "model", "dataclass" or "typed_dict"
  Fields,      \* Fields[c]: the names of the fields c declares, in order
  Declares,    \* Declares[c]: their annotations
  Optional,    \* Optional[c]: the names a value of c need not have
  Omitted      \* Omitted[c]: the names declared with exclude or exclude_if

Form(f, c, args) == [form |-> f, class |-> c, args |-> args]
Anything == Form("any", "", <<>>)
NoneType == Form("none", "", <<>>)
Text == Form("scalar", "", <<>>)
Of(c) == Form("class", c, <<>>)
Lists(a) == Form("list", "", <<a>>)
Tuples(a) == Form("tuple", "", <<a>>)
Frozensets(a) == Form("frozenset", "", <<a>>)
Dicts(k, a) == Form("dict", "", <<k, a>>)
Unions(args) == Form("union", "", args)

\* The order of a class keeps that of each of its ancestors.
ASSUME ClassesAssumption ==
  \A c \in DOMAIN Mro :
    /\ Mro[c] \in Seq(DOMAIN Mro) /\ Mro[c] # <<>> /\ Mro[c][1] = c
    /\ \A i, j \in DOMAIN Mro[c] :
         /\ Mro[c][i] = Mro[c][j] => i = j
         /\ Mro[c][j] \in ToSet(Mro[Mro[c][i]]) => i <= j
    /\ Shape[c] \in {"model", "dataclass", "typed_dict"}
    /\ DOMAIN Declares[c] = ToSet(Fields[c]) /\ Fields[c] \in Seq(DOMAIN Declares[c])
    /\ Optional[c] \cup Omitted[c] \subseteq ToSet(Fields[c])

ASSUME FormsAssumption ==
  /\ Anything \in Forms
  /\ \A c \in DOMAIN Mro : Of(c) \in Forms /\ \A f \in DOMAIN Declares[c] : Declares[c][f] \in Forms
  /\ \A a \in Forms :
       /\ a.args \in Seq(Forms)
       /\ a.form = "any" => a = Anything
       /\ a.form = "class" => a.class \in DOMAIN Mro
       /\ a.form = "union" => \A i \in DOMAIN a.args : a.args[i].form # "union"

Collections == {"list", "tuple", "set", "frozenset"}
Structures == {"model", "dataclass"}

IsCollection(h, o) == h[o].kind \in Collections
IsMapping(h, o) == h[o].kind = "dict"
IsModel(h, o) == h[o].kind = "model"
IsInstance(h, o, c) == h[o].kind \in Structures /\ c \in ToSet(Mro[h[o].class])

IsModelClass(a) == a.form = "class" /\ Shape[a.class] = "model"
IsUnion(a) == a.form = "union"

\* What a mapping or a collection declares its keys, values and items to be.
KeyOf(a) == IF Len(a.args) = 2 THEN a.args[1] ELSE Anything
ValueOf(a) == IF Len(a.args) = 2 THEN a.args[2] ELSE Anything
ItemOf(a) == IF a.args = <<>> THEN Anything ELSE a.args[1]

\* _runtime_value_matches_typed_dict, but for the values.
HasKeysOf(h, o, c) ==
  /\ ToSet(Fields[c]) \ Optional[c] \subseteq DOMAIN h[o].of
  /\ DOMAIN h[o].of \subseteq ToSet(Fields[c])

\* _runtime_value_matches_annotation: is o, with what is in it, a value of annotation a?
Matches(h, o, a) ==
  LET matches[x \in (DOMAIN h) \X Forms] ==
        LET v == h[x[1]]
            b == x[2]
        IN  \/ b.form = "any"
            \/ b.form \in {"none", "scalar"} /\ v.kind = b.form
            \/ b.form = "union" /\ \E i \in DOMAIN b.args : matches[<<x[1], b.args[i]>>]
            \/ /\ b.form \in Collections /\ v.kind = b.form
               /\ \A i \in DOMAIN v.of : matches[<<v.of[i], ItemOf(b)>>]
            \/ /\ b.form = "dict" /\ v.kind = "dict"
               /\ \A k \in DOMAIN v.of : matches[<<k, KeyOf(b)>>] /\ matches[<<v.of[k], ValueOf(b)>>]
            \/ /\ b.form = "class" /\ Shape[b.class] = "typed_dict" /\ v.kind = "dict"
               /\ HasKeysOf(h, x[1], b.class)
               /\ \A k \in DOMAIN v.of : matches[<<v.of[k], Declares[b.class][k]>>]
            \/ b.form = "class" /\ IsInstance(h, x[1], b.class)
  IN  matches[<<o, a>>]

\* Among the arms of a union: those of the class of o or of an ancestor of it, the most
\* specific first; else those o matches; else those of the kind of collection that o is.
ClassArms(h, o, args) ==
  {i \in DOMAIN args : args[i].form = "class" /\ IsInstance(h, o, args[i].class)}
Distance(h, o, c) == CHOOSE n \in DOMAIN Mro[h[o].class] : Mro[h[o].class][n] = c
NearestArms(h, o, args, arms) ==
  {i \in arms : \A j \in arms : Distance(h, o, args[i].class) <= Distance(h, o, args[j].class)}
MatchingArms(h, o, args) == {i \in DOMAIN args : Matches(h, o, args[i])}
KindArms(h, o, args) == {i \in DOMAIN args : args[i].form = h[o].kind}

\* The first of the arms with these indices, or a.
First(I) == CHOOSE i \in I : \A j \in I : i <= j
ArmOf(a, I, otherwise) == IF I # {} THEN a.args[First(I)] ELSE otherwise

\* Mutant of Matching: the first arm o is an instance of, which may be a base class.
FirstMatching(h, o, a) ==
  IF IsUnion(a) THEN ArmOf(a, MatchingArms(h, o, a.args), a) ELSE a

\* _matching_declared_annotation.
Matching(h, o, a) ==
  IF IsUnion(a)
  THEN ArmOf(a, NearestArms(h, o, a.args, ClassArms(h, o, a.args)),
         ArmOf(a, MatchingArms(h, o, a.args), ArmOf(a, KindArms(h, o, a.args), a)))
  ELSE a

\* The items of a collection with their annotations, nothing if a declares none.
Items(h, o, a) ==
  IF IsCollection(h, o) /\ a.form \in Collections
  THEN [i \in DOMAIN h[o].of |-> <<h[o].of[i], a.args[1]>>]
  ELSE <<>>
HasItems(h, o, a) == IsCollection(h, o) /\ a.form \in Collections
================================================================================
