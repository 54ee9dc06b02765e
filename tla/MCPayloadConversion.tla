-------------------------- MODULE MCPayloadConversion --------------------------
(* A document with single, listed, set and undeclared values of one frozen model. *)
EXTENDS PayloadConversion

CONSTANT Families    \* the kinds of documents that are tried

\* Names and scalars, which are objects too.
body == 1   items == 2   tags == 3   extra == 4   secret == 5
next == 6   note == 7    hidden == 8   box == 9   child == 10
none == 11  red == 12    blue == 13
\* Objects: the document, two values, two wrappers, and containers.
doc == 14   one == 15   two == 16   wrap1 == 17   wrap2 == 18
list == 19  frozen == 20  inner == 21  tuple == 22  dict == 23  point == 24

MCMro == [Doc |-> <<"Doc">>, Node |-> <<"Node">>, SubNode |-> <<"SubNode", "Node">>,
          Wrap |-> <<"Wrap">>, SubWrap |-> <<"SubWrap", "Wrap">>, Point |-> <<"Point">>, Entry |-> <<"Entry">>]
MCShape ==
  [c \in DOMAIN MCMro |->
     CASE c = "Point" -> "dataclass" [] c = "Entry" -> "typed_dict" [] OTHER -> "model"]
MCFields ==
  [Doc |-> <<body, items, tags, extra, secret, box>>, Node |-> <<next, note>>,
   SubNode |-> <<next, note, hidden>>, Wrap |-> <<child, note>>,
   SubWrap |-> <<child, note, hidden>>, Point |-> <<next, hidden>>, Entry |-> <<next, note>>]
NodeOrNone == Unions(<<Of("Node"), NoneType>>)
Boxes == Unions(<<Of("Wrap"), Of("SubWrap"), Frozensets(Of("Wrap")), Lists(Of("Wrap")), NoneType>>)
MCDeclares ==
  [Doc |-> (body :> NodeOrNone @@ items :> Lists(Of("Node"))
            @@ tags :> Frozensets(Unions(<<Of("Node"), Frozensets(Of("Node"))>>))
            @@ extra :> Unions(<<Of("Point"), Of("Entry"), Anything>>) @@ secret :> Anything @@ box :> Boxes),
   Node |-> (next :> NodeOrNone @@ note :> Text),
   SubNode |-> (next :> NodeOrNone @@ note :> Text @@ hidden :> Anything),
   Wrap |-> (child :> NodeOrNone @@ note :> Text),
   SubWrap |-> (child :> NodeOrNone @@ note :> Text @@ hidden :> Anything),
   Point |-> (next :> Anything @@ hidden :> Text), Entry |-> (next :> Anything @@ note :> Text)]
MCOptional == [c \in DOMAIN MCMro |-> IF c = "Entry" THEN {note} ELSE {}]
MCOmitted ==
  [c \in DOMAIN MCMro |->
     CASE c = "Doc" -> {secret} [] c = "Point" -> {hidden} [] c = "Entry" -> {note} [] OTHER -> {}]

RECURSIVE FormsIn(_)
FormsIn(a) == {a} \cup UNION {FormsIn(a.args[i]) : i \in DOMAIN a.args}
MCForms ==
  {Anything} \cup {Of(c) : c \in DOMAIN MCMro}
    \cup UNION {FormsIn(MCDeclares[c][f]) : <<c, f>> \in {x \in (DOMAIN MCMro) \X (1 .. 24) : x[2] \in DOMAIN MCDeclares[x[1]]}}

Simple(kind) == Object(kind, <<>>, FALSE, {}, 0)
Model(class, of) == [Object("model", of, FALSE, {}, 0) EXCEPT !.class = class]
Container(kind, of) == Object(kind, of, FALSE, {}, 0)

\* A heap with the given objects; the others are empty.
Heap(objects) ==
  [o \in 1 .. 24 |->
     IF o \in DOMAIN objects THEN objects[o]
     ELSE IF o = none THEN Simple("none") ELSE Simple("scalar")]
NodeObject(class, n, text, h) ==
  Model(class, next :> n @@ note :> text @@ (IF class = "SubNode" THEN hidden :> h ELSE <<>>))
DocObject(b, i, t, e, x) ==
  Model("Doc", body :> b @@ items :> i @@ tags :> t @@ extra :> e @@ secret :> list @@ box :> x)
Wrapping(class, n, text) ==
  Model(class, child :> n @@ note :> text @@ (IF class = "SubWrap" THEN hidden :> red ELSE <<>>))

\* Values that refer to each other, lists that hold themselves, and what is declared nowhere.
References ==
  {Heap(doc :> DocObject(one, list, frozen, e, none)
        @@ one :> NodeObject(c, n, red, h) @@ two :> NodeObject("Node", m, blue, none)
        @@ list :> Container("list", i) @@ frozen :> Container("frozenset", <<one>>)
        @@ dict :> Container("dict", red :> v)) :
     e \in {list, dict, two}, c \in {"Node", "SubNode"}, n \in {none, one, two},
     h \in {none, list}, m \in {none, one}, i \in {<<two, two>>}, v \in {none, two, dict}}

\* Members of sets and mapping keys, in tuples, in further sets, and where nothing is declared.
Members ==
  {Heap(doc :> DocObject(none, list, t, e, none)
        @@ one :> NodeObject("Node", none, red, none) @@ two :> NodeObject("Node", none, blue, none)
        @@ list :> Container("list", <<two>>) @@ frozen :> Container("frozenset", s)
        @@ inner :> Container("frozenset", r) @@ tuple :> Container("tuple", <<u>>)
        @@ dict :> Container("dict", k :> list)) :
     t \in {frozen, inner}, e \in {none, inner, tuple, dict},
     s \in {<<one, two>>, <<one, inner>>, <<inner, two>>},
     r \in {<<one>>, <<one, two>>, <<tuple>>, <<list>>}, u \in {one, inner}, k \in {red, one}}

\* Wrappers of values, one alone, or both in a list or in a set.
Wrappers(kinds, wraps) ==
  {Heap(doc :> DocObject(none, list, frozen, none, b)
        @@ one :> NodeObject(c, none, red, none) @@ two :> NodeObject("Node", none, t, none)
        @@ wrap1 :> Wrapping(w, one, u) @@ wrap2 :> Wrapping("Wrap", x, red)
        @@ list :> Container("list", <<>>) @@ frozen :> Container("frozenset", <<>>)
        @@ inner :> Container(k, <<wrap1, wrap2>>)) :
     b \in {inner, wrap1}, k \in kinds, c \in {"Node", "SubNode"}, w \in wraps,
     t \in {red, blue}, u \in {red, blue}, x \in {one, two, none}}

\* A dataclass and typed dictionaries, which refer to models, to containers or to themselves.
Structured ==
  {Heap(doc :> DocObject(none, list, frozen, e, none)
        @@ one :> NodeObject("Node", none, red, none)
        @@ point :> [Simple("dataclass") EXCEPT !.class = "Point", !.of = next :> n @@ hidden :> red]
        @@ dict :> Container("dict", next :> m @@ (IF t THEN note :> blue ELSE <<>>))
        @@ list :> Container("list", <<>>) @@ frozen :> Container("frozenset", <<>>)
        @@ tuple :> Container("tuple", <<dict>>)) :
     e \in {point, dict, tuple}, n \in {one, point, dict}, m \in {none, list, point, dict}, t \in BOOLEAN}

\* Models are valid, and sets have no equal members in the first place.
Proper(h) ==
  \A o \in DOMAIN h :
    /\ h[o].kind = "model" => \A f \in DOMAIN h[o].of : Matches(h, h[o].of[f], MCDeclares[h[o].class][f])
    /\ h[o].kind = "frozenset" => ~Shrinks(h, Range(h[o].of))

MCSources ==
  {h \in UNION {CASE f = "references" -> References [] f = "members" -> Members [] f = "structures" -> Structured
           [] f = "wrapped lists" -> Wrappers({"list"}, {"Wrap", "SubWrap"}) [] f = "wrapped sets" -> Wrappers({"frozenset"}, {"Wrap"}) :
         f \in Families} : Proper(h)}
MCPaths == {<<body>>, <<items>>, <<tags>>, <<box, child>>}

ASSUME SourcesAreValid == Validated
================================================================================
