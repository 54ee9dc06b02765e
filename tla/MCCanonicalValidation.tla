------------------------- MODULE MCCanonicalValidation -------------------------
(* Small schemas: functions around leaves and unions, nested unions, sets, and references. *)
EXTENDS AdaptedValidation, TLC

Leaf(type) == Node(type, <<>>)
Items == Node("set", <<Leaf("item")>>)
App(type, node_) == Node(type, <<node_>>)
Union(a, b) == Node("union", <<a, b>>)
Leaves == {Leaf("enum"), Leaf("scalar"), Items, Leaf("any")}
Around(S) == {App(t, s) : t \in {"wrap", "after", "before"}, s \in S}
UnionsOf(S, T) == {Union(s, t) : s \in S, t \in T}
Simple == Leaves \cup Around(Leaves) \cup {Leaf("plain")}

\* Sets of alternatives, of sets, and of what functions check.
Sets ==
  {Node("set", <<s>>) : s \in UnionsOf({Leaf("item")}, {Leaf("any"), Leaf("plain")}) \cup {Items}
     \cup Around({Leaf("item")}) \cup {Node("model", <<Leaf("item")>>)}}

Unions == UnionsOf(Leaves, Leaves)
Trees ==
  Simple \cup UnionsOf(Simple, Simple) \cup Around(Unions) \cup Sets \cup Around(Sets)
    \cup Around(UnionsOf(Simple, Leaves)) \cup Around(Around(Leaves))
    \cup UnionsOf(UnionsOf(Simple, Leaves), Leaves \cup Around({Leaf("scalar")}))
    \cup UnionsOf(Around(Unions), Leaves) \cup UnionsOf(Leaves, Around(Unions))
    \cup {Node("tagged", <<s, Leaf("scalar")>>) : s \in Around({Items, Leaf("enum")})}

Schema(root, definitions) == [root |-> root, definitions |-> definitions]
Plain == [x \in {} |-> Leaf("any")]

\* Models that refer to each other, two at a time, some with code of their own.
Linked ==
  {Schema(Node(t, <<Ref("A"), r>>),
          [d \in {"A", "B", "C"} |->
             CASE d = "A" -> Node("model", <<Ref("B"), Leaf("scalar")>>)
               [] d = "B" -> Node(u, <<Node("nullable", <<Ref(e)>>), s>>)
               [] OTHER -> Node(v, <<Ref("A"), Union(Leaf("enum"), Leaf("scalar"))>>)]) :
     t \in {"model", "init_model"}, u \in Models, v \in {"model", "new_model"}, e \in {"A", "B", "C"},
     r \in {Leaf("scalar"), Node("set", <<Ref("A")>>)}, s \in {Leaf("enum"), Leaf("scalar"), Items}}

RECURSIVE Holds(_, _)
Holds(node_, types) == node_.type \in types \/ \E i \in DOMAIN node_.kids : Holds(node_.kids[i], types)
Inside(node_) == NodesIn(node_) \ {node_}

\* A function around a union around a guarded set: the lost member is not noticed when the
\* function catches the error of the union.
Swallows(node_) ==
  \E n \in NodesIn(node_) : n.type = "wrap" /\ \E u \in Inside(n) : u.type = "union" /\ Holds(u, {"set"})

\* A union of enums around one without, in which a function may take part in what is not
\* selected.
Misattributes(node_) ==
  \E n \in NodesIn(node_) :
    /\ n.type = "union" /\ Holds(n, {"enum"})
    /\ \E u \in Inside(n) : u.type = "union" /\ Holds(u, Applications) /\ ~Holds(u, {"enum"})

Fields(S) == {Schema(Node("model", <<t>>), Plain) : t \in S}
MCSchemas == Fields({t \in Trees : ~Swallows(t) /\ ~Misattributes(t)}) \cup Linked
MCSwallowing == Fields({t \in Trees : Swallows(t) /\ ~Misattributes(t)})
MCMisattributing == Fields({t \in Trees : ~Swallows(t) /\ Misattributes(t)})
================================================================================
