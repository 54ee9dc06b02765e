----------------------------- MODULE MCFieldNames -----------------------------
(***************************************************************************)
(* Families of two fields, which swap names, take over the name of a       *)
(* removed field, are removed twice, and have no alias, one or a choice.   *)
(***************************************************************************)
EXTENDS FieldNames

MCFields == {"a", "b"}
MCNames == {"a", "b", "x", "y"}
ByField(p, q) == [f \in MCFields |-> IF f = "a" THEN p ELSE q]

None == [kind |-> "none"]
Gone == [kind |-> "removed"]
Old == [kind |-> "default"]
As(n) == [kind |-> "renamed", name |-> n]
Latest == ByField(None, None)

TwoVersions ==
  {<<ByField(p, q), Latest>> : p \in {None, Gone, Old, As("b"), As("x")}, q \in {None, Gone, As("a")}}
ThreeVersions ==
  { <<ByField(Gone, None), Latest, Latest>>,
    <<ByField(As("x"), As("a")), ByField(As("b"), As("a")), Latest>> }

Aliases ==
  { ByField(<<>>, <<>>), ByField(<<"y">>, <<>>), ByField(<<"a", "y">>, <<>>),
    ByField(<<>>, <<"x", "y">>) }

\* How a model may be populated: by alias, by name, or both; and what becomes of extras.
Declared(byAlias, byName, extra) ==
  [patches : TwoVersions \cup ThreeVersions, upgrades : {{}, {1}}, downgrades : {{1}},
   aliases : Aliases, out : {ByField("x", "b"), ByField("b", "a")},
   required : {{}, {"a"}}, excluded : {{}, {"b"}},
   byAlias : {byAlias}, byName : {byName}, extra : extra]
MCFamilies ==
  Declared(TRUE, FALSE, {"allow", "forbid"}) \cup Declared(TRUE, TRUE, {"ignore"})
    \cup Declared(FALSE, TRUE, {"allow"})

\* The alias of one field is the name of the other, which has an alias of its own.
Crossing ==
  {[patches |-> <<Latest>>, upgrades |-> {}, downgrades |-> {},
    aliases |-> ByField(<<"b">>, <<"x">>), out |-> ByField("a", "b"),
    required |-> {}, excluded |-> {}, byAlias |-> TRUE, byName |-> FALSE, extra |-> "ignore"]}
================================================================================
