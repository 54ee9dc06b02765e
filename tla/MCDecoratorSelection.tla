------------------------- MODULE MCDecoratorSelection -------------------------
(***************************************************************************)
(* A root family with a list of owners or leaves (site 1) and a mapping of *)
(* leaves of two families (site 2); an owner has a list of leaves (site    *)
(* 3), of one family or of two.                                            *)
(***************************************************************************)
EXTENDS DecoratorSelection

SomeFamilies == {"root", "owner", "a", "b"}
SiteOwners == <<"root", "root", "owner">>
OneFamilyParts == <<<<"a", "owner">>, <<"a", "b">>, <<"b">>>>
TwoFamilyParts == <<<<"a", "owner">>, <<"a", "b">>, <<"b", "a">>>>
SiteKinds == <<"list", "mapping", "list">>

\* One callback in each direction; the edges beyond have none.
SomeEdges == {<<1, 2>>, <<3, 2>>}

Item(n) == <<<<1, n>>>>
Entry(k) == <<<<2, k>>>>
Part(n, k) == <<<<1, n>>, <<3, k>>>>

Document(S) == [l \in {e[1] : e \in S} |-> (CHOOSE e \in S : e[1] = l)[2]]
SomeDocuments ==
  {Document({}),
   Document({<<Item(1), "a">>, <<Entry(1), "a">>, <<Entry(2), "b">>}),
   Document({<<Item(1), "owner">>, <<Part(1, 1), "b">>, <<Part(1, 2), "b">>}),
   Document({<<Item(1), "owner">>, <<Item(2), "owner">>, <<Part(1, 1), "b">>})}
TwoFamilyDocument ==
  {Document({<<Item(1), "owner">>, <<Part(1, 1), "a">>, <<Part(1, 2), "b">>})}
=============================================================================
