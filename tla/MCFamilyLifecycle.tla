-------------------------- MODULE MCFamilyLifecycle --------------------------
(***************************************************************************)
(* Small family graphs for FamilyLifecycle.  Families are named after the  *)
(* model they own: "p" and "p2" own "P", and so on.                        *)
(***************************************************************************)
EXTENDS FamilyLifecycle, TLC

CONSTANTS t1, t2

TwoThreads == {t1, t2}
OneThread == {t1}
ThreadSymmetry == Permutations(TwoThreads)

\* The two declarable migrations of the small families: label pair 1 -> 2 is
\* adjacent, 1 -> 3 is not.
TwoEdges == {"1->2", "1->3"}

\* Diamond: p embeds a directly and b through a provider; a embeds b.
DiamondFamilies == {"p", "a", "b"}
DiamondModels == {"P", "A", "B"}
DiamondModelOf == [p |-> "P", a |-> "A", b |-> "B"]
DiamondRoutes == [p |-> <<Direct("a"), Provider("b")>>, a |-> <<Direct("b")>>, b |-> <<>>]
NoFields == [f \in Families |-> {}]
FirstEdge == [f \in Families |-> {"1->2"}]
NoMigrations == {}
DiamondMigrations == {<<"p", "1->2">>}

\* Defaults: p embeds a; p2 and a2 are their replacements, for the same models.  In
\* ProviderRoutes p names its child through a provider.
DefaultFamilies == {"p", "p2", "a", "a2"}
DefaultModels == {"P", "A"}
DefaultModelOf == [p |-> "P", p2 |-> "P", a |-> "A", a2 |-> "A"]
DefaultRoutes ==
  [p |-> <<Direct("a")>>, p2 |-> <<Direct("a2")>>, a |-> <<>>, a2 |-> <<>>]
ProviderRoutes == [DefaultRoutes EXCEPT !["p"] = <<Provider("a")>>]
DefaultMigrations == {<<"p", "1->2">>}

\* Discovery: q and a are created by the decorator, and the annotations of q reach
\* A; p declares q explicitly, which is refused while q discovers a, and then r,
\* through a provider, which declares p.  a2 may replace a.
DiscoveryFamilies == {"p", "q", "r", "a", "a2"}
DiscoveryModels == {"P", "Q", "R", "A"}
DiscoveryModelOf == [p |-> "P", q |-> "Q", r |-> "R", a |-> "A", a2 |-> "A"]
DiscoveryRoutes ==
  [p |-> <<Direct("q"), Provider("r")>>, q |-> <<>>, r |-> <<Direct("p")>>,
   a |-> <<>>, a2 |-> <<>>]
DiscoveryFields == [p |-> {}, q |-> {"A"}, r |-> {}, a |-> {}, a2 |-> {}]
=============================================================================
