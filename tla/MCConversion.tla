----------------------------- MODULE MCConversion -----------------------------
(***************************************************************************)
(* Small families for ConversionRuntime: p embeds a and b, and a embeds c. *)
(* Embedded labels may go back where the owner's label advances.           *)
(***************************************************************************)
EXTENDS ConversionRuntime, FiniteSets, SequencesExt

MCSites == {"p", "a", "b", "c"}
MCKids == [p |-> <<"a", "b">>, a |-> <<"c">>, b |-> <<>>, c |-> <<>>]

\* What _nested_route_semantics returns, by recursion on the depth of the payload.
ComputedSemantics ==
  LET depth == Cardinality(Sites)
      deeper(sem, n) == [r \in Route |-> NestedRouteSemantics(sem, r)]
  IN FoldLeft(deeper, [r \in Route |-> "exact"], [n \in 1 .. depth |-> n])

\* Rendering at label 4 is exact, at 3 lossy, because a leaves out a field, and below
\* unavailable; validation of label 1 is refused, because b would go back over an edge
\* that cannot be undone.  While p goes from 2 to 3, a goes back.
WindingSize == [p |-> 5, a |-> 3, b |-> 2, c |-> 3]
WindingMap ==
  [p |-> <<>>, a |-> <<1, 3, 2, 3, 3>>, b |-> <<2, 1, 2, 2, 2>>, c |-> <<1, 2, 3>>]
WindingUpgrades == [p |-> {1, 2, 4}, a |-> {1, 2}, b |-> {1}, c |-> {2}]
WindingDowngrades ==
  [p |-> <<"none", "lossy", "exact", "exact">>, a |-> <<"none", "exact">>,
   b |-> <<"none">>, c |-> <<"none", "exact">>]
WindingRemoves == [p |-> {}, a |-> {2}, b |-> {}, c |-> {}]

\* While p goes from 1 to 2, a goes from 2 to 1.  Version 2 of a has a field less.
CrossingSize == [p |-> 3, a |-> 3, b |-> 2, c |-> 2]
CrossingMap == [p |-> <<>>, a |-> <<2, 1, 3>>, b |-> <<1, 1, 2>>, c |-> <<1, 1, 2>>]
CrossingUpgrades == [p |-> {2}, a |-> {1, 2}, b |-> {1}, c |-> {1}]
CrossingDowngrades ==
  [p |-> <<"none", "exact">>, a |-> <<"exact", "exact">>, b |-> <<"exact">>,
   c |-> <<"exact">>]
CrossingRemoves == [p |-> {}, a |-> {2}, b |-> {}, c |-> {}]
=============================================================================
