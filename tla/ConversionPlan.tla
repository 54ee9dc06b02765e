---------------------------- MODULE ConversionPlan ----------------------------
(***************************************************************************)
(* What a compiled family knows about a conversion before it sees a        *)
(* payload (_planning.py, with the compiled declarations of _compiler.py): *)
(* the adjacent transitions, the labels that nested families follow, and   *)
(* the semantics of the route between two labels.                          *)
(*                                                                         *)
(* A site is a place in the payload where a family's values are embedded:  *)
(* Root, and one site for every declared path of the family at a site.  A  *)
(* family declared at two paths appears as two sites with equal constants. *)
(* A label is its position in the family's declared order.                 *)
(***************************************************************************)
EXTENDS Naturals, Sequences

CONSTANTS
  Sites, Root,
  Size,        \* Size[s]: number of versions of the family at s
  Kids,        \* Kids[s]: the sites of its nested declarations, in order
  LabelMap,    \* LabelMap[k]: the label at k that each label of its owner selects
  Upgrades,    \* Upgrades[s]: edges with an upgrade callback
  Downgrades,  \* Downgrades[s][e]: declared semantics of e's downgrade, or "none"
  Removes,     \* Removes[s]: labels whose projection removes a field
  Explicit,    \* labels of Root that have an explicit wire model
  Semantics    \* Semantics[r]: what _nested_route_semantics computed for route r

Labels(s) == 1 .. Size[s]
\* Edge e joins label e to label e + 1.
EdgesOf(s) == 1 .. Size[s] - 1
Route == UNION {[site : {s}, from : Labels(s), to : Labels(s)] : s \in Sites}
RouteOf(s, a, b) == [site |-> s, from |-> a, to |-> b]
KidsOf(s) == {Kids[s][i] : i \in DOMAIN Kids[s]}

\* The current label is the last one, and a nested family is current when its owner is.
ASSUME SitesAssumption ==
  /\ Root \in Sites
  /\ Size \in [Sites -> Nat \ {0}]
  /\ Kids \in [Sites -> Seq(Sites)]
  /\ \A s \in Sites : \A k \in KidsOf(s) :
       /\ LabelMap[k] \in [Labels(s) -> Labels(k)]
       /\ LabelMap[k][Size[s]] = Size[k]
  /\ \A s \in Sites :
       /\ Upgrades[s] \subseteq EdgesOf(s)
       /\ Downgrades[s] \in [EdgesOf(s) -> {"none", "exact", "lossy"}]
       /\ Removes[s] \subseteq EdgesOf(s)
  /\ Explicit \subseteq EdgesOf(Root)

\* The payload is a tree: every site but Root has one owner, and Root reaches all.
ASSUME TreeAssumption ==
  /\ \A s \in Sites : Root \notin KidsOf(s)
  /\ \A s, t \in Sites : \A i \in DOMAIN Kids[s], j \in DOMAIN Kids[t] :
       Kids[s][i] = Kids[t][j] => s = t /\ i = j
  /\ \A S \in SUBSET Sites : Root \in S /\ (\A s \in S : KidsOf(s) \subseteq S) => S = Sites

-----------------------------------------------------------------------------
\* _compile_transition: without a declared downgrade an edge can be undone only if
\* it has no upgrade either.
DowngradeSemantics(s, e) ==
  IF Downgrades[s][e] # "none" THEN Downgrades[s][e]
  ELSE IF e \in Upgrades[s] THEN "unavailable" ELSE "exact"

\* The adjacent moves of a route, each a pair of labels.
Moves(r) ==
  IF r.from < r.to THEN {<<e, e + 1>> : e \in r.from .. r.to - 1}
                   ELSE {<<e + 1, e>> : e \in r.to .. r.from - 1}

\* The routes of the nested families that a move of their owner changes.
NestedRoutes(s, move) ==
  {RouteOf(k, LabelMap[k][move[1]], LabelMap[k][move[2]]) :
     k \in {c \in KidsOf(s) : LabelMap[c][move[1]] # LabelMap[c][move[2]]}}

\* Mutant of NestedRouteRisks: only the routes of direct children are looked at.
DirectRisks(sem, r) == {}

\* _nested_route_risks, for every move of a route.
NestedRouteRisks(sem, r) ==
  {sem[n] : n \in UNION {NestedRoutes(r.site, move) : move \in Moves(r)}}

\* Mutant of OwnRisks: fields missing from the target version are not a loss.
OwnRisksOfCallbacks(r) ==
  IF r.from < r.to THEN {} ELSE {DowngradeSemantics(r.site, move[2]) : move \in Moves(r)}

\* What a route risks at its own site; going up risks nothing.
OwnRisks(r) ==
  IF r.from < r.to THEN {}
  ELSE {DowngradeSemantics(r.site, move[2]) : move \in Moves(r)} \cup
       (IF r.to \in Removes[r.site] THEN {"lossy"} ELSE {})

Worst(risks, default) ==
  IF "unavailable" \in risks THEN "unavailable"
  ELSE IF "lossy" \in risks THEN "lossy" ELSE default

\* _nested_route_semantics, given the semantics of the routes further down.
NestedRouteSemantics(sem, r) ==
  Worst(OwnRisks(r) \cup NestedRouteRisks(sem, r),
        IF r.from < r.to THEN "not_applicable" ELSE "exact")

\* Semantics solves the recursion of _nested_route_semantics; the payload being a
\* tree, it is the only function that does.
ASSUME SemanticsAssumption ==
  /\ Semantics \in [Route -> {"not_applicable", "exact", "lossy", "unavailable"}]
  /\ \A r \in Route : Semantics[r] = NestedRouteSemantics(Semantics, r)

-----------------------------------------------------------------------------
(* The plan of a whole operation. *)

\* validate starts at a source label, dump ends at a requested one.
Request == [op : {"validate", "render"}, label : Labels(Root)]

Whole(request) ==
  IF request.op = "validate" THEN RouteOf(Root, request.label, Size[Root])
                             ELSE RouteOf(Root, Size[Root], request.label)

\* The semantics of the nested steps of a plan, and of all its steps.
NestedStepSemantics(request) == NestedRouteRisks(Semantics, Whole(request))
StepSemantics(request) ==
  NestedStepSemantics(request) \cup
  (IF request.op = "render" THEN OwnRisks(Whole(request)) ELSE {})

\* _build_validation_plan, _build_render_plan: the semantics of the whole plan.
PlanSemantics(request) ==
  IF request.op = "validate" THEN "not_applicable" ELSE Worst(StepSemantics(request), "exact")

\* _preflight_validation_route, plan_render: some step of the plan is unavailable.
Blocked(request) == "unavailable" \in StepSemantics(request)

\* Every edge of a route has a place for every declaration of the root, in order, and
\* for itself; this is the step at the n-th place.
StepAt(request, n) ==
  LET r == Whole(request)
      per == Len(Kids[Root]) + 1
      label(e) == IF r.from < r.to THEN r.from + e ELSE r.from - e
      e == (n - 1) \div per
      c == ((n - 1) % per) + 1
  IN IF c = per THEN RouteOf(Root, label(e), label(e + 1))
     ELSE LET k == Kids[Root][c]
          IN RouteOf(k, LabelMap[k][label(e)], LabelMap[k][label(e + 1)])

\* The steps of a plan that move the payload, up to the n-th place: for every edge,
\* first the nested families whose label changes, then the edge.
PlanPrefix(request, n) ==
  LET prefix[m \in Nat] ==
        IF m = 0 THEN <<>>
        ELSE IF StepAt(request, m).from = StepAt(request, m).to THEN prefix[m - 1]
        ELSE Append(prefix[m - 1], StepAt(request, m))
  IN prefix[n]

Distance(a, b) == IF a < b THEN b - a ELSE a - b

PlanSteps(request) ==
  PlanPrefix(request, Distance(Whole(request).from, Whole(request).to) * (Len(Kids[Root]) + 1))
=============================================================================
