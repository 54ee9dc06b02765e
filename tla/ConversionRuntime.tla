-------------------------- MODULE ConversionRuntime --------------------------
(***************************************************************************)
(* The execution of a conversion (_runtime.py and _runtime_nested.py): the *)
(* payload of a family is walked along its adjacent transitions; before    *)
(* every transition the embedded families whose label changes are walked   *)
(* along their own, and theirs before them.  Callbacks are user code: they *)
(* may fail, and may drop or supply embedded values.                       *)
(*                                                                         *)
(* A value is represented by the label whose declarations it follows.  A   *)
(* list, tuple or set of embedded values is represented by one of them:    *)
(* the code converts the items one by one, in the same way.                *)
(***************************************************************************)
EXTENDS ConversionPlan

VARIABLES
  request,   \* the operation asked for
  outcome,   \* how far it got
  at,        \* at[s]: the label of the value at s, 0 when there is none
  raw,       \* sites whose values still have the field names of a wire model
  stack,     \* the conversion loops that are active, outermost first
  lost       \* did a lossy downgrade run, or a projection remove a field?

vars == <<request, outcome, at, raw, stack, lost>>

Nothing == [op |-> "none", label |-> 0]

(***************************************************************************)
(* A conversion loop: the site it converts from one label to another, the  *)
(* label it has reached, the nested declaration it comes to next, and      *)
(* whether the embedded values are known to have canonical field names.    *)
(***************************************************************************)
Between(a, b) == IF a < b THEN a .. b ELSE b .. a
Loop ==
  {l \in [site : Sites, from : Nat, to : Nat, pos : Nat, next : Nat, canonical : BOOLEAN] :
     /\ l.from \in Labels(l.site)
     /\ l.to \in Labels(l.site)
     /\ l.pos \in Between(l.from, l.to)
     /\ l.next \in 1 .. Len(Kids[l.site]) + 1}

LoopAt(s, a, b, pos, canonical) ==
  [site |-> s, from |-> a, to |-> b, pos |-> pos, next |-> 1, canonical |-> canonical]
NewLoop(s, a, b, canonical) == LoopAt(s, a, b, a, canonical)

TypeOK ==
  /\ request \in Request \cup {Nothing}
  /\ outcome \in {"idle", "running", "done", "irreversible", "invalid"}
  /\ DOMAIN at = Sites
  /\ \A s \in Sites : at[s] \in Labels(s) \cup {0}
  /\ raw \subseteq {s \in Sites : at[s] # 0}
  /\ stack \in Seq(Loop)
  /\ outcome = "running" <=> stack # <<>>
  /\ lost \in BOOLEAN

Init ==
  /\ request = Nothing
  /\ outcome = "idle"
  /\ at = [s \in Sites |-> 0]
  /\ raw = {}
  /\ stack = <<>>
  /\ lost = FALSE

-----------------------------------------------------------------------------
(* State functions. *)

Top == stack[Len(stack)]
Below == SubSeq(stack, 1, Len(stack) - 1)
Caller == stack[Len(stack) - 1]
Running == stack # <<>>
HasValue(s) == at[s] # 0

\* The sites below each site, at any depth.
Descendants ==
  [s \in Sites |->
     {d \in Sites : \A S \in SUBSET Sites :
        KidsOf(s) \subseteq S /\ (\A t \in S : KidsOf(t) \subseteq S) => d \in S}]
Under(s) == Descendants[s]

\* Embedded values follow the labels that their owners' labels select, in tree
\* below s, when the value at s follows label a.
Aligned(tree, s, a) ==
  \A t \in {s} \cup Under(s) : \A k \in KidsOf(t) :
    tree[k] # 0 =>
      /\ t = s \/ tree[t] # 0
      /\ tree[k] = LabelMap[k][IF t = s THEN a ELSE tree[t]]

\* No edge of the route is left.
Arrived(l) == l.pos = l.to

\* The label at the other end of the next edge of the route.
Ahead(l) == IF Arrived(l) THEN l.pos ELSE IF l.from < l.to THEN l.pos + 1 ELSE l.pos - 1

HasCallback(l) ==
  IF l.from < l.to THEN l.pos \in Upgrades[l.site]
                   ELSE Downgrades[l.site][Ahead(l)] # "none"

\* Mutant of Due: the route of the owner alone decides.
DueIfChanged(l, k) == LabelMap[k][l.pos] # LabelMap[k][Ahead(l)] /\ HasValue(k)

\* _apply_nested_family_migrations enters a nested family: its label changes, or its
\* value may still have wire names, and there is a value.
Due(l, k) ==
  /\ LabelMap[k][l.pos] # LabelMap[k][Ahead(l)] \/ ~l.canonical
  /\ HasValue(k)

\* Mutant of NextKid: the embedded families are visited in the opposite order.
NextKidBackwards(l) == Kids[l.site][Len(Kids[l.site]) + 1 - l.next]

NextKid(l) == Kids[l.site][l.next]

\* The loop of an embedded family that is entered for the next edge must still be
\* walked, or, with equal labels, its own embedded families visited once.
AtKids(l) ==
  /\ l.next <= Len(Kids[l.site])
  /\ ~Arrived(l) \/ (l.from = l.to /\ l.site # Root)

AtEdge(l) == ~Arrived(l) /\ l.next = Len(Kids[l.site]) + 1

AtEnd(l) == Arrived(l) /\ ~AtKids(l)

\* Values that a callback may return in place of the tree below s, for which the
\* value at s then follows label a: embedded values are kept, dropped, or supplied
\* anew according to the declarations of a.
Returned(tree, s, a) ==
  /\ \A t \in Sites \ ({s} \cup Under(s)) : tree[t] = at[t]
  /\ tree[s] = a
  /\ \A t \in {s} \cup Under(s) : \A k \in KidsOf(t) :
       tree[k] # 0 =>
         /\ tree[t] # 0
         /\ tree[k] = IF HasValue(k) THEN at[k] ELSE LabelMap[k][tree[t]]

\* All assignments of labels to sites.
Trees ==
  {tree \in [Sites -> {0} \cup UNION {Labels(s) : s \in Sites}] :
     \A s \in Sites : tree[s] \in Labels(s) \cup {0}}

-----------------------------------------------------------------------------
(* Actions. *)

\* validate or dump begins: the plan is looked at, the payload is validated at its
\* first label, and the root's field names become canonical.  A generated source
\* model's embedded values are given canonical names too; those of an explicit
\* source model are left as they are.
Begin(r) ==
  /\ ~Running
  /\ request' = r
  /\ lost' = FALSE
  /\ IF Blocked(r)
     THEN /\ outcome' = "irreversible"
          /\ at' = [s \in Sites |-> 0]
          /\ raw' = {}
          /\ stack' = <<>>
     ELSE LET route == Whole(r)
              explicit == r.op = "validate" /\ r.label \in Explicit
          IN /\ outcome' = "running"
             /\ at' \in {tree \in Trees : tree[Root] = route.from /\ Aligned(tree, Root, route.from)}
             /\ raw' = IF explicit THEN {s \in Sites \ {Root} : at'[s] # 0} ELSE {}
             /\ stack' = <<NewLoop(Root, route.from, route.to, ~explicit)>>

\* The next nested declaration has nothing to convert.
Pass ==
  /\ Running
  /\ AtKids(Top)
  /\ ~Due(Top, NextKid(Top))
  /\ stack' = [stack EXCEPT ![Len(stack)] = [Top EXCEPT !.next = Top.next + 1]]
  /\ UNCHANGED <<request, outcome, at, raw, lost>>

\* _convert_nested_family_payload begins.  A value that may have wire names is
\* validated by its wire model, and its own names become canonical.
Descend ==
  LET k == NextKid(Top) IN
  /\ Running
  /\ AtKids(Top)
  /\ Due(Top, k)
  /\ stack' = Append(stack,
       NewLoop(k, LabelMap[k][Top.pos], LabelMap[k][Ahead(Top)], Top.canonical))
  /\ raw' = IF Top.canonical THEN raw ELSE raw \ {k}
  /\ UNCHANGED <<request, outcome, at, lost>>

\* The loop goes on to its next edge.  Embedded values have canonical names from
\* the first edge on.
Advanced ==
  stack' = [stack EXCEPT ![Len(stack)] =
    LoopAt(Top.site, Top.from, Top.to, Ahead(Top), TRUE)]

\* A transition without a callback in the direction of the route.
Identity ==
  /\ Running
  /\ AtEdge(Top)
  /\ ~HasCallback(Top)
  /\ at' = [at EXCEPT ![Top.site] = Ahead(Top)]
  /\ Advanced
  /\ UNCHANGED <<request, outcome, raw, lost>>

\* A transition with a callback, which returns a dictionary.
Callback ==
  /\ Running
  /\ AtEdge(Top)
  /\ HasCallback(Top)
  /\ at' \in {tree \in Trees : Returned(tree, Top.site, Ahead(Top))}
  /\ raw' = {s \in raw : at'[s] # 0}
  /\ lost' = (lost \/ (Top.from > Top.to /\ Downgrades[Top.site][Ahead(Top)] = "lossy"))
  /\ Advanced
  /\ UNCHANGED <<request, outcome>>

\* A callback raises or does not return a dictionary, an embedded value is not valid
\* where it is about to be converted, or the source or the target model refuses the
\* whole payload.
Reject ==
  /\ Running
  /\ \/ AtEdge(Top) /\ HasCallback(Top)
     \/ AtKids(Top) /\ Due(Top, NextKid(Top))
     \/ Len(stack) = 1 /\ (AtEnd(Top) \/ (Top.pos = Top.from /\ Top.next = 1))
  /\ outcome' = "invalid"
  /\ stack' = <<>>
  /\ UNCHANGED <<request, at, raw, lost>>

\* An embedded conversion returns to the loop that called it.
Return ==
  /\ Running
  /\ AtEnd(Top)
  /\ Len(stack) > 1
  /\ stack' = [Below EXCEPT ![Len(stack) - 1] = [Caller EXCEPT !.next = Caller.next + 1]]
  /\ UNCHANGED <<request, outcome, at, raw, lost>>

\* The last edge is done: embedded values and the payload are projected, and the
\* target model validates them.  Rendering leaves out the fields that the selected
\* versions do not have.
Finish ==
  /\ Running
  /\ AtEnd(Top)
  /\ Len(stack) = 1
  /\ outcome' = "done"
  /\ stack' = <<>>
  /\ lost' = (lost \/ (request.op = "render" /\ \E s \in Sites : at[s] \in Removes[s]))
  /\ UNCHANGED <<request, at, raw>>

Next ==
  \/ \E r \in Request : Begin(r)
  \/ Pass
  \/ Descend
  \/ Identity
  \/ Callback
  \/ Reject
  \/ Return
  \/ Finish

Spec == Init /\ [][Next]_vars
-----------------------------------------------------------------------------
(* Properties. *)

\* A downgrade that is not available is never passed over: the loops treat a missing
\* callback as an identity (_runtime.py:365-367, _runtime_nested.py:1577-1580), so
\* only the plan, which recurses through the declarations and never sees the
\* payload, keeps a route with a missing downgrade from being executed silently.
NoUnavailableDowngrade ==
  Running /\ AtEdge(Top) /\ Top.from > Top.to
    => DowngradeSemantics(Top.site, Ahead(Top)) # "unavailable"

\* A transition callback finds the embedded values, at every depth, already at the
\* labels that go with its target, and with canonical field names, whatever earlier
\* callbacks dropped or supplied (_runtime.py:185-205, _runtime_nested.py:1541-1585).
ChildrenFirst ==
  Running /\ AtEdge(Top)
    => /\ at[Top.site] = Top.pos
       /\ Aligned(at, Top.site, Ahead(Top))
       /\ raw \cap ({Top.site} \cup Under(Top.site)) = {}

\* A conversion that succeeds delivers every embedded value at the label that the
\* target label selects through all the maps on its way, and no wire names survive
\* (_runtime.py:211-258, 336-412).
Delivered ==
  outcome = "done"
    => /\ at[Root] = Whole(request).to
       /\ Aligned(at, Root, at[Root])
       /\ request.op = "validate" /\ request.label \in Explicit => raw = {}

\* A render plan that is exact is the promise that nothing is lost, for any payload
\* and at any depth: "If a child schema loses a field on the selected route, the
\* parent plan is lossy" (docs/guide/application-exchange.md:169-171).
ExactMeansLossless ==
  request.op = "render" /\ lost => PlanSemantics(request) = "lossy"

\* The steps of the plan at the places that the outermost loop has left behind.  That
\* they were performed, and not just left behind, shows in the labels.
StepsDone ==
  Len(PlanPrefix(request,
        Distance(stack[1].from, stack[1].pos) * (Len(Kids[Root]) + 1) + stack[1].next - 1))

\* The label of the value at s, the root or an embedded family of it, as the plan
\* tells it: while an embedded family is walked, its values are those that Descend
\* found, until Return delivers what the walk made of them.
LabelOf(s) ==
  IF Len(stack) > 1 /\ s = stack[2].site THEN stack[2].from ELSE at[s]

Planned == INSTANCE PlannedConversion WITH
  Requests <- Request,
  StepsOf <- PlanSteps,
  Refused <- Blocked,
  Origin <- LAMBDA r : Whole(r).from,
  Family <- Root,
  Embedded <- KidsOf(Root),
  Selected <- LAMBDA k, a : LabelMap[k][a],
  done <- IF Running THEN StepsDone ELSE 0,
  labels <- [s \in {Root} \cup KidsOf(Root) |->
               IF outcome \in {"running", "done"} THEN LabelOf(s) ELSE 0]

\* The plan is what is executed.  Loops, recursion and shortcuts together move the
\* family's own value and the values of every embedded family from label to label as
\* the steps of the plan say, in their order, each once, and in no other way; a step is
\* without effect only when its family has no value in the payload; and a plan with an
\* unavailable step is refused as a whole (_planning.py:219-262, 308-363, with
\* _runtime.py:195-232, 337-372 and _runtime_nested.py:336-366, 1549-1589).
ImplementsPlan == Planned!Spec
=============================================================================
