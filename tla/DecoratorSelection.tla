-------------------------- MODULE DecoratorSelection --------------------------
(***************************************************************************)
(* Occurrences of decorator-discovered families in one payload, while the  *)
(* payload is converted (_runtime_decorators.py and its callers in         *)
(* _runtime.py).  Which family an occurrence follows is decided once, from *)
(* the validated source; a selection carries the decision from edge to     *)
(* edge.  A callback of the root family may move, copy, drop, replace or   *)
(* introduce values: the selections are reconciled with what it returned,  *)
(* by object identity first, or the conversion is refused.                 *)
(*                                                                         *)
(* A value keeps, beside what the code can see of it (the identity of the  *)
(* object, whether it is a model instance), the family and the label its   *)
(* data follow.  The code never reads these: the properties compare them   *)
(* with what the selections say.  Left out are sets and tuples of values,  *)
(* and sites that also accept mappings which follow no family.             *)
(***************************************************************************)
EXTENDS Integers, Sequences, FiniteSets, SequencesExt

CONSTANTS
  Families,    \* the decorated families
  Root,        \* the one that is converted
  Owner,       \* Owner[s]: the family whose annotations declare dispatch site s
  Arms,        \* Arms[s]: the families that may occur there, in declaration order
  Kind,        \* Kind[s]: "list" or "mapping"
  Size,        \* the number of versions, the same in all families
  Callbacks,   \* edges <<from, to>> that have a callback of the root family
  Documents,   \* initial payloads: the family that is found at each location
  MaxItems,    \* bound: values at one site of one owner
  MaxEdits,    \* bound: things one callback does
  Depth,       \* bound: how deep owners are nested
  OwnerEdits   \* what callbacks of an embedded owner do with the values in it

Sites == DOMAIN Owner
Labels == 1 .. Size
Spoiled == "spoiled"

\* A location: the dispatch site and the list index or mapping key, for the owner, its
\* owner before it, and so on up to the root.
Slots == Sites \X (1 .. MaxItems)
SiteOf(l) == Last(l)[1]
KeyOf(l) == Last(l)[2]
SitesOf(f) == {s \in Sites : Owner[s] = f}

ASSUME SitesAssumption ==
  /\ Root \in Families /\ Spoiled \notin Families
  /\ IsFiniteSet(Sites) /\ Sites = 1 .. Cardinality(Sites)
  /\ Owner \in [Sites -> Families]
  /\ \A s \in Sites : Arms[s] \in Seq(Families) /\ IsInjective(Arms[s]) /\ Arms[s] # <<>>
  /\ Kind \in [Sites -> {"list", "mapping"}]
  /\ OwnerEdits \subseteq {"drop", "swap"}
ASSUME BoundsAssumption ==
  /\ Size \in Nat \ {0}
  /\ Callbacks \subseteq Labels \X Labels
  /\ MaxItems \in Nat
  /\ MaxEdits \in Nat
  /\ Depth \in Nat
\* Documents are valid: every value is in one that may own it, at a site that admits it.
ASSUME DocumentsAssumption ==
  \A d \in Documents :
    /\ IsFiniteSet(DOMAIN d) /\ DOMAIN d \subseteq BoundedSeq(Slots, Depth) \ {<<>>}
    /\ \A l \in DOMAIN d :
         /\ d[l] \in Families /\ \E i \in DOMAIN Arms[SiteOf(l)] : Arms[SiteOf(l)][i] = d[l]
         /\ Len(l) > 1 => Front(l) \in DOMAIN d

VARIABLES
  target,      \* the label asked for
  at,          \* the label the root family has reached
  phase,       \* what is being done
  stage,       \* where in the loop over the edges
  payload,     \* payload[l]: the value at location l
  selections,  \* what is known of the occurrences
  before,      \* the selections when they began to be reconciled
  todo,        \* groups of selections that are not reconciled yet
  replaced,    \* selections whose value a callback replaced with a model instance
  edits        \* how much the current callback has done

vars == <<target, at, phase, stage, payload, selections, before, todo, replaced, edits>>

\* An object: the n-th that a callback created at place l, or, when n is 0, the one that
\* was there when identities were last refreshed.
Object(l, n) == [place |-> l, nth |-> n]
NoObject == Object(<<>>, 0)
Value(f, a, o, instance) == [family |-> f, label |-> a, id |-> o, instance |-> instance]
Selection(f, a, l, o) == [family |-> f, label |-> a, location |-> l, id |-> o]

Locations == BoundedSeq(Slots, Depth)
Objects == [place : Locations, nth : 0 .. MaxEdits]

\* Types; values are within values of the payload, and labels exist (_runtime_decorators.py:71-79).
TypeOK ==
  /\ target \in Labels /\ at \in Labels
  /\ phase \in {"idle", "convert", "reconcile", "callback", "project", "done", "refused"}
  /\ stage \in {"edge", "called", "last"}
  /\ DOMAIN payload \subseteq Locations \ {<<>>}
  /\ \A l \in DOMAIN payload :
       /\ payload[l] \in [family : Families \cup {Spoiled}, label : Labels,
                          id : Objects, instance : BOOLEAN]
       /\ Len(l) > 1 => Front(l) \in DOMAIN payload
  /\ selections \in Seq([family : Families, label : Labels, location : Locations, id : Objects])
  /\ replaced \subseteq DOMAIN before
  /\ edits \in 0 .. MaxEdits

Init ==
  /\ target = Size /\ at = Size
  /\ phase = "idle" /\ stage = "last"
  /\ payload = <<>> /\ selections = <<>>
  /\ before = <<>> /\ todo = {} /\ replaced = {}
  /\ edits = 0

-----------------------------------------------------------------------------
(* Payloads. *)

Arm(s) == ToSet(Arms[s])
Subtree(p, l) == {m \in DOMAIN p : IsPrefix(l, m)}
Under(m, l) == SubSeq(m, Len(l) + 1, Len(m))

\* The values at and below l, by their places relative to l.
Branch(p, l) == [r \in {Under(m, l) : m \in Subtree(p, l)} |-> p[l \o r]]

\* p with branch b at l.
Grafted(p, l, b) ==
  [m \in (DOMAIN p \ Subtree(p, l)) \cup {l \o r : r \in DOMAIN b} |->
     IF IsPrefix(l, m) THEN b[Under(m, l)] ELSE p[m]]

Swapped(p, l, m) == Grafted(Grafted(p, l, Branch(p, m)), m, Branch(p, l))

\* p without the value at l; the items after it in a list move up.
Without(p, l) ==
  LET n == Len(l)
      Later(m) ==
        /\ Kind[SiteOf(l)] = "list"
        /\ Len(m) >= n /\ Front(SubSeq(m, 1, n)) = Front(l)
        /\ m[n][1] = l[n][1] /\ m[n][2] > l[n][2]
      Up(m) == IF Later(m) THEN [m EXCEPT ![n][2] = @ - 1] ELSE m
      rest == DOMAIN p \ Subtree(p, l)
  IN  [m \in {Up(x) : x \in rest} |-> p[CHOOSE x \in rest : Up(x) = m]]

FamilyAt(p, l) == IF l = <<>> THEN Root ELSE p[l].family

\* Places where a value can be added: the end of a list, any unused key of a mapping.
Free(p) ==
  UNION {{l \in {Append(o, slot) : slot \in SitesOf(FamilyAt(p, o)) \X (1 .. MaxItems)} :
            /\ l \notin DOMAIN p
            /\ Kind[SiteOf(l)] = "list" =>
                 \A k \in 1 .. KeyOf(l) - 1 : Append(o, <<SiteOf(l), k>>) \in DOMAIN p} :
         o \in DOMAIN p \cup {<<>>}}

\* An object created at l.
Fresh(l) ==
  LET used == {payload[m].id : m \in DOMAIN payload} IN
  Object(l, CHOOSE n \in 1 .. MaxEdits :
              Object(l, n) \notin used /\ \A k \in 1 .. n - 1 : Object(l, k) \in used)

\* New values at l: a model instance of family f, with one instance of kids[s] at each
\* site s it declares, or a mapping.
Instance(f, l, kids) ==
  [r \in {<<>>} \cup {<<<<s, 1>>>> : s \in SitesOf(f)} |->
     Value(IF r = <<>> THEN f ELSE kids[r[1][1]], Size, Fresh(l \o r), TRUE)]
Mapping(f, a, l) == [r \in {<<>>} |-> Value(f, a, Fresh(l), FALSE)]

-----------------------------------------------------------------------------
(* Selection and conversion. *)

\* The elements of S in order, where upto[x] are x and those before x.
Listed(S, upto) == [n \in 1 .. Cardinality(S) |-> CHOOSE x \in S : Cardinality(upto[x]) = n]
Ascending(S) == Listed(S, [i \in S |-> {j \in S : j <= i}])
ByKey(S) == Listed(S, [l \in S |-> {m \in S : KeyOf(m) <= KeyOf(l)}])

\* The order in which selections are made: sites, their families, items, and the
\* occurrences within each.
Trail(p, l) ==
  [n \in 1 .. Len(l) |->
    LET family == p[SubSeq(l, 1, n)].family
        s == l[n][1]
    IN  <<s, CHOOSE i \in DOMAIN Arms[s] : Arms[s][i] = family, l[n][2]>>]
Less(x, y) == \E n \in DOMAIN x : x[n] < y[n] /\ \A m \in 1 .. n - 1 : x[m] = y[m]
Precedes(a, b) ==
  \/ IsStrictPrefix(a, b)
  \/ \E n \in DOMAIN a \cap DOMAIN b :
       Less(a[n], b[n]) /\ \A m \in 1 .. n - 1 : a[m] = b[m]

Occurrences(p) ==
  {l \in DOMAIN p : \A n \in 1 .. Len(l) : p[SubSeq(l, 1, n)].family \in Arm(l[n][1])}

\* _select_decorator_routes.
Selected(p) ==
  LET all == Occurrences(p)
      order == Listed(all, [l \in all |->
                              {m \in all : m = l \/ Precedes(Trail(p, m), Trail(p, l))}])
  IN  [i \in DOMAIN order |->
         Selection(p[order[i]].family, p[order[i]].label, order[i], p[order[i]].id)]

SelectedAt(l) == {i \in DOMAIN selections : selections[i].location = l}

\* A value converted by the family of a selection, from the label of the selection.
Converted(v, x, a) ==
  IF v.family = x.family /\ v.label = x.label
  THEN [v EXCEPT !.label = a, !.instance = FALSE]
  ELSE [v EXCEPT !.family = Spoiled, !.label = a, !.instance = FALSE]

ConvertedPayload(a) ==
  [l \in DOMAIN payload |->
     IF \E i \in SelectedAt(l) : selections[i].label # a
     THEN Converted(payload[l], selections[CHOOSE i \in SelectedAt(l) : TRUE], a)
     ELSE payload[l]]

\* _refresh_decorator_selection_identities: every object is known by where it is now.
Refreshed(p) == [l \in DOMAIN p |-> [p[l] EXCEPT !.id = Object(l, 0)]]

\* What the callbacks of the embedded owners that are converted may make of p.
OwnerOutcomes(p, owners) ==
  LET kids == {l \in DOMAIN p : Len(l) > 1 /\ Front(l) \in owners} IN
  {p}
  \cup (IF "drop" \in OwnerEdits THEN {Without(p, l) : l \in kids} ELSE {})
  \cup (IF "swap" \in OwnerEdits
        THEN {Swapped(p, x[1], x[2]) : x \in
                {y \in kids \X kids : Front(y[1]) = Front(y[2]) /\ SiteOf(y[1]) = SiteOf(y[2])}}
        ELSE {})

\* Mutant of Ahead: the edges are taken upwards whatever is asked for.
AheadUp == at + 1

Ahead == IF at < target THEN at + 1 ELSE at - 1
Goal == IF stage = "last" THEN target ELSE Ahead

-----------------------------------------------------------------------------
(* Reconciliation. *)

\* Selections are reconciled by group: those at one site of one owner.
GroupOf(x) == [owner |-> Front(x.location), site |-> SiteOf(x.location)]
Groups(xs) == {GroupOf(xs[i]) : i \in DOMAIN xs}
OwnerOf(i) == {j \in DOMAIN before : before[j].location = Front(before[i].location)}

\* Is an owner, direct or not, of occurrence i replaced?
HasReplacedAncestor(i) ==
  \E j \in replaced : IsStrictPrefix(before[j].location, before[i].location)

Previous(g) == {i \in DOMAIN before : GroupOf(before[i]) = g}

\* Where the owner of group g is now.
OwnerNow(g) ==
  IF g.owner = <<>> THEN <<>>
  ELSE selections[CHOOSE j \in DOMAIN before : before[j].location = g.owner].location

\* The mappings and models at the site (_walk_decorator_payload_candidates).
Candidates(g) == {l \in DOMAIN payload : Front(l) = OwnerNow(g) /\ SiteOf(l) = g.site}

Identified(i, l) == before[i].id # NoObject /\ payload[l].id = before[i].id

\* Mutant of Moved: a mapping may not change its place at all.
MovedAtAll(g) ==
  \E l \in Candidates(g), i \in DOMAIN before :
    Identified(i, l) /\ before[i].location # l

\* Mutant of Moved: dispatch sites are not compared.
MovedNever(g) == FALSE

Moved(g) ==
  \E l \in Candidates(g), i \in DOMAIN before :
    Identified(i, l) /\ GroupOf(before[i]) # g
TooFew(g) == Cardinality(Candidates(g)) < Cardinality(Previous(g))
Reused(g) ==
  \E i \in Previous(g), l, m \in Candidates(g) :
    l # m /\ Identified(i, l) /\ Identified(i, m)

\* First, identity: the same object is the same occurrence.
Claims(g) == {c \in Previous(g) \X Candidates(g) : Identified(c[1], c[2])}
Unclaimed(g) == {l \in Candidates(g) : \A c \in Claims(g) : c[2] # l}
Available(g) == {i \in Previous(g) : \A c \in Claims(g) : c[1] # i}

\* Second, model instances take the place of what is not found: of what was at the same
\* location, or else of the first one left.
Least(S) == CHOOSE i \in S : \A j \in S : i <= j
Instances(g) ==
  LET all == ByKey({l \in Unclaimed(g) : payload[l].instance})
      n == Cardinality(Available(g))
  IN  IF Len(all) > n THEN SubSeq(all, 1, n) ELSE all
NoUniqueFamily(g) == \E l \in ToSet(Instances(g)) : payload[l].family \notin Arm(g.site)
Taker(g, taken, l) ==
  LET left == {i \in Available(g) : \A c \in taken : c[1] # i}
      here == {i \in left : before[i].location = l}
  IN  Least(IF here # {} THEN here ELSE left)
Replacements(g) ==
  LET order == Instances(g)
      taken[n \in Nat] ==
        IF n = 0 THEN {}
        ELSE taken[n - 1] \cup {<<Taker(g, taken[n - 1], order[n]), order[n]>>}
  IN  taken[Len(order)]

RemainingPrevious(g) == {i \in Available(g) : \A c \in Replacements(g) : c[1] # i}
RemainingCandidates(g) == {l \in Unclaimed(g) : \A c \in Replacements(g) : c[2] # l}
ExtraUntyped(g) ==
  /\ RemainingPrevious(g) = {}
  /\ \E l \in RemainingCandidates(g) :
       ~(payload[l].instance /\ payload[l].family \in Arm(g.site))

\* Mutant of Anchored: a list index holds on to its occurrence like a key.
AnchoredAnywhere(g) ==
  \A l \in RemainingCandidates(g) :
    \E i \in RemainingPrevious(g) : selections[i].location = l

\* Third, mapping keys hold on to their occurrences; fourth, mappings are told apart by
\* position where that can only mean one family.
Anchored(g) ==
  /\ Kind[g.site] = "mapping"
  /\ \A l \in RemainingCandidates(g) :
       \E i \in RemainingPrevious(g) : selections[i].location = l
OneFamily(g) ==
  /\ Cardinality(Arm(g.site)) = 1
  /\ Cardinality(RemainingCandidates(g)) = Cardinality(RemainingPrevious(g))
Rebound(g) ==
  IF Anchored(g)
  THEN {c \in RemainingPrevious(g) \X RemainingCandidates(g) :
          selections[c[1]].location = c[2]}
  ELSE {<<Ascending(RemainingPrevious(g))[n], ByKey(RemainingCandidates(g))[n]>> :
          n \in 1 .. Cardinality(RemainingPrevious(g))}
Ambiguous(g) == RemainingPrevious(g) # {} /\ ~Anchored(g) /\ ~OneFamily(g)

Refused(g) ==
  \/ OwnerNow(g) \notin DOMAIN payload \cup {<<>>}
  \/ Moved(g) \/ TooFew(g) \/ Reused(g)
  \/ NoUniqueFamily(g) \/ ExtraUntyped(g) \/ Ambiguous(g)

\* Mutant of Replacement: a replacement takes over the label of what it replaces.
ReplacementKeepingLabel(i, l) ==
  Selection(payload[l].family, selections[i].label, l, payload[l].id)

\* The selection of an instance that took the place of occurrence i.
Replacement(i, l) == Selection(payload[l].family, Size, l, payload[l].id)

\* The selections after group g is reconciled.
Reconciled(g) ==
  LET found == Claims(g) \cup Rebound(g) IN
  [i \in DOMAIN selections |->
     IF \E c \in found : c[1] = i
     THEN LET l == (CHOOSE c \in found : c[1] = i)[2]
          IN  [selections[i] EXCEPT !.location = l, !.id = payload[l].id]
     ELSE IF \E c \in Replacements(g) : c[1] = i
     THEN LET l == (CHOOSE c \in Replacements(g) : c[1] = i)[2]
          IN  Replacement(i, l)
     ELSE selections[i]]

NextGroup ==
  LET first == {g \in todo : \A h \in todo : Len(g.owner) <= Len(h.owner)}
      Earliest(g) == Least({i \in DOMAIN before : GroupOf(before[i]) = g})
  IN  CHOOSE g \in first : \A h \in first : Earliest(g) <= Earliest(h)

\* Selections within values that were replaced are given up.
Retained ==
  LET order == Ascending({i \in DOMAIN selections : ~HasReplacedAncestor(i)})
  IN  [n \in DOMAIN order |-> selections[order[n]]]

\* _validate_unique_decorator_selection_identities.
SharedIdentity(xs) ==
  \E i, j \in DOMAIN xs :
    xs[i].id = xs[j].id /\ xs[i].id # NoObject /\ xs[i].location # xs[j].location

\* _discover_typed_decorator_selections: instances at places that no selection holds.
Held(xs, l) == \E i \in DOMAIN xs : xs[i].location = l
Typed(l) == payload[l].instance /\ payload[l].family \in Arm(SiteOf(l))
Visited(xs, l) ==
  \A n \in 1 .. Len(l) : Held(xs, SubSeq(l, 1, n)) \/ Typed(SubSeq(l, 1, n))
\* Mutant of Introduced: only places of the root are searched.
IntroducedAtRoot(xs) == {l \in DOMAIN payload : Len(l) = 1 /\ ~Held(xs, l) /\ Typed(l)}

Introduced(xs) == {l \in DOMAIN payload : ~Held(xs, l) /\ Visited(xs, l)}
Intruding(xs) ==
  {l \in DOMAIN payload :
     ~Held(xs, l) /\ Visited(xs, Front(l)) /\ ~payload[l].instance}
WithIntroduced(xs) ==
  LET all == Introduced(xs)
      order == Listed(all, [l \in all |-> {m \in all : m = l \/ Precedes(m, l)}])
  IN  xs \o [n \in DOMAIN order |->
               Selection(payload[order[n]].family, Size, order[n], payload[order[n]].id)]

-----------------------------------------------------------------------------
(* Actions. *)

\* The loop over the edges goes on from label a, with goal as the label asked for.
GoOn(a, goal) ==
  /\ at' = a
  /\ phase' = "convert"
  /\ stage' = IF a = goal THEN "last" ELSE "edge"

Refuse ==
  /\ phase' = "refused"
  /\ UNCHANGED <<target, at, stage, payload, selections, before, todo, replaced, edits>>

\* validate, from any label to the current one, or dump, the other way: the source is
\* validated, and its occurrences are selected and given canonical names.
Begin(d, from, to) ==
  /\ phase \in {"idle", "done", "refused"}
  /\ from = Size \/ to = Size
  /\ target' = to
  /\ GoOn(from, to)
  /\ payload' = [l \in DOMAIN d |-> Value(d[l], from, Object(l, 0), FALSE)]
  /\ selections' = Selected(payload')
  /\ before' = <<>> /\ todo' = {} /\ replaced' = {}
  /\ edits' = 0

\* What is returned is reconciled with the selections xs.
Reconcile(xs) ==
  /\ phase' = "reconcile"
  /\ before' = xs
  /\ todo' = Groups(xs)
  /\ replaced' = {}

\* _apply_selected_decorator_migrations: every occurrence is converted to the label that
\* the next edge needs, or, after the last edge, to the label asked for.  An instance
\* must be one of the family that is selected.
Convert ==
  /\ phase = "convert"
  /\ LET due == {i \in DOMAIN selections :
                   selections[i].label # Goal /\ selections[i].location \in DOMAIN payload}
     IN  IF \E i \in due : LET v == payload[selections[i].location] IN
                             v.instance /\ v.family # selections[i].family
         THEN Refuse
         ELSE /\ \E p \in OwnerOutcomes(ConvertedPayload(Goal),
                                        {selections[i].location : i \in due}) :
                   payload' = Refreshed(p)
              /\ selections' =
                   [i \in DOMAIN selections |->
                      LET x == selections[i] IN
                      Selection(x.family, Goal, x.location,
                                IF x.location \in DOMAIN payload' THEN Object(x.location, 0)
                                                                  ELSE NoObject)]
              /\ Reconcile(selections')
              /\ UNCHANGED <<target, at, stage, edits>>

\* One group of selections is reconciled with what is found at its site.
ReconcileGroup ==
  /\ phase = "reconcile"
  /\ todo # {}
  /\ LET g == NextGroup IN
     IF \E i \in Previous(g) : HasReplacedAncestor(i)
     THEN /\ todo' = todo \ {g}
          /\ UNCHANGED <<target, at, phase, stage, payload, selections, before, replaced, edits>>
     ELSE IF Refused(g) THEN Refuse
     ELSE /\ todo' = todo \ {g}
          /\ selections' = Reconciled(g)
          /\ replaced' = replaced \cup {c[1] : c \in Replacements(g)}
          /\ UNCHANGED <<target, at, phase, stage, payload, before, edits>>

\* All groups are reconciled.  After a conversion, the callback of the edge is next.
SettleConverted ==
  /\ phase = "reconcile" /\ todo = {} /\ stage # "called"
  /\ IF SharedIdentity(Retained) THEN Refuse
     ELSE /\ selections' = Retained
          /\ before' = <<>> /\ replaced' = {} /\ edits' = 0
          /\ CASE stage = "last" ->
                    phase' = "project" /\ UNCHANGED <<at, stage>>
               [] stage = "edge" /\ <<at, Ahead>> \in Callbacks ->
                    phase' = "callback" /\ UNCHANGED <<at, stage>>
               [] OTHER -> GoOn(Ahead, target)
          /\ UNCHANGED <<target, payload, todo>>

\* After a callback, what it introduced is selected too.
SettleCalled ==
  /\ phase = "reconcile" /\ todo = {} /\ stage = "called"
  /\ LET xs == WithIntroduced(Retained) IN
     IF SharedIdentity(xs) \/ Intruding(Retained) # {} THEN Refuse
     ELSE /\ selections' = xs
          /\ before' = <<>> /\ replaced' = {} /\ edits' = 0
          /\ GoOn(Ahead, target)
          /\ UNCHANGED <<target, payload, todo>>

\* The last projection, by the families of the selections, and the validation of the
\* result by the current or wire model.
Project ==
  /\ phase = "project"
  /\ LET p == [l \in DOMAIN payload |->
                 IF SelectedAt(l) = {} THEN payload[l]
                 ELSE Converted(payload[l], selections[CHOOSE i \in SelectedAt(l) : TRUE], target)]
     IN  IF \E l \in DOMAIN p : p[l].family \notin Arm(SiteOf(l)) \cup {Spoiled} THEN Refuse
         ELSE /\ payload' = p
              /\ phase' = "done"
              /\ UNCHANGED <<target, at, stage, selections, before, todo, replaced, edits>>

-----------------------------------------------------------------------------
(* What a callback of the root family does, one thing at a time. *)

\* A mapping that is not an object the callback was given follows the family that its
\* key stands for, or else a family of its site.  Instances that do not belong at their
\* site are put at sites of the root only, and hold no mappings.
Understood(p) ==
  \A l \in DOMAIN p :
    /\ p[l].id.nth # 0 =>
         /\ p[l].family \in Arm(SiteOf(l)) \/ (p[l].instance /\ Len(l) = 1)
         /\ Kind[SiteOf(l)] = "mapping" /\ ~p[l].instance =>
              \A i \in SelectedAt(l) : p[l].family = selections[i].family
    /\ p[l].instance /\ p[l].family \notin Arm(SiteOf(l)) =>
         \A m \in Subtree(p, l) : p[m].instance

Edit(p) ==
  /\ phase = "callback"
  /\ edits < MaxEdits
  /\ DOMAIN p \subseteq Locations
  /\ Understood(p)
  /\ payload' = p
  /\ edits' = edits + 1
  /\ UNCHANGED <<target, at, phase, stage, selections, before, todo, replaced>>

\* Two values change places.
Swap(l, m) ==
  /\ ~IsPrefix(l, m) /\ ~IsPrefix(m, l)
  /\ Edit(Swapped(payload, l, m))

\* A value goes elsewhere, or is put there as well.
Relocate(l) ==
  LET p == Without(payload, l) IN
  \E m \in Free(p) : Edit(Grafted(p, m, Branch(payload, l)))
Duplicate(l) ==
  \E m \in Free(payload) :
    ~IsPrefix(l, m) /\ Edit(Grafted(payload, m, Branch(payload, l)))

\* A mapping is copied; what is in it is not.
Copy(l) ==
  ~payload[l].instance /\ Edit([payload EXCEPT ![l].id = Fresh(l)])

Drop(l) == Edit(Without(payload, l))

\* A model instance, or a mapping, is put at l, in place of what is there.
PutInstance(f, l) ==
  \E kids \in [SitesOf(f) -> {k \in Families : SitesOf(k) = {}}] :
    /\ \A s \in SitesOf(f) : kids[s] \in Arm(s)
    /\ Edit(Grafted(payload, l, Instance(f, l, kids)))
PutMapping(f, l) ==
  /\ f \in Arm(SiteOf(l))
  /\ Edit(Grafted(payload, l, Mapping(f, Ahead, l)))

Return ==
  /\ phase = "callback"
  /\ stage' = "called"
  /\ Reconcile(selections)
  /\ UNCHANGED <<target, at, payload, selections, edits>>

CallbackStep ==
  \/ \E l, m \in DOMAIN payload : Swap(l, m)
  \/ \E l \in DOMAIN payload :
       \/ Relocate(l) \/ Duplicate(l)
       \/ Copy(l) \/ Drop(l)
  \/ \E l \in DOMAIN payload \cup Free(payload) :
       \E f \in Families \ {Root} : PutInstance(f, l) \/ PutMapping(f, l)
  \/ Return

Next ==
  \/ \E d \in Documents, from, to \in Labels : Begin(d, from, to)
  \/ Convert
  \/ ReconcileGroup
  \/ SettleConverted
  \/ SettleCalled
  \/ Project
  \/ CallbackStep

Spec == Init /\ [][Next]_vars

-----------------------------------------------------------------------------
(* Properties. *)

\* Neither the payload nor the selections are being changed: between the steps of the
\* loops over the edges (_runtime.py:194-232, 347-394).
Settled ==
  \/ phase \in {"convert", "project"}
  \/ phase = "callback" /\ edits = 0

\* What a selection says of its value is so, its family, its label and which object it
\* is, and no value has two selections: whatever callbacks moved, copied or replaced, a
\* branch of a union is recognised or the conversion is refused, never guessed
\* (_runtime_decorators.py:777-1035).
RightlyBound ==
  Settled =>
    /\ \A i \in DOMAIN selections :
         LET x == selections[i] IN
         /\ x.location \in DOMAIN payload
         /\ payload[x.location].family = x.family
         /\ payload[x.location].label = x.label
         /\ payload[x.location].id = x.id
    /\ \A i, j \in DOMAIN selections :
         selections[i].location = selections[j].location => i = j

\* Every occurrence of a decorated family is selected, also those that a callback
\* introduced, at any depth and within a replaced owner (_runtime_decorators.py:1068-1174):
\* one that is overlooked keeps its label for ever.
NoneOverlooked ==
  Settled => \A l \in Occurrences(payload) : SelectedAt(l) # {}

\* What a callback returned is not accepted if one object is in two places, or if a
\* mapping that was known is now at another site or in another owner
\* (_runtime_decorators.py:849-857, 885-890, 1050-1065).
Accepted == phase = "reconcile" /\ phase' \notin {"reconcile", "refused"}
KeptApart ==
  [][Accepted =>
       \A l \in Occurrences(payload) :
         /\ \A m \in Occurrences(payload) : payload[m].id = payload[l].id => m = l
         /\ \A i \in DOMAIN before : Identified(i, l) /\ ~payload[l].instance =>
              /\ SiteOf(before[i].location) = SiteOf(l)
              /\ \A j \in OwnerOf(i) : selections[j].location = Front(l)]_vars

\* A callback that only changes the order of values at their sites is not refused, nor is
\* one that changes nothing: "A parent transition may reorder surviving child mappings
\* within one dispatch site because their identities move with them"
\* (docs/guide/generated-wire-contracts.md:182-184, _runtime_decorators.py:876-900).
OnlyReordered ==
  /\ {payload[l].id : l \in DOMAIN payload} = {before[i].id : i \in DOMAIN before}
  /\ \A l \in DOMAIN payload :
       /\ l \in Occurrences(payload)
       /\ payload[l].id.nth = 0
       /\ SiteOf(payload[l].id.place) = SiteOf(l)
  /\ \A l \in DOMAIN payload :
       Front(payload[l].id.place) = IF Front(l) = <<>> THEN <<>> ELSE payload[Front(l)].id.place
  /\ \A l, m \in DOMAIN payload : payload[l].id = payload[m].id => l = m
ReordersAccepted == phase = "refused" => ~OnlyReordered

\* Whatever callbacks did, a conversion that ends has converted every value, by the
\* family it follows, to the label asked for (_runtime.py:812-930): in particular an
\* instance that a callback put into the payload is taken for current, as it is.
Delivered ==
  phase = "done" =>
    \A l \in DOMAIN payload : payload[l].family # Spoiled /\ payload[l].label = target
=============================================================================
