--------------------------- MODULE ConversionProofs ---------------------------
(***************************************************************************)
(* Proofs about ConversionRuntime, for every tree of embedded families and *)
(* every declaration of labels, transitions and projections: what loops    *)
(* convert, what plans promise, and that the loops perform their plans.    *)
(***************************************************************************)
EXTENDS ConversionRuntime, SequenceTheorems, WellFoundedInduction, TLAPS

\* The route of a loop can be walked without passing an unavailable downgrade.
Walkable(l) ==
  \A move \in Moves(RouteOf(l.site, l.from, l.to)) :
    /\ \A n \in NestedRoutes(l.site, move) : Semantics[n] # "unavailable"
    /\ l.from > l.to => DowngradeSemantics(l.site, move[2]) # "unavailable"

\* The loops below the top are waiting for the declaration they descended into, and
\* every loop has a route that can be walked.
Sound(loops) ==
  /\ loops \in Seq(Loop)
  /\ \A i \in 1 .. Len(loops) - 1 : AtKids(loops[i])
  /\ \A i \in DOMAIN loops : Walkable(loops[i])

\* The inductive invariant.
Inv == TypeOK /\ Sound(stack)

-----------------------------------------------------------------------------
(* Declarations. *)

\* A label map takes labels to labels.
LEMMA MapType ==
  ASSUME NEW s \in Sites, NEW k \in KidsOf(s), NEW a \in Labels(s)
  PROVE  k \in Sites /\ LabelMap[k][a] \in Labels(k)
<1>1. k \in Sites
  BY SitesAssumption DEF KidsOf
<1>2. LabelMap[k] \in [Labels(s) -> Labels(k)]
  BY SitesAssumption
<1>3. QED
  BY <1>1, <1>2

\* The semantics of a route are the worst of its risks.
LEMMA SemanticsOf ==
  ASSUME NEW r \in Route
  PROVE  Semantics[r] = NestedRouteSemantics(Semantics, r)
  BY SemanticsAssumption

\* The fields of a route.
LEMMA RouteFields ==
  ASSUME NEW s \in Sites, NEW a \in Labels(s), NEW b \in Labels(s)
  PROVE  /\ RouteOf(s, a, b) \in Route
         /\ RouteOf(s, a, b).site = s
         /\ RouteOf(s, a, b).from = a
         /\ RouteOf(s, a, b).to = b
<1>1. RouteOf(s, a, b) \in [site : {s}, from : Labels(s), to : Labels(s)]
  BY DEF RouteOf
<1>2. QED
  BY <1>1 DEF RouteOf, Route

\* Whatever risk is among others, the worst of them is as bad.
LEMMA WorstUnavailable ==
  ASSUME NEW risks, NEW default, Worst(risks, default) # "unavailable"
  PROVE  "unavailable" \notin risks
  BY DEF Worst

\* A route whose semantics are not unavailable can be walked: neither its own
\* downgrades nor the routes of embedded families it moves are unavailable.
LEMMA AvailableRoute ==
  ASSUME NEW l, l.site \in Sites, l.from \in Labels(l.site), l.to \in Labels(l.site),
         Semantics[RouteOf(l.site, l.from, l.to)] # "unavailable"
  PROVE  Walkable(l)
<1> DEFINE r == RouteOf(l.site, l.from, l.to)
<1>1. /\ r \in Route
      /\ r.site = l.site /\ r.from = l.from /\ r.to = l.to
  BY RouteFields
<1> HIDE DEF r
<1>2. "unavailable" \notin OwnRisks(r) \cup NestedRouteRisks(Semantics, r)
  BY <1>1, SemanticsOf, WorstUnavailable DEF NestedRouteSemantics, r
<1>3. \A move \in Moves(r) : \A n \in NestedRoutes(l.site, move) : Semantics[n] # "unavailable"
  BY <1>1, <1>2 DEF NestedRouteRisks
<1>4. ASSUME l.from > l.to
      PROVE  \A move \in Moves(r) : DowngradeSemantics(l.site, move[2]) # "unavailable"
  <2>1. ~(r.from < r.to)
    BY <1>1, <1>4, SitesAssumption DEF Labels
  <2>2. {DowngradeSemantics(r.site, move[2]) : move \in Moves(r)} \subseteq OwnRisks(r)
    BY <2>1 DEF OwnRisks
  <2>3. QED
    BY <1>1, <1>2, <2>2
<1>5. QED
  BY <1>3, <1>4 DEF Walkable, r

\* A route between equal labels moves nothing.
LEMMA EmptyRoute ==
  ASSUME NEW l, l.site \in Sites, l.from \in Labels(l.site), l.to = l.from
  PROVE  Walkable(l)
<1>1. l.from \in Nat
  BY SitesAssumption DEF Labels
<1>2. Moves(RouteOf(l.site, l.from, l.to)) = {}
  BY <1>1 DEF Moves, RouteOf
<1>3. QED
  BY <1>2 DEF Walkable

\* A request that is not blocked starts a loop that can be walked.
LEMMA UnblockedRequest ==
  ASSUME NEW request0 \in Request, ~Blocked(request0), NEW l,
         l.site = Root, l.from = Whole(request0).from, l.to = Whole(request0).to
  PROVE  Walkable(l)
<1> DEFINE r == Whole(request0)
<1>1. Size[Root] \in Labels(Root) /\ request0.label \in Labels(Root)
  BY SitesAssumption DEF Labels, Request
<1>2. /\ request0.op \in {"validate", "render"}
      /\ r = RouteOf(Root, l.from, l.to)
      /\ r.site = Root
      /\ request0.op = "validate" => ~(l.from > l.to)
  BY <1>1, SitesAssumption DEF Whole, RouteOf, Request, Labels
<1>3. Root \in Sites /\ l.from \in Nat /\ l.to \in Nat
  BY <1>1, SitesAssumption DEF Whole, RouteOf, Labels
<1>4. "unavailable" \notin NestedRouteRisks(Semantics, r)
  BY DEF Blocked, StepSemantics, NestedStepSemantics
<1>5. \A move \in Moves(r) : \A n \in NestedRoutes(Root, move) : Semantics[n] # "unavailable"
  BY <1>2, <1>4 DEF NestedRouteRisks
<1>6. ASSUME l.from > l.to
      PROVE  \A move \in Moves(r) : DowngradeSemantics(Root, move[2]) # "unavailable"
  <2>1. request0.op = "render"
    BY <1>2, <1>6
  <2>2. "unavailable" \notin OwnRisks(r)
    BY <2>1 DEF Blocked, StepSemantics
  <2>3. r.from = l.from /\ r.to = l.to /\ ~(r.from < r.to)
    BY <1>3, <1>6
  <2>4. {DowngradeSemantics(r.site, move[2]) : move \in Moves(r)} \subseteq OwnRisks(r)
    BY <2>3 DEF OwnRisks
  <2>5. QED
    BY <1>2, <2>2, <2>4
<1>7. QED
  BY <1>2, <1>5, <1>6 DEF Walkable

-----------------------------------------------------------------------------
(* Loops. *)

\* What a loop's fields are.
LEMMA LoopFields ==
  ASSUME NEW l \in Loop
  PROVE  /\ l.site \in Sites
         /\ l.from \in Labels(l.site) /\ l.to \in Labels(l.site)
         /\ l.from \in Nat /\ l.to \in Nat /\ l.pos \in Nat /\ l.next \in Nat
         /\ l.canonical \in BOOLEAN
         /\ l.pos \in Between(l.from, l.to)
         /\ l.next \in 1 .. Len(Kids[l.site]) + 1
         /\ l.pos \in Labels(l.site)
<1>1. l \in [site : Sites, from : Nat, to : Nat, pos : Nat, next : Nat, canonical : BOOLEAN]
  BY DEF Loop
<1>2. /\ l.from \in Labels(l.site) /\ l.to \in Labels(l.site)
      /\ l.pos \in Between(l.from, l.to)
      /\ l.next \in 1 .. Len(Kids[l.site]) + 1
  BY DEF Loop
<1>3. l.site \in Sites /\ l.from \in Nat /\ l.to \in Nat /\ l.pos \in Nat /\ l.next \in Nat
      /\ l.canonical \in BOOLEAN
  BY <1>1
<1>4. l.pos \in Labels(l.site)
  BY <1>2, <1>3, SitesAssumption DEF Labels, Between
<1>5. QED
  BY <1>2, <1>3, <1>4

\* A record with the fields of a loop is a loop.
LEMMA LoopIntro ==
  ASSUME NEW s \in Sites, NEW a \in Labels(s), NEW b \in Labels(s), NEW p \in Between(a, b),
         NEW n \in 1 .. Len(Kids[s]) + 1, NEW c \in BOOLEAN
  PROVE  [site |-> s, from |-> a, to |-> b, pos |-> p, next |-> n, canonical |-> c] \in Loop
<1>1. a \in Nat /\ b \in Nat /\ p \in Nat
  BY SitesAssumption DEF Labels, Between
<1>2. Len(Kids[s]) \in Nat
  BY SitesAssumption, LenProperties
<1>3. n \in Nat
  BY <1>2
<1>4. QED
  BY <1>1, <1>3 DEF Loop

\* A loop that begins is a loop.
LEMMA NewLoopType ==
  ASSUME NEW s \in Sites, NEW a \in Labels(s), NEW b \in Labels(s), NEW c \in BOOLEAN
  PROVE  NewLoop(s, a, b, c) \in Loop
<1>1. a \in Between(a, b)
  BY SitesAssumption DEF Labels, Between
<1>2. 1 \in 1 .. Len(Kids[s]) + 1
  BY SitesAssumption, LenProperties
<1>3. QED
  BY <1>1, <1>2, LoopIntro DEF NewLoop, LoopAt

\* The next label of a loop is one of its route.
LEMMA AheadType ==
  ASSUME NEW l \in Loop
  PROVE  /\ Ahead(l) \in Labels(l.site)
         /\ Ahead(l) \in Between(l.from, l.to)
<1>1. /\ l.site \in Sites
      /\ l.from \in Labels(l.site) /\ l.to \in Labels(l.site)
      /\ l.from \in Nat /\ l.to \in Nat /\ l.pos \in Nat
      /\ l.pos \in Between(l.from, l.to)
  BY LoopFields
<1>2. Ahead(l) \in Between(l.from, l.to)
  BY <1>1 DEF Ahead, Arrived, Between
<1>3. QED
  BY <1>1, <1>2, SitesAssumption DEF Between, Labels

\* The move that a loop makes next is one of its route, in the route's direction.
LEMMA AheadMoves ==
  ASSUME NEW l \in Loop, ~Arrived(l)
  PROVE  <<l.pos, Ahead(l)>> \in Moves(RouteOf(l.site, l.from, l.to))
<1> DEFINE r == RouteOf(l.site, l.from, l.to)
<1>1. r.from = l.from /\ r.to = l.to
  BY DEF RouteOf
<1> HIDE DEF r
<1>2. l.from \in Nat /\ l.to \in Nat /\ l.pos \in Nat /\ l.pos \in Between(l.from, l.to)
  BY LoopFields
<1>3. CASE l.from < l.to
  <2>1. l.pos \in l.from .. l.to - 1 /\ Ahead(l) = l.pos + 1
    BY <1>2, <1>3 DEF Ahead, Arrived, Between
  <2>2. QED
    BY <1>1, <1>3, <2>1 DEF Moves, r
<1>4. CASE ~(l.from < l.to)
  <2>1. Ahead(l) \in l.to .. l.from - 1 /\ l.pos = Ahead(l) + 1
    BY <1>2, <1>4 DEF Ahead, Arrived, Between
  <2>2. <<Ahead(l) + 1, Ahead(l)>> \in Moves(r)
    BY <1>1, <1>4, <2>1 DEF Moves
  <2>3. QED
    BY <2>1, <2>2 DEF r
<1>5. QED
  BY <1>3, <1>4

\* The declaration that a loop comes to next names an embedded family of its site.
LEMMA NextKidType ==
  ASSUME NEW l \in Loop, AtKids(l)
  PROVE  NextKid(l) \in KidsOf(l.site) /\ NextKid(l) \in Sites
<1>1. l.site \in Sites /\ l.next \in Nat /\ l.next \in 1 .. Len(Kids[l.site]) + 1
  BY LoopFields
<1>2. Kids[l.site] \in Seq(Sites)
  BY <1>1, SitesAssumption
<1>3. l.next \in DOMAIN Kids[l.site]
  BY <1>1, <1>2, LenProperties DEF AtKids
<1>4. QED
  BY <1>2, <1>3, ElementOfSeq DEF NextKid, KidsOf

\* A loop that is at a declaration can go past it.
LEMMA PassType ==
  ASSUME NEW l \in Loop, AtKids(l)
  PROVE  [l EXCEPT !.next = l.next + 1] \in Loop
<1> DEFINE n == l.next + 1
<1>1. /\ l.site \in Sites
      /\ l.from \in Labels(l.site) /\ l.to \in Labels(l.site)
      /\ l.canonical \in BOOLEAN /\ l.next \in Nat
      /\ l.pos \in Between(l.from, l.to)
      /\ l.next \in 1 .. Len(Kids[l.site]) + 1
  BY LoopFields
<1>2. Len(Kids[l.site]) \in Nat
  BY <1>1, SitesAssumption, LenProperties
<1>3. n \in 1 .. Len(Kids[l.site]) + 1
  BY <1>1, <1>2 DEF AtKids
<1>4. [l EXCEPT !.next = n] =
      [site |-> l.site, from |-> l.from, to |-> l.to, pos |-> l.pos, next |-> n,
       canonical |-> l.canonical]
  BY DEF Loop
<1>5. QED
  BY <1>1, <1>3, <1>4, LoopIntro

\* A loop that has made a move is a loop.
LEMMA AdvanceType ==
  ASSUME NEW l \in Loop
  PROVE  LoopAt(l.site, l.from, l.to, Ahead(l), TRUE) \in Loop
<1> DEFINE p == Ahead(l)
<1>1. /\ l.site \in Sites
      /\ l.from \in Labels(l.site) /\ l.to \in Labels(l.site)
      /\ p \in Between(l.from, l.to)
  BY LoopFields, AheadType
<1>2. 1 \in 1 .. Len(Kids[l.site]) + 1
  BY <1>1, SitesAssumption, LenProperties
<1> HIDE DEF p
<1>3. LoopAt(l.site, l.from, l.to, p, TRUE) \in Loop
  BY <1>1, <1>2, LoopIntro DEF LoopAt
<1>4. QED
  BY <1>3 DEF p

\* Going past a declaration, or along the route, leaves the route alone.
LEMMA SameRoute ==
  ASSUME NEW l, NEW l2, l2.site = l.site, l2.from = l.from, l2.to = l.to, Walkable(l)
  PROVE  Walkable(l2)
  BY DEF Walkable

\* An embedded family that is entered has a route that can be walked, if its owner's can.
LEMMA DescendWalkable ==
  ASSUME NEW l \in Loop, AtKids(l), Walkable(l), NEW c
  PROVE  LET k == NextKid(l)
         IN Walkable(NewLoop(k, LabelMap[k][l.pos], LabelMap[k][Ahead(l)], c))
<1> DEFINE k == NextKid(l)
           a == LabelMap[k][l.pos]
           b == LabelMap[k][Ahead(l)]
           new == NewLoop(k, a, b, c)
<1>1. /\ l.site \in Sites /\ l.pos \in Labels(l.site) /\ Ahead(l) \in Labels(l.site)
      /\ k \in KidsOf(l.site) /\ k \in Sites
  BY LoopFields, AheadType, NextKidType
<1>2. a \in Labels(k) /\ b \in Labels(k)
  BY <1>1, MapType
<1>3. new.site = k /\ new.from = a /\ new.to = b
  BY DEF NewLoop, LoopAt
<1>4. CASE a = b
  <2> HIDE DEF new, a, b, k
  <2>1. QED
    BY <1>1, <1>2, <1>3, <1>4, EmptyRoute DEF new, a, b, k
<1>5. CASE a # b
  <2>1. ~Arrived(l)
    BY <1>5 DEF Ahead
  <2>2. <<l.pos, Ahead(l)>> \in Moves(RouteOf(l.site, l.from, l.to))
    BY <2>1, AheadMoves
  <2>3. RouteOf(k, a, b) \in NestedRoutes(l.site, <<l.pos, Ahead(l)>>)
    BY <1>1, <1>5 DEF NestedRoutes
  <2>4. Semantics[RouteOf(k, a, b)] # "unavailable"
    BY <2>2, <2>3 DEF Walkable
  <2> HIDE DEF new, a, b, k
  <2>5. Walkable(new)
    BY <1>1, <1>2, <1>3, <2>4, AvailableRoute
  <2>6. QED
    BY <2>5 DEF new, a, b, k
<1>6. QED
  BY <1>4, <1>5

-----------------------------------------------------------------------------
(* The stack of loops. *)

\* The top of a sound stack and the stack below it.
LEMMA SoundTop ==
  ASSUME NEW s, Sound(s), s # <<>>
  PROVE  /\ Len(s) \in Nat \ {0} /\ DOMAIN s = 1 .. Len(s) /\ Len(s) \in DOMAIN s
         /\ s[Len(s)] \in Loop
         /\ Walkable(s[Len(s)])
<1>1. s \in Seq(Loop)
  BY DEF Sound
<1>2. Len(s) \in Nat \ {0} /\ DOMAIN s = 1 .. Len(s)
  BY <1>1, EmptySeq, LenProperties
<1>3. Len(s) \in DOMAIN s
  BY <1>2
<1>4. QED
  BY <1>1, <1>2, <1>3, ElementOfSeq DEF Sound

\* The top loop goes on along its own route.
LEMMA SoundReplace ==
  ASSUME NEW s, Sound(s), s # <<>>, NEW l \in Loop, Walkable(l)
  PROVE  Sound([s EXCEPT ![Len(s)] = l]) /\ [s EXCEPT ![Len(s)] = l] # <<>>
<1> DEFINE n == Len(s)
           t == [s EXCEPT ![n] = l]
<1>1. s \in Seq(Loop) /\ n \in Nat \ {0} /\ DOMAIN s = 1 .. n /\ n \in DOMAIN s
  BY SoundTop DEF Sound
<1>2. t \in Seq(Loop) /\ Len(t) = n
  BY <1>1, ExceptSeq
<1>3. DOMAIN t = DOMAIN s /\ t[n] = l /\ \A i \in DOMAIN s : i # n => t[i] = s[i]
  BY <1>1
<1> HIDE DEF t
<1>4. \A i \in 1 .. Len(t) - 1 : AtKids(t[i])
  BY <1>1, <1>2, <1>3 DEF Sound
<1>5. \A i \in DOMAIN t : Walkable(t[i])
  BY <1>3 DEF Sound
<1>6. t # <<>>
  BY <1>1, <1>2, EmptySeq
<1>7. QED
  BY <1>2, <1>4, <1>5, <1>6 DEF Sound, t

\* The top loop, at a declaration, descends into it.
LEMMA SoundPush ==
  ASSUME NEW s, Sound(s), s # <<>>, AtKids(s[Len(s)]), NEW l \in Loop, Walkable(l)
  PROVE  Sound(Append(s, l)) /\ Append(s, l) # <<>>
<1> DEFINE n == Len(s)
           t == Append(s, l)
<1>1. s \in Seq(Loop) /\ n \in Nat \ {0} /\ DOMAIN s = 1 .. n
  BY SoundTop DEF Sound
<1>2. /\ t \in Seq(Loop) /\ Len(t) = n + 1
      /\ \A i \in 1 .. n : t[i] = s[i]
      /\ t[n + 1] = l
  BY <1>1, AppendProperties
<1> HIDE DEF t
<1>3. DOMAIN t = 1 .. n + 1
  BY <1>2, LenProperties
<1>4. \A i \in 1 .. Len(t) - 1 : AtKids(t[i])
  <2> TAKE i \in 1 .. Len(t) - 1
  <2>1. i \in 1 .. n /\ t[i] = s[i]
    BY <1>1, <1>2
  <2> HIDE DEF n
  <2>2. CASE i = n
    <3>1. t[i] = s[Len(s)]
      BY <2>1, <2>2 DEF n
    <3>2. QED
      BY <3>1
  <2>3. CASE i # n
    <3>1. i \in 1 .. n - 1
      BY <1>1, <2>1, <2>3
    <3>2. QED
      BY <2>1, <3>1 DEF Sound, n
  <2>4. QED
    BY <2>2, <2>3
<1>5. \A i \in DOMAIN t : Walkable(t[i])
  <2> TAKE i \in DOMAIN t
  <2>1. i \in 1 .. n \/ i = n + 1
    BY <1>1, <1>3
  <2>2. CASE i \in 1 .. n
    BY <1>1, <1>2, <2>2 DEF Sound
  <2>3. CASE i = n + 1
    BY <1>2, <2>3
  <2>4. QED
    BY <2>1, <2>2, <2>3
<1>6. t # <<>>
  BY <1>1, <1>2, EmptySeq
<1>7. QED
  BY <1>2, <1>4, <1>5, <1>6 DEF Sound, t

\* The top loop returns, and the one below it goes past the declaration.
LEMMA SoundPop ==
  ASSUME NEW s, Sound(s), s # <<>>, Len(s) > 1
  PROVE  LET c == s[Len(s) - 1]
             t == [SubSeq(s, 1, Len(s) - 1) EXCEPT ![Len(s) - 1] = [c EXCEPT !.next = c.next + 1]]
         IN Sound(t) /\ t # <<>>
<1> DEFINE n == Len(s)
           c == s[n - 1]
           b == SubSeq(s, 1, n - 1)
           d == [c EXCEPT !.next = c.next + 1]
<1>1. s \in Seq(Loop) /\ n \in Nat /\ n - 1 \in Nat \ {0} /\ DOMAIN s = 1 .. n
  BY SoundTop DEF Sound
<1>2. /\ b \in Seq(Loop) /\ Len(b) = n - 1
      /\ \A i \in 1 .. n - 1 : b[i] = s[i]
  <2>1. 1 \in 1 .. Len(s) + 1 /\ n - 1 \in 0 .. Len(s)
    BY <1>1
  <2>2. b \in Seq(Loop)
    BY <1>1, SubSeqProperties, <2>1
  <2>3. Len(b) = IF 1 <= n - 1 THEN (n - 1) - 1 + 1 ELSE 0
    BY <1>1, SubSeqProperties, <2>1
  <2>4. Len(b) = n - 1
    BY <1>1, <2>3
  <2>5. \A i \in 1 .. n - 1 : b[i] = s[1 + i - 1]
    BY <1>1, SubSeqProperties, <2>1
  <2>6. \A i \in 1 .. n - 1 : b[i] = s[i]
    BY <1>1, <2>5
  <2>7. QED
    BY <2>2, <2>4, <2>6
<1> HIDE DEF b
<1>3. DOMAIN b = 1 .. n - 1 /\ b # <<>>
  BY <1>1, <1>2, LenProperties, EmptySeq
<1>4. Sound(b)
  <2>1. \A i \in 1 .. Len(b) - 1 : AtKids(b[i])
    BY <1>1, <1>2 DEF Sound
  <2>2. \A i \in DOMAIN b : Walkable(b[i])
    BY <1>1, <1>2, <1>3 DEF Sound
  <2>3. QED
    BY <1>2, <2>1, <2>2 DEF Sound
<1>5. AtKids(c) /\ c \in Loop /\ Walkable(c)
  <2>1. n - 1 \in 1 .. n - 1 /\ n - 1 \in DOMAIN s
    BY <1>1
  <2>2. QED
    BY <1>1, <2>1, ElementOfSeq DEF Sound
<1>6. d \in Loop
  BY <1>5, PassType
<1>7. Walkable(d)
  <2>1. d.site = c.site /\ d.from = c.from /\ d.to = c.to
    BY <1>5 DEF Loop
  <2>2. QED
    BY <1>5, <2>1, SameRoute
<1> HIDE DEF d
<1>8. Sound([b EXCEPT ![Len(b)] = d]) /\ [b EXCEPT ![Len(b)] = d] # <<>>
  BY <1>3, <1>4, <1>6, <1>7, SoundReplace
<1>9. QED
  BY <1>2, <1>8 DEF b, d

-----------------------------------------------------------------------------
(* The invariant. *)

\* Trees give every site one of its labels, or none.
LEMMA TreeType ==
  ASSUME NEW tree \in Trees
  PROVE  DOMAIN tree = Sites /\ \A s \in Sites : tree[s] \in Labels(s) \cup {0}
  BY DEF Trees

\* The beginning of an operation, with the empty stack of the initial state.
LEMMA InvInit == Init => Inv
<1> SUFFICES ASSUME Init PROVE Inv
  OBVIOUS
<1>1. stack \in Seq(Loop) /\ Len(stack) = 0 /\ DOMAIN stack = {}
  BY EmptySeq, LenProperties DEF Init
<1>2. Sound(stack)
  BY <1>1 DEF Sound
<1>3. TypeOK
  BY <1>1 DEF Init, TypeOK
<1>4. QED
  BY <1>2, <1>3 DEF Inv

\* A stack of one loop is sound if the loop is.
LEMMA SoundSingle ==
  ASSUME NEW l \in Loop, Walkable(l)
  PROVE  Sound(<<l>>) /\ <<l>> # <<>>
<1>1. <<l>> \in Seq(Loop) /\ Len(<<l>>) = 1 /\ <<l>>[1] = l /\ DOMAIN <<l>> = {1}
  OBVIOUS
<1>2. 1 .. Len(<<l>>) - 1 = {}
  BY <1>1
<1>3. QED
  BY <1>1, <1>2 DEF Sound

\* An operation that is not refused begins with a sound stack.
LEMMA BeginInv ==
  ASSUME Inv, NEW r \in Request, Begin(r)
  PROVE  Inv'
<1>1. CASE Blocked(r)
  <2>1. stack' = <<>> /\ outcome' = "irreversible" /\ raw' = {}
        /\ at' = [s \in Sites |-> 0] /\ request' = r /\ lost' = FALSE
    BY <1>1 DEF Begin
  <2>2. stack' \in Seq(Loop) /\ Len(stack') = 0 /\ DOMAIN stack' = {}
    BY <2>1, EmptySeq, LenProperties
  <2>3. Sound(stack')
    BY <2>2 DEF Sound
  <2>4. TypeOK'
    BY <2>1, <2>2 DEF TypeOK
  <2>5. QED
    BY <2>3, <2>4 DEF Inv
<1>2. CASE ~Blocked(r)
  <2> DEFINE route == Whole(r)
             explicit == r.op = "validate" /\ r.label \in Explicit
             l == NewLoop(Root, route.from, route.to, ~explicit)
  <2>1. /\ stack' = <<l>> /\ outcome' = "running" /\ request' = r /\ lost' = FALSE
        /\ at' \in Trees /\ at'[Root] = route.from
        /\ raw' = IF explicit THEN {s \in Sites \ {Root} : at'[s] # 0} ELSE {}
    BY <1>2 DEF Begin
  <2>2. Size[Root] \in Labels(Root) /\ r.label \in Labels(Root) /\ Root \in Sites
    BY SitesAssumption DEF Labels, Request
  <2>3. route.from \in Labels(Root) /\ route.to \in Labels(Root)
    BY <2>2 DEF Whole, RouteOf
  <2> HIDE DEF route, explicit
  <2>4. l \in Loop
    BY <2>2, <2>3, NewLoopType
  <2>5. l.site = Root /\ l.from = route.from /\ l.to = route.to
    BY DEF NewLoop, LoopAt
  <2> HIDE DEF l
  <2>6. Walkable(l)
    BY <1>2, <2>5, UnblockedRequest DEF route
  <2>7. Sound(stack') /\ stack' # <<>>
    BY <2>1, <2>4, <2>6, SoundSingle
  <2>8. DOMAIN at' = Sites /\ \A s \in Sites : at'[s] \in Labels(s) \cup {0}
    BY <2>1, TreeType
  <2>9. raw' \subseteq {s \in Sites : at'[s] # 0}
    BY <2>1
  <2>10. TypeOK'
    BY <2>1, <2>7, <2>8, <2>9 DEF TypeOK, Sound
  <2>11. QED
    BY <2>7, <2>10 DEF Inv
<1>3. QED
  BY <1>1, <1>2

\* The type of the payload and the soundness of the stack make the invariant.
LEMMA InvRunning ==
  ASSUME Inv, Running, UNCHANGED <<request, outcome>>,
         Sound(stack'), stack' # <<>>,
         DOMAIN at' = Sites, \A s \in Sites : at'[s] \in Labels(s) \cup {0},
         raw' \subseteq {s \in Sites : at'[s] # 0}, lost' \in BOOLEAN
  PROVE  Inv'
<1>1. TypeOK'
  BY DEF Inv, TypeOK, Running, Sound
<1>2. QED
  BY <1>1 DEF Inv

\* The top loop of a running conversion.
LEMMA TopLoop ==
  ASSUME Inv, Running
  PROVE  /\ Top \in Loop /\ Walkable(Top) /\ Sound(stack) /\ stack # <<>>
         /\ Top.site \in Sites /\ Ahead(Top) \in Labels(Top.site) /\ Ahead(Top) # 0
<1>1. Sound(stack) /\ stack # <<>>
  BY DEF Inv, Running
<1>2. Top \in Loop /\ Walkable(Top)
  BY <1>1, SoundTop DEF Top
<1>3. Top.site \in Sites /\ Ahead(Top) \in Labels(Top.site)
  BY <1>2, LoopFields, AheadType
<1>4. Ahead(Top) # 0
  BY <1>3, SitesAssumption DEF Labels
<1>5. QED
  BY <1>1, <1>2, <1>3, <1>4

\* The top loop makes a move.
LEMMA AdvancedSound ==
  ASSUME Inv, Running, Advanced
  PROVE  Sound(stack') /\ stack' # <<>>
<1> DEFINE l == LoopAt(Top.site, Top.from, Top.to, Ahead(Top), TRUE)
<1>1. l \in Loop
  BY TopLoop, AdvanceType
<1>2. l.site = Top.site /\ l.from = Top.from /\ l.to = Top.to
  BY DEF LoopAt
<1> HIDE DEF l
<1>3. Walkable(l)
  BY <1>2, TopLoop, SameRoute
<1>4. stack' = [stack EXCEPT ![Len(stack)] = l]
  BY DEF Advanced, l
<1>5. QED
  BY <1>1, <1>3, <1>4, TopLoop, SoundReplace

\* Every step keeps the invariant.
LEMMA InvStep == Inv /\ [Next]_vars => Inv'
<1> SUFFICES ASSUME Inv, [Next]_vars PROVE Inv'
  OBVIOUS
<1>1. ASSUME NEW r \in Request, Begin(r) PROVE Inv'
  BY <1>1, BeginInv
<1>2. CASE Pass
  <2> DEFINE l == [Top EXCEPT !.next = Top.next + 1]
  <2>1. Running /\ AtKids(Top) /\ stack' = [stack EXCEPT ![Len(stack)] = l]
        /\ UNCHANGED <<request, outcome, at, raw, lost>>
    BY <1>2 DEF Pass
  <2>2. l \in Loop
    BY <2>1, TopLoop, PassType
  <2>3. l.site = Top.site /\ l.from = Top.from /\ l.to = Top.to
    BY <2>1, TopLoop DEF Loop
  <2> HIDE DEF l
  <2>4. Walkable(l)
    BY <2>1, <2>3, TopLoop, SameRoute
  <2>5. Sound(stack') /\ stack' # <<>>
    BY <2>1, <2>2, <2>4, TopLoop, SoundReplace
  <2>6. QED
    BY <2>1, <2>5, InvRunning DEF Inv, TypeOK
<1>3. CASE Descend
  <2> DEFINE k == NextKid(Top)
             a == LabelMap[k][Top.pos]
             b == LabelMap[k][Ahead(Top)]
             l == NewLoop(k, a, b, Top.canonical)
  <2>1. /\ Running /\ AtKids(Top) /\ stack' = Append(stack, l)
        /\ raw' = IF Top.canonical THEN raw ELSE raw \ {k}
        /\ UNCHANGED <<request, outcome, at, lost>>
    BY <1>3 DEF Descend
  <2>2. /\ Top \in Loop /\ Walkable(Top) /\ Top.site \in Sites
        /\ Top.pos \in Labels(Top.site) /\ Ahead(Top) \in Labels(Top.site)
        /\ Top.canonical \in BOOLEAN
    BY <2>1, TopLoop, LoopFields
  <2>3. k \in KidsOf(Top.site) /\ k \in Sites
    BY <2>1, <2>2, NextKidType
  <2>4. a \in Labels(k) /\ b \in Labels(k)
    BY <2>2, <2>3, MapType
  <2>5. Walkable(l)
    BY <2>1, <2>2, DescendWalkable
  <2> HIDE DEF a, b, k
  <2>6. l \in Loop
    BY <2>2, <2>3, <2>4, NewLoopType
  <2> HIDE DEF l
  <2>7. Sound(stack') /\ stack' # <<>>
    BY <2>1, <2>5, <2>6, TopLoop, SoundPush DEF Top
  <2>8. raw' \subseteq {s \in Sites : at'[s] # 0}
    BY <2>1 DEF Inv, TypeOK
  <2>9. QED
    BY <2>1, <2>7, <2>8, InvRunning DEF Inv, TypeOK
<1>4. CASE Identity
  <2>1. /\ Running /\ Advanced /\ at' = [at EXCEPT ![Top.site] = Ahead(Top)]
        /\ UNCHANGED <<request, outcome, raw, lost>>
    BY <1>4 DEF Identity
  <2>2. Sound(stack') /\ stack' # <<>>
    BY <2>1, AdvancedSound
  <2>3. Top.site \in Sites /\ Ahead(Top) \in Labels(Top.site) /\ Ahead(Top) # 0
    BY <2>1, TopLoop
  <2>4. DOMAIN at' = Sites /\ \A s \in Sites : at'[s] \in Labels(s) \cup {0}
    BY <2>1, <2>3 DEF Inv, TypeOK
  <2>5. raw' \subseteq {s \in Sites : at'[s] # 0}
    BY <2>1, <2>3 DEF Inv, TypeOK
  <2>6. QED
    BY <2>1, <2>2, <2>4, <2>5, InvRunning DEF Inv, TypeOK
<1>5. CASE Callback
  <2>1. /\ Running /\ Advanced /\ at' \in Trees
        /\ raw' = {s \in raw : at'[s] # 0}
        /\ lost' = (lost \/ (Top.from > Top.to /\ Downgrades[Top.site][Ahead(Top)] = "lossy"))
        /\ UNCHANGED <<request, outcome>>
    BY <1>5 DEF Callback
  <2>2. Sound(stack') /\ stack' # <<>>
    BY <2>1, AdvancedSound
  <2>3. DOMAIN at' = Sites /\ \A s \in Sites : at'[s] \in Labels(s) \cup {0}
    BY <2>1, TreeType
  <2>4. raw' \subseteq {s \in Sites : at'[s] # 0}
    BY <2>1 DEF Inv, TypeOK
  <2>5. lost' \in BOOLEAN
    BY <2>1
  <2>6. QED
    BY <2>1, <2>2, <2>3, <2>4, <2>5, InvRunning
<1>6. CASE Reject
  <2>1. stack' = <<>> /\ outcome' = "invalid" /\ UNCHANGED <<request, at, raw, lost>>
    BY <1>6 DEF Reject
  <2>2. stack' \in Seq(Loop) /\ Len(stack') = 0 /\ DOMAIN stack' = {}
    BY <2>1, EmptySeq, LenProperties
  <2>3. Sound(stack') /\ TypeOK'
    BY <2>1, <2>2 DEF Sound, Inv, TypeOK
  <2>4. QED
    BY <2>3 DEF Inv
<1>7. CASE Return
  <2>1. Sound(stack') /\ stack' # <<>>
    BY <1>7, TopLoop, SoundPop DEF Return, Below, Caller
  <2>2. Running /\ UNCHANGED <<request, outcome, at, raw, lost>>
    BY <1>7 DEF Return
  <2>3. QED
    BY <2>1, <2>2, InvRunning DEF Inv, TypeOK
<1>8. CASE Finish
  <2>1. /\ stack' = <<>> /\ outcome' = "done" /\ UNCHANGED <<request, at, raw>>
        /\ lost' \in BOOLEAN
    BY <1>8 DEF Finish
  <2>2. stack' \in Seq(Loop) /\ Len(stack') = 0 /\ DOMAIN stack' = {}
    BY <2>1, EmptySeq, LenProperties
  <2>3. Sound(stack') /\ TypeOK'
    BY <2>1, <2>2 DEF Sound, Inv, TypeOK
  <2>4. QED
    BY <2>3 DEF Inv
<1>9. CASE UNCHANGED vars
  BY <1>9 DEF vars, Inv, TypeOK, Sound
<1>10. QED
  BY <1>1, <1>2, <1>3, <1>4, <1>5, <1>6, <1>7, <1>8, <1>9 DEF Next

\* A loop whose route can be walked does not stand before an unavailable downgrade.
LEMMA InvSafe == Inv => NoUnavailableDowngrade
<1> SUFFICES ASSUME Inv, Running, AtEdge(Top), Top.from > Top.to
             PROVE  DowngradeSemantics(Top.site, Ahead(Top)) # "unavailable"
  BY DEF NoUnavailableDowngrade
<1>1. Top \in Loop /\ Walkable(Top) /\ ~Arrived(Top)
  BY TopLoop DEF AtEdge
<1>2. <<Top.pos, Ahead(Top)>> \in Moves(RouteOf(Top.site, Top.from, Top.to))
  BY <1>1, AheadMoves
<1>3. QED
  BY <1>1, <1>2 DEF Walkable

\* Every conversion loop stays on its route and every value at a label of its family,
\* for any tree of families (_runtime.py:173-209, _runtime_nested.py:1541-1590).
THEOREM ConversionTypeCorrect == Spec => []TypeOK
<1>1. Inv => TypeOK
  BY DEF Inv
<1>2. QED
  BY InvInit, InvStep, <1>1, PTL DEF Spec

\* The plan's preflight is enough: no loop, at any depth and in any direction, passes
\* over a downgrade that is not available, for any tree of families, any label maps
\* and any behaviour of callbacks (_planning.py:557-643, _runtime_nested.py:368-387).
THEOREM DowngradesAvailable == Spec => []NoUnavailableDowngrade
  BY InvInit, InvStep, InvSafe, PTL DEF Spec

-----------------------------------------------------------------------------
(* The embedded values: what transition callbacks find, and what is        *)
(* delivered.  The properties speak of all sites below one.  The invariant *)
(* speaks of every declaration and its owner only; a property of a whole   *)
(* subtree follows because the subtree is the least set of sites that has  *)
(* the children of its sites (UnderLeast, TreeAssumption).                 *)

OnStack(s) == \E i \in DOMAIN stack : stack[i].site = s

\* The loops that are active follow the declarations from the root.
Linked ==
  /\ Running =>
       /\ stack[1].site = Root
       /\ stack[1].from = Whole(request).from /\ stack[1].to = Whole(request).to
       /\ stack[1].canonical \/ stack[1].from # stack[1].to
  /\ \A i \in 1 .. Len(stack) - 1 :
       /\ stack[i + 1].site = NextKid(stack[i])
       /\ stack[i + 1].to = LabelMap[NextKid(stack[i])][Ahead(stack[i])]
  /\ \A i, j \in DOMAIN stack : stack[i].site = stack[j].site => i = j
  /\ \A i \in DOMAIN stack :
       /\ at[stack[i].site] = stack[i].pos
       /\ ~stack[i].canonical => stack[i].pos = stack[i].from
       /\ stack[i].site \notin raw

\* Every embedded value follows the label of its owner; where the owner is being
\* converted, the labels on this or that side of its next edge.
Settled ==
  \A t \in Sites : \A j \in DOMAIN Kids[t] :
    LET k == Kids[t][j] IN
    at[k] # 0 =>
      /\ at[t] # 0
      /\ ~OnStack(t) => at[k] = LabelMap[k][at[t]]
      /\ \A i \in DOMAIN stack :
           stack[i].site = t =>
             /\ j < stack[i].next => at[k] = LabelMap[k][Ahead(stack[i])]
             /\ j > stack[i].next \/ (j = stack[i].next /\ i = Len(stack)) =>
                  at[k] = LabelMap[k][stack[i].pos]

\* Wire names are found only below wire names, and at declarations that a loop which
\* takes care of them has not yet come to.
RawBelow ==
  /\ Root \notin raw
  /\ \A t \in Sites : \A j \in DOMAIN Kids[t] :
       Kids[t][j] \in raw =>
         \/ t \in raw
         \/ \E i \in DOMAIN stack :
              /\ stack[i].site = t
              /\ ~stack[i].canonical
              /\ j > stack[i].next \/ (j = stack[i].next /\ i = Len(stack))

\* The inductive invariant.
TreeInv ==
  /\ Inv
  /\ outcome \in {"running", "done"} => Linked /\ Settled /\ RawBelow
  /\ outcome = "done" => at[Root] = Whole(request).to

-----------------------------------------------------------------------------
(* Sites. *)

\* The children of a site are sites.
LEMMA KidsAreSites ==
  ASSUME NEW t \in Sites
  PROVE  /\ Kids[t] \in Seq(Sites) /\ Len(Kids[t]) \in Nat
         /\ DOMAIN Kids[t] = 1 .. Len(Kids[t])
         /\ \A j \in DOMAIN Kids[t] : Kids[t][j] \in Sites /\ Kids[t][j] \in KidsOf(t)
         /\ KidsOf(t) \subseteq Sites
<1>1. Kids[t] \in Seq(Sites)
  BY SitesAssumption
<1>2. Len(Kids[t]) \in Nat /\ DOMAIN Kids[t] = 1 .. Len(Kids[t])
  BY <1>1, LenProperties
<1>3. \A j \in DOMAIN Kids[t] : Kids[t][j] \in Sites
  BY <1>1, <1>2, ElementOfSeq
<1>4. QED
  BY <1>1, <1>2, <1>3 DEF KidsOf

\* The sites below a site, and theirs.
LEMMA UnderClosed ==
  ASSUME NEW s \in Sites
  PROVE  /\ Under(s) \subseteq Sites
         /\ KidsOf(s) \subseteq Under(s)
         /\ \A t \in Under(s) : KidsOf(t) \subseteq Under(s)
<1>1. Under(s) = {d \in Sites : \A S \in SUBSET Sites :
        KidsOf(s) \subseteq S /\ (\A t \in S : KidsOf(t) \subseteq S) => d \in S}
  BY DEF Under, Descendants
<1>2. KidsOf(s) \subseteq Sites /\ \A t \in Sites : KidsOf(t) \subseteq Sites
  BY KidsAreSites
<1>3. QED
  BY <1>1, <1>2

\* Nothing else is below a site.
LEMMA UnderLeast ==
  ASSUME NEW s \in Sites, NEW S \in SUBSET Sites,
         KidsOf(s) \subseteq S, \A t \in S : KidsOf(t) \subseteq S
  PROVE  Under(s) \subseteq S
  BY DEF Under, Descendants

\* A site below another one is declared there, or by a site in between.
LEMMA UnderOwner ==
  ASSUME NEW s \in Sites, NEW d \in Under(s)
  PROVE  \E t \in {s} \cup Under(s) : d \in KidsOf(t)
<1> DEFINE S == {c \in Under(s) : \E t \in {s} \cup Under(s) : c \in KidsOf(t)}
<1>1. S \in SUBSET Sites /\ KidsOf(s) \subseteq S /\ \A t \in S : KidsOf(t) \subseteq S
  BY UnderClosed
<1> HIDE DEF S
<1>2. Under(s) \subseteq S
  BY <1>1, UnderLeast
<1>3. QED
  BY <1>2 DEF S

\* A site has one owner, which declares it once.
LEMMA OneOwner ==
  ASSUME NEW s \in Sites, NEW t \in Sites, NEW i \in DOMAIN Kids[s], NEW j \in DOMAIN Kids[t],
         Kids[s][i] = Kids[t][j]
  PROVE  s = t /\ i = j
  BY TreeAssumption

-----------------------------------------------------------------------------
(* The stack. *)

\* The loops of a running conversion.
LEMMA StackLoops ==
  ASSUME Inv
  PROVE  /\ stack \in Seq(Loop) /\ Len(stack) \in Nat /\ DOMAIN stack = 1 .. Len(stack)
         /\ \A i \in DOMAIN stack :
              /\ stack[i] \in Loop /\ stack[i].site \in Sites
              /\ stack[i].pos \in Nat \ {0} /\ stack[i].next \in Nat
              /\ stack[i].canonical \in BOOLEAN
         /\ Running => /\ Len(stack) \in Nat \ {0} /\ Len(stack) \in DOMAIN stack
                       /\ Top = stack[Len(stack)]
<1>1. /\ stack \in Seq(Loop) /\ Len(stack) \in Nat /\ DOMAIN stack = 1 .. Len(stack)
  BY LenProperties DEF Inv, TypeOK
<1>2. \A i \in DOMAIN stack : stack[i] \in Loop
  BY <1>1, ElementOfSeq
<1>3. \A l \in Loop : /\ l.site \in Sites /\ l.pos \in Nat \ {0} /\ l.next \in Nat
                      /\ l.canonical \in BOOLEAN
  <2> TAKE l \in Loop
  <2>1. l.site \in Sites /\ l.next \in Nat /\ l.canonical \in BOOLEAN /\ l.pos \in Labels(l.site)
    BY LoopFields
  <2>2. QED
    BY <2>1, SitesAssumption DEF Labels
<1>4. Running => Len(stack) \in Nat \ {0}
  BY <1>1, EmptySeq DEF Running
<1>5. QED
  BY <1>1, <1>2, <1>3, <1>4 DEF Top

\* A site on the stack was entered by the loop of its owner.
LEMMA EnteredByOwner ==
  ASSUME Inv, Linked, NEW t \in Sites, NEW j \in DOMAIN Kids[t], NEW m \in DOMAIN stack,
         stack[m].site = Kids[t][j]
  PROVE  m - 1 \in DOMAIN stack /\ stack[m - 1].site = t /\ stack[m - 1].next = j
<1>1. DOMAIN stack = 1 .. Len(stack) /\ Len(stack) \in Nat
  BY StackLoops
<1>2. m # 1
  <2>1. Kids[t][j] \in KidsOf(t)
    BY KidsAreSites
  <2>2. Running
    BY <1>1, EmptySeq DEF Running
  <2>3. QED
    BY <2>1, <2>2, TreeAssumption DEF Linked
<1>3. m - 1 \in 1 .. Len(stack) - 1 /\ m - 1 \in DOMAIN stack /\ (m - 1) + 1 = m
  BY <1>1, <1>2
<1> DEFINE l == stack[m - 1]
<1>4. stack[m].site = NextKid(l)
  BY <1>3 DEF Linked
<1>5. l \in Loop /\ l.site \in Sites /\ l.next \in Nat
  BY <1>3, StackLoops
<1>6. l.next \in DOMAIN Kids[l.site]
  <2>1. AtKids(l)
    BY <1>3 DEF Inv, Sound
  <2>2. l.next \in 1 .. Len(Kids[l.site]) + 1
    BY <1>5, LoopFields
  <2>3. QED
    BY <1>5, <2>1, <2>2, KidsAreSites DEF AtKids
<1>7. Kids[l.site][l.next] = Kids[t][j]
  BY <1>4 DEF NextKid
<1> HIDE DEF l
<1>8. l.site = t /\ l.next = j
  BY <1>5, <1>6, <1>7, OneOwner
<1>9. QED
  BY <1>3, <1>8 DEF l

\* No active loop is at a site below the top loop's.
LEMMA BelowTop ==
  ASSUME Inv, Running, Linked, NEW d \in Under(Top.site)
  PROVE  d \in Sites /\ ~OnStack(d)
<1> DEFINE S == {c \in Sites : ~OnStack(c)}
<1>1. Top.site \in Sites /\ Len(stack) \in DOMAIN stack /\ Top = stack[Len(stack)]
  BY StackLoops
<1>2. ASSUME NEW t \in Sites, NEW k \in KidsOf(t), t = Top.site \/ ~OnStack(t)
      PROVE  k \in S
  <2>1. PICK j \in DOMAIN Kids[t] : k = Kids[t][j]
    BY DEF KidsOf
  <2>2. k \in Sites
    BY <2>1, KidsAreSites
  <2>3. ASSUME NEW m \in DOMAIN stack, stack[m].site = k
        PROVE  FALSE
    <3>1. m - 1 \in DOMAIN stack /\ stack[m - 1].site = t
      BY <2>1, <2>3, EnteredByOwner
    <3>2. t = Top.site
      BY <1>2, <3>1 DEF OnStack
    <3>3. m - 1 = Len(stack)
      BY <1>1, <3>1, <3>2 DEF Linked
    <3>4. QED
      BY <3>3, StackLoops
  <2>4. QED
    BY <2>2, <2>3 DEF OnStack
<1>3. S \in SUBSET Sites /\ KidsOf(Top.site) \subseteq S /\ \A t \in S : KidsOf(t) \subseteq S
  BY <1>1, <1>2
<1> HIDE DEF S
<1>4. d \in S
  BY <1>1, <1>3, UnderLeast
<1>5. QED
  BY <1>4 DEF S

\* The top loop does not come to its own site again.
LEMMA TopNotUnder ==
  ASSUME Inv, Running, Linked
  PROVE  Top.site \in Sites /\ Top.site \notin Under(Top.site) /\ OnStack(Top.site)
<1>1. OnStack(Top.site) /\ Top.site \in Sites
  BY StackLoops DEF OnStack
<1>2. QED
  BY <1>1, BelowTop

\* The stack when the top loop goes on.
LEMMA ReplacedTop ==
  ASSUME Inv, Running, NEW l \in Loop, stack' = [stack EXCEPT ![Len(stack)] = l]
  PROVE  /\ Len(stack') = Len(stack) /\ DOMAIN stack' = DOMAIN stack
         /\ stack'[Len(stack)] = l
         /\ \A i \in DOMAIN stack : i # Len(stack) => stack'[i] = stack[i]
<1>1. stack \in Seq(Loop) /\ Len(stack) \in DOMAIN stack
  BY StackLoops
<1>2. Len(stack) \in 1 .. Len(stack)
  BY StackLoops
<1>3. Len(stack') = Len(stack)
  BY <1>1, <1>2, ExceptSeq
<1>4. QED
  BY <1>1, <1>3

\* The stack when a loop begins.
LEMMA PushedTop ==
  ASSUME Inv, NEW l \in Loop, stack' = Append(stack, l)
  PROVE  /\ Len(stack') = Len(stack) + 1 /\ DOMAIN stack' = 1 .. Len(stack) + 1
         /\ stack'[Len(stack) + 1] = l
         /\ \A i \in DOMAIN stack : stack'[i] = stack[i]
<1>1. stack \in Seq(Loop) /\ DOMAIN stack = 1 .. Len(stack)
  BY StackLoops
<1>2. /\ stack' \in Seq(Loop) /\ Len(stack') = Len(stack) + 1
      /\ stack'[Len(stack) + 1] = l /\ \A i \in 1 .. Len(stack) : stack'[i] = stack[i]
  BY <1>1, AppendProperties
<1>3. QED
  BY <1>1, <1>2, LenProperties

\* The stack when the top loop returns.
LEMMA PoppedTop ==
  ASSUME Inv, Running, Return
  PROVE  LET m == Len(stack) - 1
         IN /\ m \in DOMAIN stack /\ m + 1 = Len(stack) /\ m \in Nat \ {0}
            /\ Len(stack') = m /\ DOMAIN stack' = 1 .. m
            /\ \A i \in 1 .. m - 1 : stack'[i] = stack[i]
            /\ stack'[m] = [stack[m] EXCEPT !.next = stack[m].next + 1]
            /\ stack[m] \in Loop /\ AtKids(stack[m])
<1> DEFINE n == Len(stack)
           m == n - 1
           b == SubSeq(stack, 1, m)
           d == [stack[m] EXCEPT !.next = stack[m].next + 1]
<1>1. /\ stack \in Seq(Loop) /\ n \in Nat /\ n > 1 /\ DOMAIN stack = 1 .. n
      /\ stack' = [b EXCEPT ![m] = d]
  BY StackLoops DEF Return, Below, Caller
<1>2. m \in Nat \ {0} /\ m \in DOMAIN stack /\ m + 1 = n /\ m \in 1 .. n - 1
  BY <1>1
<1>3. b \in Seq(Loop) /\ Len(b) = m /\ \A i \in 1 .. m : b[i] = stack[i]
  <2>1. 1 \in 1 .. Len(stack) + 1 /\ m \in 0 .. Len(stack)
    BY <1>1
  <2>2. b \in Seq(Loop) /\ Len(b) = IF 1 <= m THEN m - 1 + 1 ELSE 0
    BY <1>1, <2>1, SubSeqProperties
  <2>3. \A i \in 1 .. m : b[i] = stack[1 + i - 1]
    BY <1>1, <2>1, <2>2, SubSeqProperties
  <2>4. \A i \in 1 .. m : b[i] = stack[i]
    BY <1>2, <2>3
  <2>5. QED
    BY <1>2, <2>2, <2>4
<1> HIDE DEF b
<1>4. stack[m] \in Loop /\ AtKids(stack[m])
  BY <1>1, <1>2, ElementOfSeq DEF Inv, Sound
<1>5. d \in Loop
  BY <1>4, PassType
<1> HIDE DEF d
<1>6. m \in 1 .. Len(b)
  BY <1>2, <1>3
<1> HIDE DEF m
<1>7. /\ stack' \in Seq(Loop) /\ Len(stack') = m
      /\ \A i \in 1 .. m : stack'[i] = IF i = m THEN d ELSE b[i]
  BY <1>1, <1>3, <1>5, <1>6, ExceptSeq
<1>8. DOMAIN stack' = 1 .. m
  BY <1>7, LenProperties
<1>9. stack'[m] = d /\ \A i \in 1 .. m - 1 : stack'[i] = stack[i]
  BY <1>2, <1>3, <1>7
<1>10. stack'[m] = [stack[m] EXCEPT !.next = stack[m].next + 1]
  BY <1>9 DEF d
<1>11. m = Len(stack) - 1
  BY DEF m
<1>12. QED
  BY <1>2, <1>4, <1>7, <1>8, <1>9, <1>10, <1>11

\* The loops stay linked when the last of those that remain goes on.
LEMMA LinkedKept ==
  ASSUME Inv, Linked, request' = request, NEW m \in DOMAIN stack,
         DOMAIN stack' = 1 .. m, Len(stack') = m,
         \A i \in 1 .. m - 1 : stack'[i] = stack[i],
         stack'[m].site = stack[m].site, stack'[m].from = stack[m].from, stack'[m].to = stack[m].to,
         stack[m].canonical => stack'[m].canonical,
         ~stack'[m].canonical => stack'[m].pos = stack'[m].from,
         at'[stack[m].site] = stack'[m].pos,
         \A i \in 1 .. m - 1 : at'[stack[i].site] = at[stack[i].site],
         raw' \subseteq raw
  PROVE  Linked'
<1>1. m \in Nat \ {0} /\ 1 \in DOMAIN stack /\ \A i \in 1 .. m : i \in DOMAIN stack
  BY StackLoops
<1>2. Running
  BY <1>1, EmptySeq DEF Running
<1>3. \A i \in 1 .. m : /\ i = m \/ i \in 1 .. m - 1
                        /\ stack'[i].site = stack[i].site
                        /\ stack'[i].from = stack[i].from
                        /\ stack'[i].to = stack[i].to
                        /\ stack[i].canonical => stack'[i].canonical
  BY <1>1
<1>4. /\ stack'[1].site = Root
      /\ stack'[1].from = Whole(request').from /\ stack'[1].to = Whole(request').to
      /\ stack'[1].canonical \/ stack'[1].from # stack'[1].to
  BY <1>1, <1>2, <1>3 DEF Linked
<1>5. \A i \in 1 .. m - 1 :
        /\ stack'[i + 1].site = Kids[stack'[i].site][stack'[i].next]
        /\ stack'[i + 1].to = LabelMap[Kids[stack'[i].site][stack'[i].next]][Ahead(stack'[i])]
  <2> TAKE i \in 1 .. m - 1
  <2>1. i \in 1 .. Len(stack) - 1 /\ i + 1 \in 1 .. m
    BY <1>1, StackLoops
  <2>2. stack'[i] = stack[i]
    OBVIOUS
  <2>3. stack[i + 1].site = NextKid(stack[i])
        /\ stack[i + 1].to = LabelMap[NextKid(stack[i])][Ahead(stack[i])]
    BY <2>1 DEF Linked
  <2>4. QED
    BY <1>3, <2>1, <2>2, <2>3 DEF NextKid
<1>6. \A i, j \in 1 .. m : stack'[i].site = stack'[j].site => i = j
  BY <1>1, <1>3 DEF Linked
<1>7. \A i \in 1 .. m :
        /\ at'[stack'[i].site] = stack'[i].pos
        /\ ~stack'[i].canonical => stack'[i].pos = stack'[i].from
        /\ stack'[i].site \notin raw'
  BY <1>1, <1>3 DEF Linked
<1>8. QED
  BY <1>4, <1>5, <1>6, <1>7 DEF Linked, NextKid

-----------------------------------------------------------------------------
(* The steps. *)

\* What the invariant says of the declarations of the top loop's site.
LEMMA SettledTop ==
  ASSUME Inv, Running, Linked, Settled, NEW j \in DOMAIN Kids[Top.site],
         at[Kids[Top.site][j]] # 0
  PROVE  /\ j < Top.next => at[Kids[Top.site][j]] = LabelMap[Kids[Top.site][j]][Ahead(Top)]
         /\ j >= Top.next => at[Kids[Top.site][j]] = LabelMap[Kids[Top.site][j]][Top.pos]
<1>1. /\ Len(stack) \in DOMAIN stack /\ Top = stack[Len(stack)] /\ Top.site \in Sites
      /\ Top.next \in Nat
  BY StackLoops
<1>2. j \in Nat
  BY <1>1, KidsAreSites
<1>3. QED
  BY <1>1, <1>2 DEF Settled

\* The values below the top loop's site, which no active loop converts.
LEMMA SettledBelow ==
  ASSUME Inv, Running, Linked, Settled, NEW t \in Under(Top.site), NEW k \in KidsOf(t),
         at[k] # 0
  PROVE  at[t] # 0 /\ at[k] = LabelMap[k][at[t]]
<1>1. t \in Sites /\ ~OnStack(t)
  BY BelowTop
<1>2. PICK j \in DOMAIN Kids[t] : k = Kids[t][j]
  BY DEF KidsOf
<1>3. QED
  BY <1>1, <1>2 DEF Settled

\* The values at and below the top loop's site after its transition.
LEMMA SettledMoved ==
  ASSUME Inv, Running, Linked, Settled, AtEdge(Top), Returned(at', Top.site, Ahead(Top)),
         NEW t \in {Top.site} \cup Under(Top.site), NEW k \in KidsOf(t), at'[k] # 0
  PROVE  /\ at'[t] # 0
         /\ at'[k] = LabelMap[k][IF t = Top.site THEN Ahead(Top) ELSE at'[t]]
<1> DEFINE s == Top.site
<1>1. /\ at'[s] = Ahead(Top) /\ at'[t] # 0
      /\ at'[k] = IF HasValue(k) THEN at[k] ELSE LabelMap[k][at'[t]]
  BY DEF Returned
<1>2. CASE ~HasValue(k)
  BY <1>1, <1>2
<1>3. CASE HasValue(k) /\ t = s
  <2>1. PICK j \in DOMAIN Kids[s] : k = Kids[s][j]
    BY <1>3 DEF KidsOf
  <2>2. j < Top.next
    <3>1. s \in Sites
      BY TopNotUnder
    <3>2. QED
      BY <2>1, <3>1, KidsAreSites DEF AtEdge
  <2>3. at[k] = LabelMap[k][Ahead(Top)]
    BY <1>3, <2>1, <2>2, SettledTop DEF HasValue
  <2>4. QED
    BY <1>1, <1>3, <2>3
<1>4. CASE HasValue(k) /\ t # s
  <2>1. t \in Under(s)
    BY <1>4
  <2>2. at[t] # 0 /\ at[k] = LabelMap[k][at[t]]
    BY <1>4, <2>1, SettledBelow DEF HasValue
  <2>3. at'[t] = at[t]
    <3>1. s \in Sites
      BY TopNotUnder
    <3>2. PICK u \in {s} \cup Under(s) : t \in KidsOf(u)
      BY <2>1, <3>1, UnderOwner
    <3>3. QED
      BY <1>1, <2>2, <3>2 DEF Returned, HasValue
  <2>4. QED
    BY <1>1, <1>4, <2>2, <2>3
<1>5. QED
  BY <1>2, <1>3, <1>4

\* A transition keeps the invariant, whatever its callback makes of the values at
\* and below its site.
LEMMA Moved ==
  ASSUME Inv, Running, Linked, Settled, RawBelow, AtEdge(Top),
         Returned(at', Top.site, Ahead(Top)), raw' = {d \in raw : at'[d] # 0},
         Advanced, request' = request
  PROVE  Linked' /\ Settled' /\ RawBelow'
<1> DEFINE s == Top.site
           n == Len(stack)
           l == LoopAt(s, Top.from, Top.to, Ahead(Top), TRUE)
<1>0. n \in Nat \ {0} /\ DOMAIN stack = 1 .. n
  BY StackLoops
<1>1. n \in DOMAIN stack /\ Top = stack[n] /\ s \in Sites /\ Top \in Loop /\ n = Len(stack)
  BY StackLoops
<1> HIDE DEF n
<1>2. /\ stack' = [stack EXCEPT ![n] = l] /\ l \in Loop
      /\ l.site = s /\ l.from = Top.from /\ l.to = Top.to
      /\ l.pos = Ahead(Top) /\ l.next = 1 /\ l.canonical
  BY <1>1, AdvanceType DEF Advanced, LoopAt
<1> HIDE DEF l
<1>3. /\ Len(stack') = n /\ DOMAIN stack' = DOMAIN stack /\ stack'[n] = l
      /\ \A i \in DOMAIN stack : i # n => stack'[i] = stack[i]
  BY <1>1, <1>2, ReplacedTop
<1>4. /\ at'[s] = Ahead(Top)
      /\ \A t \in Sites \ ({s} \cup Under(s)) : at'[t] = at[t]
  BY DEF Returned
<1>5. s \notin Under(s) /\ \A t \in Under(s) : t \in Sites /\ ~OnStack(t)
  BY TopNotUnder, BelowTop
<1>6. \A i \in 1 .. n - 1 : stack[i].site # s /\ stack[i].site \in Sites \ ({s} \cup Under(s))
  <2> TAKE i \in 1 .. n - 1
  <2>1. i \in DOMAIN stack /\ i # n
    BY <1>0
  <2>2. stack[i].site # s
    BY <1>1, <2>1 DEF Linked
  <2>3. stack[i].site \in Sites /\ OnStack(stack[i].site)
    BY <2>1, StackLoops DEF OnStack
  <2>4. QED
    BY <1>5, <2>2, <2>3
<1>7. Linked'
  <2>1. raw' \subseteq raw
    OBVIOUS
  <2>2. \A i \in 1 .. n - 1 : stack'[i] = stack[i]
    BY <1>0, <1>3
  <2>3. \A i \in 1 .. n - 1 : at'[stack[i].site] = at[stack[i].site]
    BY <1>4, <1>6
  <2> HIDE DEF s
  <2>4. stack[n].site = s /\ stack[n].from = Top.from /\ stack[n].to = Top.to
    BY <1>1 DEF s
  <2>5. QED
    BY <1>0, <1>1, <1>2, <1>3, <1>4, <2>1, <2>2, <2>3, <2>4, LinkedKept
<1>8. ASSUME NEW t \in Sites, NEW j \in DOMAIN Kids[t], at'[Kids[t][j]] # 0
      PROVE  /\ at'[t] # 0
             /\ ~OnStack(t)' => at'[Kids[t][j]] = LabelMap[Kids[t][j]][at'[t]]
             /\ \A i \in DOMAIN stack' :
                  stack'[i].site = t =>
                    /\ j < stack'[i].next =>
                         at'[Kids[t][j]] = LabelMap[Kids[t][j]][Ahead(stack'[i])]
                    /\ j > stack'[i].next \/ (j = stack'[i].next /\ i = Len(stack')) =>
                         at'[Kids[t][j]] = LabelMap[Kids[t][j]][stack'[i].pos]
  <2> DEFINE k == Kids[t][j]
  <2>0. k \in KidsOf(t) /\ k \in Sites /\ j \in Nat /\ j >= 1
    BY <1>8, KidsAreSites
  <2>1. CASE t \in {s} \cup Under(s)
    <3>1. at'[t] # 0 /\ at'[k] = LabelMap[k][IF t = s THEN Ahead(Top) ELSE at'[t]]
      BY <1>8, <2>0, <2>1, SettledMoved
    <3>2. at'[k] = LabelMap[k][at'[t]]
      BY <1>4, <3>1
    <3>3. ASSUME NEW i \in DOMAIN stack', stack'[i].site = t
          PROVE  i = n
      <4>1. CASE i # n
        <5>1. i \in 1 .. n - 1 /\ stack'[i] = stack[i]
          BY <1>0, <1>3, <4>1
        <5>2. QED
          BY <1>6, <2>1, <3>3, <5>1
      <4>2. QED
        BY <4>1
    <3>4. ASSUME NEW i \in DOMAIN stack', stack'[i].site = t
          PROVE  ~(j < stack'[i].next) /\ stack'[i].pos = at'[t]
      <4>1. stack'[i] = l /\ t = s
        BY <1>2, <1>3, <3>3, <3>4
      <4>2. QED
        BY <1>2, <1>4, <2>0, <4>1
    <3>5. QED
      BY <3>1, <3>2, <3>4
  <2>2. CASE t \notin {s} \cup Under(s)
    <3>1. at'[t] = at[t]
      BY <1>4, <2>2
    <3>2. CASE k = s
      <4>1. n - 1 \in DOMAIN stack /\ stack[n - 1].site = t /\ stack[n - 1].next = j
        <5>1. stack[n].site = Kids[t][j]
          BY <1>1, <3>2
        <5>2. n \in DOMAIN stack
          BY <1>1
        <5> HIDE DEF k, s
        <5>3. QED
          BY <5>1, <5>2, EnteredByOwner
      <4>2. n - 1 # n /\ n - 1 \in DOMAIN stack' /\ stack'[n - 1] = stack[n - 1]
        BY <1>0, <1>3, <4>1
      <4>3. OnStack(t)'
        BY <4>1, <4>2 DEF OnStack
      <4>4. at[t] # 0
        <5>1. at[k] # 0
          <6>1. at[s] = Top.pos
            BY <1>1 DEF Linked
          <6>2. Top.pos # 0
            BY <1>1, StackLoops
          <6>3. QED
            BY <3>2, <6>1, <6>2
        <5>2. QED
          BY <5>1 DEF Settled
      <4>5. ASSUME NEW i \in DOMAIN stack', stack'[i].site = t
            PROVE  ~(j < stack'[i].next) /\ ~(j > stack'[i].next) /\ i # n
        <5>1. i # n
          BY <1>2, <1>3, <2>2, <4>5
        <5>2. stack'[i] = stack[i] /\ i \in DOMAIN stack
          BY <1>3, <5>1
        <5>3. i = n - 1
          BY <4>1, <4>5, <5>2 DEF Linked
        <5>4. QED
          BY <2>0, <4>1, <5>1, <5>2, <5>3
      <4>6. QED
        BY <1>3, <3>1, <4>3, <4>4, <4>5
    <3>3. CASE k # s
      <4>1. k \notin Under(s)
        <5>1. ASSUME k \in Under(s) PROVE FALSE
          <6>1. PICK u \in {s} \cup Under(s) : k \in KidsOf(u)
            BY <1>1, <5>1, UnderOwner
          <6>2. PICK jj \in DOMAIN Kids[u] : k = Kids[u][jj]
            BY <6>1 DEF KidsOf
          <6>3. u \in Sites
            BY <1>1, <1>5
          <6>4. u = t
            BY <6>2, <6>3, OneOwner
          <6>5. QED
            BY <2>2, <6>4
        <5>2. QED
          BY <5>1
      <4>2. at'[k] = at[k] /\ at[k] # 0
        BY <1>4, <1>8, <2>0, <3>3, <4>1
      <4>3. /\ at[t] # 0
            /\ ~OnStack(t) => at[k] = LabelMap[k][at[t]]
            /\ \A i \in DOMAIN stack :
                 stack[i].site = t =>
                   /\ j < stack[i].next => at[k] = LabelMap[k][Ahead(stack[i])]
                   /\ j > stack[i].next => at[k] = LabelMap[k][stack[i].pos]
        BY <4>2 DEF Settled
      <4>4. \A i \in DOMAIN stack' : stack'[i].site = t =>
               i \in DOMAIN stack /\ i # n /\ stack'[i] = stack[i]
        BY <1>2, <1>3, <2>2
      <4>5. OnStack(t) => OnStack(t)'
        <5>1. ASSUME NEW i \in DOMAIN stack, stack[i].site = t PROVE stack'[i].site = t
          BY <1>1, <1>3, <2>2, <5>1
        <5>2. QED
          BY <1>3, <5>1 DEF OnStack
      <4> HIDE DEF k
      <4>6. ASSUME NEW i \in DOMAIN stack', stack'[i].site = t
            PROVE  /\ j < stack'[i].next => at'[k] = LabelMap[k][Ahead(stack'[i])]
                   /\ j > stack'[i].next => at'[k] = LabelMap[k][stack'[i].pos]
                   /\ i # Len(stack')
        BY <1>3, <4>2, <4>3, <4>4, <4>6
      <4>7. QED
        BY <3>1, <4>2, <4>3, <4>5, <4>6 DEF k
    <3>4. QED
      BY <3>2, <3>3
  <2>3. QED
    BY <2>1, <2>2
<1>9. Settled'
  BY <1>8 DEF Settled
<1>10. RawBelow'
  <2>1. Root \notin raw'
    BY DEF RawBelow
  <2>2. ASSUME NEW t \in Sites, NEW j \in DOMAIN Kids[t], Kids[t][j] \in raw', t \notin raw'
        PROVE  \E i \in DOMAIN stack' :
                 /\ stack'[i].site = t
                 /\ ~stack'[i].canonical
                 /\ j > stack'[i].next \/ (j = stack'[i].next /\ i = Len(stack'))
    <3>1. Kids[t][j] \in raw /\ at'[Kids[t][j]] # 0
      BY <2>2
    <3>2. at'[t] # 0
      BY <1>8, <3>1
    <3>3. t \notin raw
      BY <2>2, <3>2
    <3>4. PICK i \in DOMAIN stack : /\ stack[i].site = t
                                    /\ ~stack[i].canonical
                                    /\ j > stack[i].next \/ (j = stack[i].next /\ i = n)
      BY <1>1, <3>1, <3>3 DEF RawBelow
    <3>5. j \in Nat /\ j <= Len(Kids[t])
      BY KidsAreSites
    <3>6. i # n
      <4>1. CASE i = n
        <5>1. t = s /\ Top.next = Len(Kids[t]) + 1 /\ j >= Top.next
          BY <1>1, <3>4, <3>5, <4>1 DEF AtEdge
        <5>2. QED
          BY <3>5, <5>1, KidsAreSites
      <4>2. QED
        BY <4>1
    <3>7. QED
      BY <1>3, <3>4, <3>6
  <2>3. QED
    BY <2>1, <2>2 DEF RawBelow
<1>11. QED
  BY <1>7, <1>9, <1>10

\* Both kinds of transition return such values.
LEMMA IdentityReturns ==
  ASSUME Inv, Linked, Settled, Identity
  PROVE  Returned(at', Top.site, Ahead(Top)) /\ raw' = {d \in raw : at'[d] # 0}
<1> DEFINE s == Top.site
           a == Ahead(Top)
<1>1. /\ Running /\ at' = [at EXCEPT ![s] = a] /\ raw' = raw
  BY DEF Identity
<1>2. s \in Sites /\ a # 0 /\ s \notin Under(s) /\ DOMAIN at = Sites
  BY <1>1, TopLoop, TopNotUnder DEF Inv, TypeOK
<1> HIDE DEF a
<1>3. at'[s] = a /\ \A t \in Sites : t # s => at'[t] = at[t]
  BY <1>1, <1>2
<1>4. ASSUME NEW t \in {s} \cup Under(s), NEW k \in KidsOf(t), at'[k] # 0
      PROVE  HasValue(k) /\ at'[t] # 0 /\ at'[k] = at[k]
  <2>1. k \in Under(s) /\ k \in Sites /\ k # s /\ t \in Sites
    BY <1>2, UnderClosed
  <2>2. at'[k] = at[k] /\ at[k] # 0
    BY <1>3, <1>4, <2>1
  <2>3. CASE t = s
    BY <1>2, <1>3, <2>2, <2>3 DEF HasValue
  <2>4. CASE t # s
    <3>1. at[t] # 0
      BY <1>1, <2>2, <2>4, SettledBelow
    <3>2. QED
      BY <1>3, <2>1, <2>2, <2>4, <3>1 DEF HasValue
  <2>5. QED
    BY <2>3, <2>4
<1>5. Returned(at', s, a)
  BY <1>2, <1>3, <1>4 DEF Returned
<1>6. raw' = {d \in raw : at'[d] # 0}
  <2>1. \A d \in raw : d \in Sites /\ at[d] # 0
    BY DEF Inv, TypeOK
  <2>2. \A d \in raw : at'[d] # 0
    BY <1>2, <1>3, <2>1
  <2>3. QED
    BY <1>1, <2>2
<1>7. QED
  BY <1>5, <1>6 DEF a

\* A loop goes past a declaration that has nothing to convert.
LEMMA Passed ==
  ASSUME Inv, Linked, Settled, RawBelow, Pass
  PROVE  Linked' /\ Settled' /\ RawBelow'
<1> DEFINE n == Len(stack)
           l == [Top EXCEPT !.next = Top.next + 1]
           p == NextKid(Top)
<1>0. n \in Nat \ {0} /\ DOMAIN stack = 1 .. n
  BY StackLoops DEF Pass
<1>1. /\ Running /\ AtKids(Top) /\ ~Due(Top, p)
      /\ stack' = [stack EXCEPT ![n] = l]
      /\ UNCHANGED <<request, outcome, at, raw, lost>>
  BY DEF Pass
<1>2. n \in DOMAIN stack /\ Top = stack[n] /\ Top \in Loop /\ n = Len(stack)
  BY <1>1, StackLoops
<1>3. /\ l \in Loop
      /\ l.site = Top.site /\ l.from = Top.from /\ l.to = Top.to /\ l.pos = Top.pos
      /\ l.canonical = Top.canonical /\ l.next = Top.next + 1 /\ Top.next \in Nat
  BY <1>1, <1>2, PassType, LoopFields DEF Loop
<1>4. Ahead(l) = Ahead(Top)
  BY <1>3 DEF Ahead, Arrived
<1> HIDE DEF n, l
<1>5. /\ Len(stack') = n /\ DOMAIN stack' = DOMAIN stack /\ stack'[n] = l
      /\ \A i \in DOMAIN stack : i # n => stack'[i] = stack[i]
  BY <1>1, <1>2, <1>3, ReplacedTop
<1>6. \A i \in DOMAIN stack :
        /\ stack'[i].site = stack[i].site /\ stack'[i].pos = stack[i].pos
        /\ stack'[i].canonical = stack[i].canonical /\ Ahead(stack'[i]) = Ahead(stack[i])
        /\ stack[i].next \in Nat
  BY <1>2, <1>3, <1>4, <1>5, StackLoops
<1>7. Linked'
  <2>1. \A i \in 1 .. n - 1 : stack'[i] = stack[i]
    BY <1>0, <1>5
  <2>2. at[stack[n].site] = stack[n].pos /\ (~stack[n].canonical => stack[n].pos = stack[n].from)
    BY <1>2 DEF Linked
  <2>3. QED
    BY <1>0, <1>1, <1>2, <1>3, <1>5, <2>1, <2>2, LinkedKept
<1>8. OnStack(Top.site) /\ \A t : OnStack(t)' <=> OnStack(t)
  BY <1>2, <1>5, <1>6 DEF OnStack
<1>9. ASSUME NEW t \in Sites, NEW j \in DOMAIN Kids[t], NEW i \in DOMAIN stack,
             stack[i].site = t, i = n, j = stack[i].next
      PROVE  Kids[t][j] = p /\ stack'[i].next = j + 1 /\ j \in Nat
  BY <1>2, <1>3, <1>5, <1>9 DEF NextKid
<1>10. Settled'
  <2> SUFFICES ASSUME NEW t \in Sites, NEW j \in DOMAIN Kids[t], at[Kids[t][j]] # 0
               PROVE  /\ at[t] # 0
                      /\ ~OnStack(t) => at[Kids[t][j]] = LabelMap[Kids[t][j]][at[t]]
                      /\ \A i \in DOMAIN stack :
                           stack[i].site = t =>
                             /\ j < stack'[i].next =>
                                  at[Kids[t][j]] = LabelMap[Kids[t][j]][Ahead(stack[i])]
                             /\ j > stack'[i].next \/ (j = stack'[i].next /\ i = n) =>
                                  at[Kids[t][j]] = LabelMap[Kids[t][j]][stack[i].pos]
    BY <1>1, <1>5, <1>6, <1>8 DEF Settled
  <2> DEFINE k == Kids[t][j]
  <2>1. /\ at[t] # 0
        /\ ~OnStack(t) => at[k] = LabelMap[k][at[t]]
        /\ \A i \in DOMAIN stack :
             stack[i].site = t =>
               /\ j < stack[i].next => at[k] = LabelMap[k][Ahead(stack[i])]
               /\ j > stack[i].next \/ (j = stack[i].next /\ i = n) =>
                    at[k] = LabelMap[k][stack[i].pos]
    BY <1>2 DEF Settled
  <2>2. j \in Nat
    BY KidsAreSites
  <2>3. ASSUME NEW i \in DOMAIN stack, stack[i].site = t
        PROVE  /\ j < stack'[i].next => at[k] = LabelMap[k][Ahead(stack[i])]
               /\ j > stack'[i].next \/ (j = stack'[i].next /\ i = n) =>
                    at[k] = LabelMap[k][stack[i].pos]
    <3>1. CASE i # n
      <4>1. stack'[i] = stack[i]
        BY <1>5, <3>1
      <4>2. QED
        BY <2>1, <2>3, <3>1, <4>1
    <3>2. CASE i = n /\ j = stack[i].next
      <4>1. k = p /\ stack'[i].next = j + 1
        BY <1>9, <2>3, <3>2
      <4>2. LabelMap[k][Top.pos] = LabelMap[k][Ahead(Top)]
        BY <1>1, <4>1 DEF Due, HasValue
      <4>3. at[k] = LabelMap[k][stack[i].pos]
        BY <2>1, <2>3, <3>2
      <4> HIDE DEF k
      <4>4. stack[i] = Top
        BY <1>2, <3>2
      <4>5. QED
        BY <2>2, <4>1, <4>2, <4>3, <4>4
    <3>3. CASE i = n /\ j # stack[i].next
      <4>1. stack'[i].next = stack[i].next + 1 /\ stack[i].next \in Nat
        BY <1>2, <1>3, <1>5, <3>3
      <4>2. /\ j < stack'[i].next => j < stack[i].next
            /\ j >= stack'[i].next => j > stack[i].next
        BY <2>2, <3>3, <4>1
      <4> HIDE DEF k
      <4>3. j > stack'[i].next \/ j = stack'[i].next => j >= stack'[i].next
        BY <2>2, <4>1
      <4>4. QED
        BY <2>1, <2>3, <4>2, <4>3
    <3>4. QED
      BY <3>1, <3>2, <3>3
  <2>4. QED
    BY <2>1, <2>3
<1>11. RawBelow'
  <2> SUFFICES ASSUME NEW t \in Sites, NEW j \in DOMAIN Kids[t], Kids[t][j] \in raw, t \notin raw
               PROVE  \E i \in DOMAIN stack :
                        /\ stack[i].site = t
                        /\ ~stack[i].canonical
                        /\ j > stack'[i].next \/ (j = stack'[i].next /\ i = n)
    BY <1>1, <1>5, <1>6 DEF RawBelow
  <2>1. PICK i \in DOMAIN stack : /\ stack[i].site = t
                                  /\ ~stack[i].canonical
                                  /\ j > stack[i].next \/ (j = stack[i].next /\ i = n)
    BY <1>2 DEF RawBelow
  <2>2. CASE i # n
    BY <1>5, <2>1, <2>2
  <2>3. CASE i = n
    <3>1. j # stack[i].next
      <4>1. CASE j = stack[i].next
        <5>1. Kids[t][j] = p
          BY <1>9, <2>1, <2>3, <4>1
        <5>2. HasValue(p)
          BY <5>1 DEF Inv, TypeOK, HasValue
        <5>3. ~Top.canonical
          BY <1>2, <2>1, <2>3
        <5>4. QED
          BY <1>1, <5>2, <5>3 DEF Due
      <4>2. QED
        BY <4>1
    <3>2. j \in Nat /\ stack'[i].next = stack[i].next + 1 /\ stack[i].next \in Nat
      BY <1>2, <1>3, <1>5, <2>3, KidsAreSites
    <3>3. j > stack'[i].next \/ j = stack'[i].next
      BY <2>1, <3>1, <3>2
    <3>4. QED
      BY <2>1, <2>3, <3>3
  <2>4. QED
    BY <2>2, <2>3
<1>12. QED
  BY <1>7, <1>10, <1>11

\* The loop of an embedded family begins.
LEMMA Descended ==
  ASSUME Inv, Linked, Settled, RawBelow, Descend
  PROVE  Linked' /\ Settled' /\ RawBelow'
<1> DEFINE n == Len(stack)
           s == Top.site
           k == NextKid(Top)
           l == NewLoop(k, LabelMap[k][Top.pos], LabelMap[k][Ahead(Top)], Top.canonical)
<1>0. n \in Nat \ {0} /\ DOMAIN stack = 1 .. n
  BY StackLoops DEF Descend
<1>1. /\ Running /\ AtKids(Top) /\ HasValue(k)
      /\ stack' = Append(stack, l)
      /\ raw' = (IF Top.canonical THEN raw ELSE raw \ {k})
      /\ UNCHANGED <<request, outcome, at, lost>>
  BY DEF Descend, Due
<1>2. /\ n \in DOMAIN stack /\ Top = stack[n] /\ Top \in Loop /\ n = Len(stack)
      /\ s \in Sites /\ Top.next \in Nat /\ Top.canonical \in BOOLEAN
  BY <1>1, StackLoops
<1>3. k \in KidsOf(s) /\ k \in Sites /\ k = Kids[s][Top.next] /\ Top.next \in DOMAIN Kids[s]
  <2>1. k \in KidsOf(s) /\ k \in Sites
    BY <1>1, <1>2, NextKidType
  <2>2. Top.next \in 1 .. Len(Kids[s]) + 1 /\ Top.next <= Len(Kids[s])
    BY <1>1, <1>2, LoopFields DEF AtKids
  <2>3. QED
    BY <1>2, <2>1, <2>2, KidsAreSites DEF NextKid
<1>4. /\ l \in Loop /\ l.site = k /\ l.next = 1 /\ l.canonical = Top.canonical
      /\ l.from = LabelMap[k][Top.pos] /\ l.pos = l.from /\ l.to = LabelMap[k][Ahead(Top)]
  <2>1. Top.pos \in Labels(s) /\ Ahead(Top) \in Labels(s)
    BY <1>2, LoopFields, AheadType
  <2>2. LabelMap[k][Top.pos] \in Labels(k) /\ LabelMap[k][Ahead(Top)] \in Labels(k)
    BY <1>2, <1>3, <2>1, MapType
  <2> HIDE DEF k
  <2>3. l \in Loop
    BY <1>2, <1>3, <2>2, NewLoopType
  <2>4. QED
    BY <2>3 DEF NewLoop, LoopAt
<1> HIDE DEF n, l, k, s
<1>5. /\ Len(stack') = n + 1 /\ DOMAIN stack' = 1 .. n + 1
      /\ stack'[n + 1] = l
      /\ \A i \in DOMAIN stack : stack'[i] = stack[i]
  BY <1>1, <1>2, <1>4, PushedTop
<1>6. \A i \in DOMAIN stack' : i \in DOMAIN stack \/ i = n + 1
  BY <1>0, <1>5
<1>7. \A i \in DOMAIN stack : i \in DOMAIN stack' /\ i # n + 1 /\ i \in Nat
  BY <1>0, <1>5
<1>8. ~OnStack(k) /\ \A i \in DOMAIN stack : stack[i].site # k
  <2>1. k \in Under(s)
    BY <1>2, <1>3, UnderClosed
  <2>2. ~OnStack(k)
    BY <1>1, <2>1, BelowTop DEF s
  <2>3. QED
    BY <2>2 DEF OnStack
<1>9. at[k] # 0 /\ at[k] = l.pos
  <2>1. at[k] = LabelMap[k][Top.pos]
    BY <1>1, <1>2, <1>3, SettledTop DEF HasValue, s
  <2>2. QED
    BY <1>1, <1>4, <2>1 DEF HasValue
<1>10. k \notin raw'
  <2>1. CASE Top.canonical
    <3>1. ASSUME k \in raw PROVE FALSE
      <4>1. s \notin raw
        BY <1>2 DEF Linked, s
      <4>2. PICK i \in DOMAIN stack : stack[i].site = s /\ ~stack[i].canonical
        BY <1>2, <1>3, <3>1, <4>1 DEF RawBelow
      <4>3. i = n
        BY <1>2, <4>2 DEF Linked, s
      <4>4. QED
        BY <1>2, <2>1, <4>2, <4>3
    <3>2. QED
      BY <1>1, <2>1, <3>1
  <2>2. CASE ~Top.canonical
    BY <1>1, <2>2
  <2>3. QED
    BY <2>1, <2>2
<1>11. raw' \subseteq raw
  BY <1>1
<1>12. Linked'
  <2>1. /\ stack'[1].site = Root
        /\ stack'[1].from = Whole(request').from /\ stack'[1].to = Whole(request').to
        /\ stack'[1].canonical \/ stack'[1].from # stack'[1].to
    <3>1. 1 \in DOMAIN stack
      BY <1>0
    <3>2. stack'[1] = stack[1]
      BY <1>5, <3>1
    <3>3. QED
      BY <1>1, <3>2 DEF Linked
  <2>2. \A i \in 1 .. n :
          /\ stack'[i + 1].site = Kids[stack'[i].site][stack'[i].next]
          /\ stack'[i + 1].to = LabelMap[Kids[stack'[i].site][stack'[i].next]][Ahead(stack'[i])]
    <3> TAKE i \in 1 .. n
    <3>1. stack'[i] = stack[i]
      BY <1>0, <1>5
    <3>2. CASE i = n
      BY <1>2, <1>3, <1>4, <1>5, <3>1, <3>2 DEF s
    <3>3. CASE i # n
      <4>1. i \in 1 .. Len(stack) - 1 /\ i + 1 \in DOMAIN stack
        BY <1>0, <1>2, <3>3
      <4>2. stack'[i + 1] = stack[i + 1]
        BY <1>5, <4>1
      <4>3. /\ stack[i + 1].site = NextKid(stack[i])
            /\ stack[i + 1].to = LabelMap[NextKid(stack[i])][Ahead(stack[i])]
        BY <4>1 DEF Linked
      <4>4. QED
        BY <3>1, <4>2, <4>3 DEF NextKid
    <3>4. QED
      BY <3>2, <3>3
  <2>3. \A i, j \in DOMAIN stack' : stack'[i].site = stack'[j].site => i = j
    <3> TAKE i, j \in DOMAIN stack'
    <3>1. CASE i \in DOMAIN stack /\ j \in DOMAIN stack
      BY <1>5, <3>1 DEF Linked
    <3>2. CASE i = n + 1 \/ j = n + 1
      BY <1>4, <1>5, <1>6, <1>8, <3>2
    <3>3. QED
      BY <1>6, <3>1, <3>2
  <2>4. \A i \in DOMAIN stack' :
          /\ at[stack'[i].site] = stack'[i].pos
          /\ ~stack'[i].canonical => stack'[i].pos = stack'[i].from
          /\ stack'[i].site \notin raw'
    <3> TAKE i \in DOMAIN stack'
    <3>1. CASE i \in DOMAIN stack
      BY <1>5, <1>11, <3>1 DEF Linked
    <3>2. CASE i = n + 1
      BY <1>4, <1>5, <1>9, <1>10, <3>2
    <3>3. QED
      BY <1>6, <3>1, <3>2
  <2>5. Len(stack') - 1 = n
    BY <1>0, <1>5
  <2>6. QED
    BY <1>1, <2>1, <2>2, <2>3, <2>4, <2>5 DEF Linked, NextKid
<1>13. \A t : OnStack(t) => OnStack(t)'
  BY <1>5, <1>7 DEF OnStack
<1>14. Settled'
  <2> SUFFICES ASSUME NEW t \in Sites, NEW j \in DOMAIN Kids[t], at[Kids[t][j]] # 0
               PROVE  /\ at[t] # 0
                      /\ ~OnStack(t)' => at[Kids[t][j]] = LabelMap[Kids[t][j]][at[t]]
                      /\ \A i \in DOMAIN stack' :
                           stack'[i].site = t =>
                             /\ j < stack'[i].next =>
                                  at[Kids[t][j]] = LabelMap[Kids[t][j]][Ahead(stack'[i])]
                             /\ j > stack'[i].next \/ (j = stack'[i].next /\ i = n + 1) =>
                                  at[Kids[t][j]] = LabelMap[Kids[t][j]][stack'[i].pos]
    BY <1>1, <1>5 DEF Settled
  <2> DEFINE g == Kids[t][j]
  <2>1. /\ at[t] # 0
        /\ ~OnStack(t) => at[g] = LabelMap[g][at[t]]
        /\ \A i \in DOMAIN stack :
             stack[i].site = t =>
               /\ j < stack[i].next => at[g] = LabelMap[g][Ahead(stack[i])]
               /\ j > stack[i].next => at[g] = LabelMap[g][stack[i].pos]
    BY DEF Settled
  <2>2. j \in Nat /\ j >= 1
    BY KidsAreSites
  <2> HIDE DEF g
  <2>3. ASSUME NEW i \in DOMAIN stack', stack'[i].site = t
        PROVE  /\ j < stack'[i].next => at[g] = LabelMap[g][Ahead(stack'[i])]
               /\ j > stack'[i].next \/ (j = stack'[i].next /\ i = n + 1) =>
                    at[g] = LabelMap[g][stack'[i].pos]
    <3>1. CASE i \in DOMAIN stack
      BY <1>5, <1>7, <2>1, <2>3, <3>1
    <3>2. CASE i = n + 1
      <4>1. t = k /\ stack'[i] = l
        BY <1>4, <1>5, <2>3, <3>2
      <4>2. ~(j < stack'[i].next)
        BY <1>4, <2>2, <4>1
      <4>3. at[g] = LabelMap[g][stack'[i].pos]
        BY <1>8, <1>9, <2>1, <4>1
      <4>4. QED
        BY <4>2, <4>3
    <3>3. QED
      BY <1>6, <3>1, <3>2
  <2>4. QED
    BY <1>13, <2>1, <2>3 DEF g
<1>15. RawBelow'
  <2>1. Root \notin raw'
    BY <1>11 DEF RawBelow
  <2>2. ASSUME NEW t \in Sites, NEW j \in DOMAIN Kids[t], Kids[t][j] \in raw', t \notin raw'
        PROVE  \E i \in DOMAIN stack' :
                 /\ stack'[i].site = t
                 /\ ~stack'[i].canonical
                 /\ j > stack'[i].next \/ (j = stack'[i].next /\ i = Len(stack'))
    <3>1. Kids[t][j] \in raw /\ j \in Nat /\ j >= 1
      BY <1>11, <2>2, KidsAreSites
    <3>2. CASE t \in raw
      <4>1. t = k /\ ~Top.canonical
        BY <1>1, <2>2, <3>2
      <4>2. n + 1 \in DOMAIN stack'
        BY <1>0, <1>5
      <4>3. j > l.next \/ j = l.next
        BY <1>4, <3>1
      <4>4. stack'[n + 1] = l /\ Len(stack') = n + 1
        BY <1>5
      <4>5. QED
        BY <1>4, <4>1, <4>2, <4>3, <4>4
    <3>3. CASE t \notin raw
      <4>1. PICK i \in DOMAIN stack : /\ stack[i].site = t
                                      /\ ~stack[i].canonical
                                      /\ j > stack[i].next \/ (j = stack[i].next /\ i = n)
        BY <1>2, <3>1, <3>3 DEF RawBelow
      <4>2. ~(j = stack[i].next /\ i = n)
        BY <1>1, <1>2, <1>3, <2>2, <4>1 DEF s
      <4>3. stack'[i] = stack[i] /\ i \in DOMAIN stack'
        BY <1>5, <1>7
      <4>4. QED
        BY <4>1, <4>2, <4>3
    <3>4. QED
      BY <3>2, <3>3
  <2>3. QED
    BY <2>1, <2>2 DEF RawBelow
<1>16. QED
  BY <1>12, <1>14, <1>15

\* The loop of an embedded family returns.
LEMMA Returns ==
  ASSUME Inv, Linked, Settled, RawBelow, Return
  PROVE  Linked' /\ Settled' /\ RawBelow'
<1> DEFINE n == Len(stack)
           m == n - 1
           s == Top.site
<1>0. n \in Nat \ {0} /\ DOMAIN stack = 1 .. n
  BY StackLoops DEF Return
<1>1. Running /\ AtEnd(Top) /\ UNCHANGED <<request, outcome, at, raw, lost>>
  BY DEF Return
<1>2. n \in DOMAIN stack /\ Top = stack[n] /\ Top \in Loop /\ n = Len(stack)
      /\ s \in Sites /\ Top.next \in Nat
  BY <1>1, StackLoops
<1>3. /\ m \in DOMAIN stack /\ m + 1 = n /\ m \in Nat \ {0}
      /\ Len(stack') = m /\ DOMAIN stack' = 1 .. m
      /\ \A i \in 1 .. m - 1 : stack'[i] = stack[i]
      /\ stack'[m] = [stack[m] EXCEPT !.next = stack[m].next + 1]
      /\ stack[m] \in Loop /\ AtKids(stack[m])
  BY <1>1, PoppedTop
<1>4. /\ stack'[m].site = stack[m].site /\ stack'[m].from = stack[m].from
      /\ stack'[m].to = stack[m].to /\ stack'[m].pos = stack[m].pos
      /\ stack'[m].canonical = stack[m].canonical /\ stack'[m].next = stack[m].next + 1
      /\ stack[m].next \in Nat
  BY <1>3, LoopFields DEF Loop
<1>5. Ahead(stack'[m]) = Ahead(stack[m])
  BY <1>4 DEF Ahead, Arrived
<1>6. /\ s = NextKid(stack[m]) /\ Top.to = LabelMap[s][Ahead(stack[m])]
      /\ at[s] = Top.pos /\ Top.pos = Top.to /\ Ahead(Top) = Top.pos
  <2>1. m \in 1 .. Len(stack) - 1
    BY <1>3
  <2>2. stack[m + 1] = Top
    BY <1>2, <1>3
  <2>3. at[s] = Top.pos
    BY <1>2 DEF Linked
  <2>4. Top.pos = Top.to /\ Ahead(Top) = Top.pos
    BY <1>1 DEF AtEnd, Arrived, Ahead
  <2>5. s = NextKid(stack[m]) /\ Top.to = LabelMap[NextKid(stack[m])][Ahead(stack[m])]
    BY <2>1, <2>2 DEF Linked
  <2>6. QED
    BY <2>3, <2>4, <2>5
<1>7. Top.canonical \/ Top.next > Len(Kids[s])
  <2>1. CASE ~Top.canonical
    <3>1. Top.from = Top.to
      BY <1>2, <1>6, <2>1 DEF Linked
    <3>2. s # Root
      <4>1. 1 \in DOMAIN stack /\ stack[1].site = Root
        BY <1>0, <1>1 DEF Linked
      <4>2. n # 1
        BY <1>3
      <4>3. QED
        BY <1>2, <4>1, <4>2 DEF Linked
    <3>3. ~(Top.next <= Len(Kids[s]))
      BY <1>1, <3>1, <3>2 DEF AtEnd, AtKids
    <3>4. QED
      BY <1>2, <3>3, KidsAreSites
  <2>2. QED
    BY <2>1
<1> HIDE DEF n, m, s
<1>8. \A i \in DOMAIN stack' :
        /\ i \in DOMAIN stack /\ i # n
        /\ i = m \/ stack'[i] = stack[i]
        /\ stack'[i].site = stack[i].site /\ stack'[i].pos = stack[i].pos
        /\ stack'[i].canonical = stack[i].canonical /\ Ahead(stack'[i]) = Ahead(stack[i])
  <2> TAKE i \in DOMAIN stack'
  <2>1. i \in DOMAIN stack /\ i # n /\ (i = m \/ i \in 1 .. m - 1)
    BY <1>0, <1>3
  <2>2. CASE i = m
    BY <1>4, <1>5, <2>1, <2>2
  <2>3. CASE i \in 1 .. m - 1
    BY <1>3, <2>1, <2>3
  <2>4. QED
    BY <2>1, <2>2, <2>3
<1>9. \A i \in DOMAIN stack : i \in DOMAIN stack' \/ i = n
  BY <1>0, <1>3
<1>10. Linked'
  <2>1. at[stack[m].site] = stack[m].pos /\ (~stack[m].canonical => stack[m].pos = stack[m].from)
    BY <1>3 DEF Linked
  <2>2. \A i \in 1 .. m - 1 : stack'[i] = stack[i]
    BY <1>3
  <2>3. QED
    BY <1>1, <1>3, <1>4, <2>1, <2>2, LinkedKept
<1>11. \A t : OnStack(t)' \/ ~OnStack(t) \/ t = s
  BY <1>2, <1>8, <1>9 DEF OnStack, s
<1>12. ASSUME NEW t \in Sites, NEW j \in DOMAIN Kids[t], stack[m].site = t, j = stack[m].next
       PROVE  Kids[t][j] = s
  BY <1>6, <1>12 DEF NextKid
<1>13. Settled'
  <2> SUFFICES ASSUME NEW t \in Sites, NEW j \in DOMAIN Kids[t], at[Kids[t][j]] # 0
               PROVE  /\ at[t] # 0
                      /\ ~OnStack(t)' => at[Kids[t][j]] = LabelMap[Kids[t][j]][at[t]]
                      /\ \A i \in DOMAIN stack' :
                           stack'[i].site = t =>
                             /\ j < stack'[i].next =>
                                  at[Kids[t][j]] = LabelMap[Kids[t][j]][Ahead(stack'[i])]
                             /\ j > stack'[i].next \/ (j = stack'[i].next /\ i = m) =>
                                  at[Kids[t][j]] = LabelMap[Kids[t][j]][stack'[i].pos]
    BY <1>1, <1>3 DEF Settled
  <2> DEFINE g == Kids[t][j]
  <2>1. /\ at[t] # 0
        /\ ~OnStack(t) => at[g] = LabelMap[g][at[t]]
        /\ \A i \in DOMAIN stack :
             stack[i].site = t =>
               /\ j < stack[i].next => at[g] = LabelMap[g][Ahead(stack[i])]
               /\ j > stack[i].next => at[g] = LabelMap[g][stack[i].pos]
    BY DEF Settled
  <2>2. j \in Nat
    BY KidsAreSites
  <2>3. t = s => at[g] = LabelMap[g][at[t]]
    <3>1. ASSUME t = s PROVE at[g] = LabelMap[g][at[t]]
      <4>1. at[g] = LabelMap[g][Top.pos]
        <5>1. t = Top.site
          BY <3>1 DEF s
        <5>2. j < Top.next \/ j >= Top.next
          BY <1>2, <2>2
        <5>3. QED
          BY <1>1, <1>6, <5>1, <5>2, SettledTop
      <4>2. QED
        BY <1>6, <3>1, <4>1
    <3>2. QED
      BY <3>1
  <2>4. ASSUME NEW i \in DOMAIN stack', stack'[i].site = t
        PROVE  /\ j < stack'[i].next => at[g] = LabelMap[g][Ahead(stack'[i])]
               /\ j > stack'[i].next \/ (j = stack'[i].next /\ i = m) =>
                    at[g] = LabelMap[g][stack'[i].pos]
    <3>1. CASE i # m
      BY <1>8, <2>1, <2>4, <3>1
    <3>2. CASE i = m
      <4>1. stack[m].site = t
        BY <1>8, <2>4, <3>2
      <4>2. CASE j = stack[m].next
        <5>1. g = s
          BY <1>12, <4>1, <4>2
        <5>2. at[g] = LabelMap[g][Ahead(stack'[i])]
          BY <1>5, <1>6, <3>2, <5>1
        <5>3. ~(j > stack'[i].next) /\ j # stack'[i].next
          BY <1>4, <2>2, <3>2, <4>2
        <5>4. QED
          BY <5>2, <5>3
      <4>3. CASE j # stack[m].next
        <5> HIDE DEF g
        <5>1. /\ j < stack'[i].next => j < stack[m].next
              /\ j > stack'[i].next \/ j = stack'[i].next => j > stack[m].next
          BY <1>4, <2>2, <3>2, <4>3
        <5>2. m \in DOMAIN stack
          BY <1>3
        <5>3. /\ j < stack[m].next => at[g] = LabelMap[g][Ahead(stack[m])]
              /\ j > stack[m].next => at[g] = LabelMap[g][stack[m].pos]
          BY <2>1, <4>1, <5>2
        <5>4. Ahead(stack'[i]) = Ahead(stack[m]) /\ stack'[i].pos = stack[m].pos
          BY <1>4, <1>5, <3>2
        <5>5. QED
          BY <5>1, <5>3, <5>4
      <4>4. QED
        BY <4>2, <4>3
    <3>3. QED
      BY <3>1, <3>2
  <2>5. QED
    BY <1>11, <2>1, <2>3, <2>4
<1>14. RawBelow'
  <2> SUFFICES ASSUME NEW t \in Sites, NEW j \in DOMAIN Kids[t], Kids[t][j] \in raw, t \notin raw
               PROVE  \E i \in DOMAIN stack' :
                        /\ stack'[i].site = t
                        /\ ~stack'[i].canonical
                        /\ j > stack'[i].next \/ (j = stack'[i].next /\ i = m)
    BY <1>1, <1>3 DEF RawBelow
  <2>1. PICK i \in DOMAIN stack : /\ stack[i].site = t
                                  /\ ~stack[i].canonical
                                  /\ j > stack[i].next \/ (j = stack[i].next /\ i = n)
    BY <1>2 DEF RawBelow
  <2>2. j \in Nat /\ j <= Len(Kids[t])
    BY KidsAreSites
  <2>3. i # n
    <3>1. CASE i = n
      <4>1. t = s /\ Top.next > Len(Kids[t]) /\ j >= Top.next
        <5>1. stack[i] = Top
          BY <1>2, <3>1
        <5>2. t = s
          BY <2>1, <5>1 DEF s
        <5>3. ~Top.canonical /\ Len(Kids[s]) \in Nat
          BY <1>2, <2>1, <5>1, KidsAreSites
        <5>4. Top.next > Len(Kids[t])
          BY <1>7, <5>2, <5>3
        <5>5. j >= Top.next
          BY <1>2, <2>1, <2>2, <5>1
        <5>6. QED
          BY <5>2, <5>4, <5>5
      <4>2. QED
        BY <1>2, <2>2, <4>1, KidsAreSites
    <3>2. QED
      BY <3>1
  <2>4. i \in DOMAIN stack' /\ j > stack[i].next
    BY <1>9, <2>1, <2>3
  <2>5. CASE i # m
    BY <1>8, <2>1, <2>4, <2>5
  <2>6. CASE i = m
    <3>1. j > stack'[m].next \/ j = stack'[m].next
      BY <1>4, <2>2, <2>4, <2>6
    <3>2. QED
      BY <1>4, <2>1, <2>4, <2>6, <3>1
  <2>7. QED
    BY <2>5, <2>6
<1>15. QED
  BY <1>10, <1>13, <1>14

\* The outermost loop ends.
LEMMA Finished ==
  ASSUME Inv, Linked, Settled, RawBelow, Finish
  PROVE  Linked' /\ Settled' /\ RawBelow' /\ at'[Root] = Whole(request').to
<1>1. /\ Running /\ AtEnd(Top) /\ Len(stack) = 1 /\ stack' = <<>>
      /\ UNCHANGED <<request, at, raw>>
  BY DEF Finish
<1>2. DOMAIN stack = {1} /\ Top = stack[1] /\ DOMAIN stack' = {} /\ Len(stack') = 0
  BY <1>1, StackLoops, EmptySeq, LenProperties DEF Top
<1>3. /\ Top.site = Root /\ at[Root] = Top.pos /\ Top.pos = Top.to /\ Ahead(Top) = Top.pos
      /\ Top.to = Whole(request).to /\ Top.canonical
  <2>1. Top.pos = Top.to /\ Ahead(Top) = Top.pos
    BY <1>1 DEF AtEnd, Arrived, Ahead
  <2>2. /\ Top.site = Root /\ Top.to = Whole(request).to
        /\ Top.canonical \/ Top.from # Top.to
    BY <1>1, <1>2 DEF Linked
  <2>3. at[Top.site] = Top.pos /\ (~Top.canonical => Top.pos = Top.from)
    BY <1>2 DEF Linked
  <2>4. QED
    BY <2>1, <2>2, <2>3
<1>4. Linked'
  BY <1>1, <1>2 DEF Linked, Running
<1>5. Settled'
  <2> SUFFICES ASSUME NEW t \in Sites, NEW j \in DOMAIN Kids[t], at[Kids[t][j]] # 0
               PROVE  at[t] # 0 /\ at[Kids[t][j]] = LabelMap[Kids[t][j]][at[t]]
    BY <1>1, <1>2 DEF Settled
  <2>1. at[t] # 0 /\ (~OnStack(t) => at[Kids[t][j]] = LabelMap[Kids[t][j]][at[t]])
    BY DEF Settled
  <2>2. CASE t = Root
    <3>1. Top.next \in Nat /\ j \in Nat
      BY <1>1, StackLoops, KidsAreSites
    <3>2. j < Top.next \/ j >= Top.next
      BY <3>1
    <3>3. at[Kids[t][j]] = LabelMap[Kids[t][j]][Top.pos]
      BY <1>1, <1>3, <2>2, <3>2, SettledTop
    <3>4. QED
      BY <1>3, <2>1, <2>2, <3>3
  <2>3. CASE t # Root
    <3>1. ~OnStack(t)
      BY <1>2, <1>3, <2>3 DEF OnStack
    <3>2. QED
      BY <2>1, <3>1
  <2>4. QED
    BY <2>2, <2>3
<1>6. RawBelow'
  BY <1>1, <1>2, <1>3 DEF RawBelow
<1>7. QED
  BY <1>1, <1>3, <1>4, <1>5, <1>6

\* Every site is the root or below it.
LEMMA AllSites == Sites = {Root} \cup Under(Root)
<1>1. Root \in Sites
  BY SitesAssumption
<1> DEFINE S == {Root} \cup Under(Root)
<1>2. S \in SUBSET Sites /\ Root \in S /\ \A t \in S : KidsOf(t) \subseteq S
  BY <1>1, UnderClosed
<1> HIDE DEF S
<1>3. S = Sites
  BY <1>2, TreeAssumption
<1>4. QED
  BY <1>3 DEF S

\* An operation begins with a payload that follows its first label.
LEMMA Begins ==
  ASSUME NEW r \in Request, Begin(r), outcome' = "running"
  PROVE  Linked' /\ Settled' /\ RawBelow'
<1> DEFINE route == Whole(r)
           explicit == r.op = "validate" /\ r.label \in Explicit
           l == NewLoop(Root, route.from, route.to, ~explicit)
<1>1. /\ request' = r /\ stack' = <<l>>
      /\ at'[Root] = route.from /\ Aligned(at', Root, route.from)
      /\ raw' = IF explicit THEN {d \in Sites \ {Root} : at'[d] # 0} ELSE {}
  BY DEF Begin
<1>2. /\ l.site = Root /\ l.from = route.from /\ l.to = route.to /\ l.pos = route.from
      /\ l.next = 1 /\ l.canonical = ~explicit
  BY DEF NewLoop, LoopAt
<1>3. explicit => route.from # route.to
  BY SitesAssumption DEF Whole, RouteOf, EdgesOf
<1>4. route.from # 0 /\ Root \in Sites
  BY SitesAssumption DEF Whole, RouteOf, Request, Labels
<1> HIDE DEF l, explicit
<1>5. DOMAIN stack' = {1} /\ Len(stack') = 1 /\ stack'[1] = l /\ stack' # <<>>
  BY <1>1
<1>6. Root \notin raw'
  BY <1>1
<1>7. Linked'
  <2>1. /\ stack'[1].site = Root
        /\ stack'[1].from = Whole(request').from /\ stack'[1].to = Whole(request').to
        /\ stack'[1].canonical \/ stack'[1].from # stack'[1].to
    BY <1>1, <1>2, <1>3, <1>5
  <2>2. 1 .. Len(stack') - 1 = {}
    BY <1>5
  <2>3. \A i \in DOMAIN stack' :
          /\ at'[stack'[i].site] = stack'[i].pos
          /\ ~stack'[i].canonical => stack'[i].pos = stack'[i].from
          /\ stack'[i].site \notin raw'
    BY <1>1, <1>2, <1>5, <1>6
  <2>4. QED
    BY <1>5, <2>1, <2>2, <2>3 DEF Linked
<1>8. ASSUME NEW t \in Sites, NEW k \in KidsOf(t), at'[k] # 0
      PROVE  /\ at'[t] # 0
             /\ at'[k] = LabelMap[k][at'[t]]
  <2>1. t = Root \/ at'[t] # 0
    BY <1>1, <1>8, AllSites DEF Aligned
  <2>2. at'[k] = LabelMap[k][IF t = Root THEN route.from ELSE at'[t]]
    BY <1>1, <1>8, AllSites DEF Aligned
  <2>3. QED
    BY <1>1, <1>4, <2>1, <2>2
<1>9. Settled'
  <2> SUFFICES ASSUME NEW t \in Sites, NEW j \in DOMAIN Kids[t], at'[Kids[t][j]] # 0
               PROVE  /\ at'[t] # 0
                      /\ at'[Kids[t][j]] = LabelMap[Kids[t][j]][at'[t]]
                      /\ \A i \in DOMAIN stack' :
                           stack'[i].site = t => ~(j < stack'[i].next) /\ stack'[i].pos = at'[t]
    BY DEF Settled
  <2>1. j \in Nat /\ j >= 1 /\ Kids[t][j] \in KidsOf(t)
    BY KidsAreSites
  <2>2. at'[t] # 0 /\ at'[Kids[t][j]] = LabelMap[Kids[t][j]][at'[t]]
    BY <1>8, <2>1
  <2>3. QED
    BY <1>1, <1>2, <1>5, <2>1, <2>2
<1>10. RawBelow'
  <2>1. ASSUME NEW t \in Sites, NEW j \in DOMAIN Kids[t], Kids[t][j] \in raw', t \notin raw'
        PROVE  \E i \in DOMAIN stack' :
                 /\ stack'[i].site = t
                 /\ ~stack'[i].canonical
                 /\ j > stack'[i].next \/ (j = stack'[i].next /\ i = Len(stack'))
    <3>1. explicit /\ at'[Kids[t][j]] # 0
      BY <1>1, <2>1
    <3>2. j \in Nat /\ j >= 1 /\ Kids[t][j] \in KidsOf(t)
      BY KidsAreSites
    <3>3. at'[t] # 0
      BY <1>8, <3>1, <3>2
    <3>4. t = Root
      BY <1>1, <2>1, <3>1, <3>3
    <3>5. 1 \in DOMAIN stack' /\ (j > 1 \/ j = 1)
      BY <1>5, <3>2
    <3>6. QED
      BY <1>2, <1>5, <3>1, <3>4, <3>5
  <2>2. QED
    BY <1>6, <2>1 DEF RawBelow
<1>11. QED
  BY <1>7, <1>9, <1>10

-----------------------------------------------------------------------------
(* The invariant. *)

\* Before the first operation there is no payload.
LEMMA TreeInit == Init => TreeInv
  BY InvInit DEF Init, TreeInv

\* A running conversion has the invariant of running conversions.
LEMMA TreeRunning ==
  ASSUME TreeInv, Running
  PROVE  Inv /\ Linked /\ Settled /\ RawBelow /\ outcome = "running"
  BY DEF TreeInv, Inv, TypeOK, Running

\* Every step keeps the invariant.
LEMMA TreeStep == TreeInv /\ [Next]_vars => TreeInv'
<1> SUFFICES ASSUME TreeInv, [Next]_vars
             PROVE  TreeInv'
  OBVIOUS
<1>1. Inv /\ Inv'
  BY InvStep DEF TreeInv
<1>2. ASSUME outcome' = "running", Linked' /\ Settled' /\ RawBelow'
      PROVE  TreeInv'
  BY <1>1, <1>2 DEF TreeInv
<1>3. ASSUME NEW r \in Request, Begin(r)
      PROVE  TreeInv'
  <2>1. CASE outcome' = "running"
    BY <1>2, <1>3, <2>1, Begins
  <2>2. CASE outcome' # "running"
    <3>1. outcome' = "irreversible"
      BY <1>3, <2>2 DEF Begin
    <3>2. QED
      BY <1>1, <3>1 DEF TreeInv
  <2>3. QED
    BY <2>1, <2>2
<1>4. CASE Pass
  <2>1. Running /\ outcome' = outcome
    BY <1>4 DEF Pass
  <2>2. QED
    BY <1>2, <1>4, <2>1, TreeRunning, Passed
<1>5. CASE Descend
  <2>1. Running /\ outcome' = outcome
    BY <1>5 DEF Descend
  <2>2. QED
    BY <1>2, <1>5, <2>1, TreeRunning, Descended
<1>6. CASE Identity
  <2>1. Running /\ AtEdge(Top) /\ Advanced /\ outcome' = outcome /\ request' = request
    BY <1>6 DEF Identity
  <2>2. Linked' /\ Settled' /\ RawBelow'
    BY <1>6, <2>1, TreeRunning, IdentityReturns, Moved
  <2>3. QED
    BY <1>2, <2>1, <2>2, TreeRunning
<1>7. CASE Callback
  <2>1. /\ Running /\ AtEdge(Top) /\ Advanced /\ outcome' = outcome /\ request' = request
        /\ Returned(at', Top.site, Ahead(Top)) /\ raw' = {d \in raw : at'[d] # 0}
    BY <1>7 DEF Callback
  <2>2. Linked' /\ Settled' /\ RawBelow'
    BY <2>1, TreeRunning, Moved
  <2>3. QED
    BY <1>2, <2>1, <2>2, TreeRunning
<1>8. CASE Reject
  <2>1. outcome' = "invalid"
    BY <1>8 DEF Reject
  <2>2. QED
    BY <1>1, <2>1 DEF TreeInv
<1>9. CASE Return
  <2>1. Running /\ outcome' = outcome
    BY <1>9 DEF Return
  <2>2. QED
    BY <1>2, <1>9, <2>1, TreeRunning, Returns
<1>10. CASE Finish
  <2>1. Running /\ request' = request
    BY <1>10 DEF Finish
  <2>2. Linked' /\ Settled' /\ RawBelow' /\ at'[Root] = Whole(request').to
    BY <1>10, <2>1, TreeRunning, Finished
  <2>3. QED
    BY <1>1, <2>2 DEF TreeInv
<1>11. CASE UNCHANGED vars
  BY <1>1, <1>11 DEF TreeInv, vars, Linked, Running, Settled, OnStack, RawBelow
<1>12. QED
  BY <1>3, <1>4, <1>5, <1>6, <1>7, <1>8, <1>9, <1>10, <1>11 DEF Next

\* No wire names are left at or below a site whose loop has passed all declarations.
LEMMA CanonicalAtEdge ==
  ASSUME TreeInv, Running, AtEdge(Top)
  PROVE  raw \cap ({Top.site} \cup Under(Top.site)) = {}
<1> DEFINE s == Top.site
           S == {d \in Sites : d \notin raw /\ ~OnStack(d)}
<1>1. Inv /\ Linked /\ RawBelow
  BY TreeRunning
<1>2. /\ s \in Sites /\ s \notin raw /\ Top = stack[Len(stack)] /\ Len(stack) \in DOMAIN stack
      /\ Top.next = Len(Kids[s]) + 1
  BY <1>1, StackLoops DEF Linked, AtEdge
<1>3. ASSUME NEW t \in Sites, NEW k \in KidsOf(t), t = s \/ t \in S, k \in Under(s)
      PROVE  k \in S
  <2>1. PICK j \in DOMAIN Kids[t] : k = Kids[t][j]
    BY DEF KidsOf
  <2>2. k \in Sites /\ ~OnStack(k)
    BY <1>1, <1>3, BelowTop
  <2>3. ASSUME k \in raw PROVE FALSE
    <3>1. t \notin raw
      BY <1>2, <1>3
    <3>2. PICK i \in DOMAIN stack : /\ stack[i].site = t
                                    /\ j > stack[i].next \/ (j = stack[i].next /\ i = Len(stack))
      BY <1>1, <2>1, <2>3, <3>1 DEF RawBelow
    <3>3. t = s
      BY <1>3, <3>2 DEF OnStack
    <3>4. i = Len(stack)
      BY <1>1, <1>2, <3>2, <3>3 DEF Linked
    <3>5. j > Top.next \/ j = Top.next
      BY <1>2, <3>2, <3>4
    <3>6. j \in Nat /\ j <= Len(Kids[s]) /\ Len(Kids[s]) \in Nat
      BY <1>2, <3>3, KidsAreSites
    <3>7. QED
      BY <1>2, <3>5, <3>6
  <2>4. QED
    BY <2>2, <2>3
<1> DEFINE U == {d \in Under(s) : d \in S}
<1>4. U \in SUBSET Sites /\ KidsOf(s) \subseteq U /\ \A t \in U : KidsOf(t) \subseteq U
  BY <1>2, <1>3, UnderClosed
<1> HIDE DEF U
<1>5. Under(s) \subseteq U
  BY <1>2, <1>4, UnderLeast
<1>6. QED
  BY <1>2, <1>5 DEF U

\* The invariant keeps callbacks from seeing embedded values of another version.
LEMMA TreeChildren == TreeInv => ChildrenFirst
<1> SUFFICES ASSUME TreeInv, Running, AtEdge(Top)
             PROVE  /\ at[Top.site] = Top.pos
                    /\ Aligned(at, Top.site, Ahead(Top))
                    /\ raw \cap ({Top.site} \cup Under(Top.site)) = {}
  BY DEF ChildrenFirst
<1> DEFINE s == Top.site
<1>1. Inv /\ Linked /\ Settled
  BY TreeRunning
<1>2. at[s] = Top.pos /\ s \in Sites /\ Top.next = Len(Kids[s]) + 1
  BY <1>1, StackLoops DEF Linked, AtEdge
<1>3. ASSUME NEW t \in {s} \cup Under(s), NEW k \in KidsOf(t), at[k] # 0
      PROVE  /\ t = s \/ at[t] # 0
             /\ at[k] = LabelMap[k][IF t = s THEN Ahead(Top) ELSE at[t]]
  <2>1. CASE t = s
    <3>1. PICK j \in DOMAIN Kids[s] : k = Kids[s][j]
      BY <2>1 DEF KidsOf
    <3>2. j < Top.next
      BY <1>2, <3>1, KidsAreSites
    <3>3. at[k] = LabelMap[k][Ahead(Top)]
      BY <1>1, <1>3, <3>1, <3>2, SettledTop
    <3>4. QED
      BY <2>1, <3>3
  <2>2. CASE t # s
    BY <1>1, <1>3, <2>2, SettledBelow
  <2>3. QED
    BY <2>1, <2>2
<1>4. Aligned(at, s, Ahead(Top))
  BY <1>3 DEF Aligned
<1>5. QED
  BY <1>2, <1>4, CanonicalAtEdge

\* The invariant leaves nothing behind when a conversion ends.
LEMMA TreeDelivered == TreeInv => Delivered
<1> SUFFICES ASSUME TreeInv, outcome = "done"
             PROVE  /\ at[Root] = Whole(request).to
                    /\ Aligned(at, Root, at[Root])
                    /\ raw = {}
  BY DEF Delivered
<1>1. /\ Inv /\ Settled /\ RawBelow /\ at[Root] = Whole(request).to
      /\ stack = <<>> /\ DOMAIN stack = {}
  <2>1. stack = <<>>
    BY DEF TreeInv, Inv, TypeOK
  <2>2. QED
    BY <2>1, EmptySeq, LenProperties DEF TreeInv
<1>2. ASSUME NEW t \in Sites, NEW k \in KidsOf(t), at[k] # 0
      PROVE  at[t] # 0 /\ at[k] = LabelMap[k][at[t]]
  <2>1. PICK j \in DOMAIN Kids[t] : k = Kids[t][j]
    BY DEF KidsOf
  <2>2. ~OnStack(t)
    BY <1>1 DEF OnStack
  <2>3. QED
    BY <1>1, <1>2, <2>1, <2>2 DEF Settled
<1>3. Aligned(at, Root, at[Root])
  BY <1>2, AllSites DEF Aligned
<1>4. raw = {}
  <2> DEFINE S == Sites \ raw
  <2>1. Root \in S
    BY <1>1, SitesAssumption DEF RawBelow
  <2>2. ASSUME NEW t \in S PROVE KidsOf(t) \subseteq S
    <3>1. ASSUME NEW j \in DOMAIN Kids[t] PROVE Kids[t][j] \in S
      BY <1>1, KidsAreSites DEF RawBelow
    <3>2. QED
      BY <3>1 DEF KidsOf
  <2>3. S \in SUBSET Sites
    OBVIOUS
  <2> HIDE DEF S
  <2>4. S = Sites
    BY <2>1, <2>2, <2>3, TreeAssumption
  <2>5. QED
    BY <1>1, <2>4 DEF S, Inv, TypeOK
<1>5. QED
  BY <1>1, <1>3, <1>4

\* A transition callback finds the embedded values, at every depth, already at the
\* labels that go with its target and with canonical field names, in any tree of
\* families and whatever earlier callbacks dropped or supplied
\* (_runtime.py:185-205, _runtime_nested.py:1541-1585).
THEOREM ChildrenFirstCorrect == Spec => []ChildrenFirst
  BY TreeInit, TreeStep, TreeChildren, PTL DEF Spec

\* A conversion that succeeds has taken every embedded value, at any depth, to the
\* label that the target label selects through all the maps on its way, and no wire
\* names survive (_runtime.py:211-258, 336-412).
THEOREM DeliveredCorrectly == Spec => []Delivered
  BY TreeInit, TreeStep, TreeDelivered, PTL DEF Spec

-----------------------------------------------------------------------------
(* Labels. *)

\* A set of natural numbers has a least element.
LEMMA NatMin ==
  ASSUME NEW T \in SUBSET Nat, T # {}
  PROVE  \E x \in T : \A y \in T : x <= y
<1> DEFINE R == OpToRel(<, Nat)
<1>1. IsWellFoundedOn(R, Nat)
  BY NatLessThanWellFounded, Zenon
<1>2. \A x, y \in Nat : x < y <=> <<x, y>> \in R
  BY DEF OpToRel
<1> HIDE DEF R
<1>3. PICK x \in T : \A y \in T : ~(<<y, x>> \in R)
  BY <1>1, WFMin
<1>4. x \in Nat /\ \A y \in T : y \in Nat /\ ~(y < x)
  BY <1>2, <1>3
<1>5. \A y \in T : x <= y
  BY <1>4
<1>6. QED
  BY <1>5

\* Induction over the natural numbers.
LEMMA NatInd ==
  ASSUME NEW S, 0 \in S, \A n \in Nat : n \in S => n + 1 \in S
  PROVE  Nat \subseteq S
<1> DEFINE T == Nat \ S
<1>1. SUFFICES ASSUME T # {}
               PROVE  FALSE
  OBVIOUS
<1>2. PICK x \in T : \A y \in T : x <= y
  BY <1>1, NatMin
<1>3. x # 0 /\ x - 1 \in Nat /\ (x - 1) + 1 = x
  OBVIOUS
<1>4. x - 1 \in S
  BY <1>2, <1>3
<1>5. QED
  BY <1>3, <1>4

\* Where the label of an embedded family is above e at the current label of its owner
\* and not above it at label c, there is an edge of the owner between them that takes
\* it over e.
LEMMA CrossedAt ==
  ASSUME NEW s \in Sites, NEW k \in KidsOf(s), NEW c \in Labels(s), NEW e \in Nat,
         LabelMap[k][c] <= e, e < Size[k]
  PROVE  \E x \in c .. Size[s] - 1 : LabelMap[k][x] <= e /\ e < LabelMap[k][x + 1]
<1> DEFINE f(x) == LabelMap[k][x]
           T == {y \in Nat : y \in c + 1 .. Size[s] /\ f(y) > e}
<1>1. Size[s] \in Nat \ {0} /\ c \in Nat \ {0} /\ c <= Size[s] /\ f(Size[s]) = Size[k]
      /\ Size[k] \in Nat /\ k \in Sites
  <2>1. k \in Sites
    BY SitesAssumption DEF KidsOf
  <2>2. QED
    BY <2>1, SitesAssumption DEF Labels
<1>2. \A y \in c .. Size[s] : f(y) \in Nat
  <2> TAKE y \in c .. Size[s]
  <2>1. y \in Labels(s)
    BY <1>1 DEF Labels
  <2>2. QED
    BY <2>1, MapType, SitesAssumption DEF Labels
<1>3. c # Size[s]
  BY <1>1
<1>4. Size[s] \in T
  BY <1>1, <1>3
<1>5. PICK y \in T : \A z \in T : y <= z
  BY <1>4, NatMin
<1> DEFINE x == y - 1
<1>6. y \in c + 1 .. Size[s] /\ f(y) > e /\ x \in c .. Size[s] - 1 /\ x + 1 = y /\ x \in Nat
  BY <1>1, <1>5
<1>7. f(x) <= e
  <2>1. CASE x = c
    BY <2>1
  <2>2. CASE x # c
    <3>1. x \in c + 1 .. Size[s] /\ ~(y <= x) /\ x \in c .. Size[s]
      BY <1>1, <1>6, <2>2
    <3>2. ~(f(x) > e)
      BY <1>5, <1>6, <3>1
    <3>3. QED
      BY <1>2, <3>1, <3>2
  <2>3. QED
    BY <2>1, <2>2
<1>8. QED
  BY <1>6, <1>7

-----------------------------------------------------------------------------
(* Losses. *)

\* A label to which an embedded family advances while its owner goes back has all the
\* fields of its family.  Monotone label maps have no such label.
ForwardKeepsFields ==
  \A s \in Sites : \A k \in KidsOf(s) : \A a, b \in Labels(s) :
    a < b /\ LabelMap[k][b] < LabelMap[k][a] => LabelMap[k][a] \notin Removes[k]

Harmless(r) == Semantics[r] \notin {"lossy", "unavailable"}

\* The loop of a harmless route, and those it enters, run no lossy downgrade.
Quiet(l) ==
  \A move \in Moves(RouteOf(l.site, l.from, l.to)) :
    /\ \A n \in NestedRoutes(l.site, move) : Harmless(n)
    /\ l.from > l.to => Downgrades[l.site][move[2]] # "lossy"

\* Every edge between the current label of s and label c is gone back over by a
\* harmless route, and the projection at c removes nothing.
Covered(s, c) ==
  /\ \A e \in c .. Size[s] - 1 :
       \E a \in e + 1 .. Size[s], b \in 1 .. e : Harmless(RouteOf(s, a, b))
  /\ c \notin Removes[s]

\* What is among the risks decides about the worst of them.
LEMMA WorstHarmless ==
  ASSUME NEW risks, NEW default, Worst(risks, default) \notin {"lossy", "unavailable"}
  PROVE  "lossy" \notin risks /\ "unavailable" \notin risks
  BY DEF Worst

\* A harmless route risks nothing, at its site or below.
LEMMA HarmlessRoute ==
  ASSUME NEW r \in Route, Harmless(r)
  PROVE  /\ "lossy" \notin OwnRisks(r)
         /\ \A move \in Moves(r) : \A n \in NestedRoutes(r.site, move) : Harmless(n)
<1>1. /\ "lossy" \notin OwnRisks(r) \cup NestedRouteRisks(Semantics, r)
      /\ "unavailable" \notin OwnRisks(r) \cup NestedRouteRisks(Semantics, r)
  BY SemanticsOf, WorstHarmless DEF Harmless, NestedRouteSemantics
<1>2. \A move \in Moves(r) : \A n \in NestedRoutes(r.site, move) :
        Semantics[n] \in NestedRouteRisks(Semantics, r)
  BY DEF NestedRouteRisks
<1>3. QED
  BY <1>1, <1>2 DEF Harmless

\* A route that risks nothing makes a quiet loop.
LEMMA QuietIfHarmless ==
  ASSUME NEW l, l.site \in Sites, l.from \in Labels(l.site), l.to \in Labels(l.site),
         Harmless(RouteOf(l.site, l.from, l.to))
  PROVE  Quiet(l)
<1> DEFINE r == RouteOf(l.site, l.from, l.to)
<1>1. r \in Route /\ r.site = l.site /\ r.from = l.from /\ r.to = l.to
  BY RouteFields
<1> HIDE DEF r
<1>2. /\ "lossy" \notin OwnRisks(r)
      /\ \A move \in Moves(r) : \A n \in NestedRoutes(l.site, move) : Harmless(n)
  BY <1>1, HarmlessRoute DEF r
<1>3. ASSUME l.from > l.to, NEW move \in Moves(r), Downgrades[l.site][move[2]] = "lossy"
      PROVE  FALSE
  <2>1. ~(r.from < r.to)
    BY <1>1, <1>3, SitesAssumption DEF Labels
  <2>2. DowngradeSemantics(r.site, move[2]) = "lossy"
    BY <1>1, <1>3 DEF DowngradeSemantics
  <2>3. DowngradeSemantics(r.site, move[2]) \in OwnRisks(r)
    BY <1>3, <2>1 DEF OwnRisks
  <2>4. QED
    BY <1>2, <2>2, <2>3
<1>4. QED
  BY <1>2, <1>3 DEF Quiet, r

\* A route between equal labels makes no move.
LEMMA QuietIfEmpty ==
  ASSUME NEW l, l.site \in Sites, l.from \in Labels(l.site), l.to = l.from
  PROVE  Quiet(l)
<1>1. l.from \in Nat
  BY SitesAssumption DEF Labels
<1>2. Moves(RouteOf(l.site, l.from, l.to)) = {}
  BY <1>1 DEF Moves, RouteOf
<1>3. QED
  BY <1>2 DEF Quiet

\* A quiet loop enters quiet loops.
LEMMA QuietDescend ==
  ASSUME NEW l \in Loop, AtKids(l), Quiet(l), NEW new,
         new.site = NextKid(l), new.from = LabelMap[NextKid(l)][l.pos],
         new.to = LabelMap[NextKid(l)][Ahead(l)]
  PROVE  Quiet(new)
<1> DEFINE k == NextKid(l)
<1>1. /\ l.site \in Sites /\ l.pos \in Labels(l.site) /\ Ahead(l) \in Labels(l.site)
      /\ k \in KidsOf(l.site) /\ k \in Sites
  BY LoopFields, AheadType, NextKidType
<1>2. new.site = k /\ new.from = LabelMap[k][l.pos] /\ new.to = LabelMap[k][Ahead(l)]
  OBVIOUS
<1> HIDE DEF k
<1>3. new.from \in Labels(k) /\ new.to \in Labels(k)
  BY <1>1, <1>2, MapType
<1>4. CASE new.from = new.to
  BY <1>1, <1>2, <1>3, <1>4, QuietIfEmpty
<1>5. CASE new.from # new.to
  <2>1. ~Arrived(l)
    BY <1>2, <1>5 DEF Ahead
  <2>2. <<l.pos, Ahead(l)>> \in Moves(RouteOf(l.site, l.from, l.to))
    BY <2>1, AheadMoves
  <2>3. RouteOf(k, new.from, new.to) \in NestedRoutes(l.site, <<l.pos, Ahead(l)>>)
    BY <1>1, <1>2, <1>5 DEF NestedRoutes
  <2>4. Harmless(RouteOf(k, new.from, new.to))
    BY <2>2, <2>3 DEF Quiet
  <2>5. QED
    BY <1>1, <1>2, <1>3, <2>4, QuietIfHarmless
<1>6. QED
  BY <1>4, <1>5

\* The plan of a request is harmless if its route is.
LEMMA PlanHarmless ==
  ASSUME NEW r \in Request, r.op = "render", ~Blocked(r), PlanSemantics(r) # "lossy"
  PROVE  /\ Whole(r).site = Root /\ Whole(r).from = Size[Root] /\ Whole(r).to = r.label
         /\ Whole(r) = RouteOf(Root, Size[Root], r.label)
         /\ r.label \in Labels(Root) /\ Size[Root] \in Labels(Root) /\ Root \in Sites
         /\ r.label <= Size[Root]
         /\ Harmless(Whole(r))
<1>1. r.label \in Labels(Root) /\ Size[Root] \in Labels(Root) /\ Root \in Sites
      /\ r.label <= Size[Root] /\ Size[Root] \in Nat /\ r.label \in Nat
  BY SitesAssumption DEF Labels, Request
<1>2. Whole(r) = RouteOf(Root, Size[Root], r.label)
  BY DEF Whole
<1>3. /\ Whole(r) \in Route /\ Whole(r).site = Root
      /\ Whole(r).from = Size[Root] /\ Whole(r).to = r.label
  BY <1>1, <1>2, RouteFields
<1>4. StepSemantics(r) = OwnRisks(Whole(r)) \cup NestedRouteRisks(Semantics, Whole(r))
  BY DEF StepSemantics, NestedStepSemantics
<1>5. Semantics[Whole(r)] = Worst(StepSemantics(r), "exact")
  <2>1. ~(Whole(r).from < Whole(r).to)
    BY <1>1, <1>3
  <2>2. QED
    BY <1>3, <1>4, <2>1, SemanticsOf DEF NestedRouteSemantics
<1>6. Worst(StepSemantics(r), "exact") # "unavailable"
  BY DEF Blocked, Worst
<1>7. Harmless(Whole(r))
  BY <1>5, <1>6 DEF PlanSemantics, Harmless
<1>8. QED
  BY <1>1, <1>2, <1>3, <1>7

\* A harmless way back of an owner covers those of its embedded families: the edge that
\* takes an embedded label over an edge of its own is among the owner's.
LEMMA CoveredKid ==
  ASSUME ForwardKeepsFields, NEW s \in Sites, NEW k \in KidsOf(s), NEW c \in Labels(s), Covered(s, c)
  PROVE  Covered(k, LabelMap[k][c])
<1> DEFINE f(x) == LabelMap[k][x]
           g == LabelMap[k][c]
<1>1. /\ k \in Sites /\ Size[s] \in Nat \ {0} /\ Size[k] \in Nat \ {0}
      /\ c \in Nat \ {0} /\ g \in Nat \ {0} /\ g <= Size[k]
  <2>1. k \in Sites /\ g \in Labels(k)
    BY MapType
  <2>2. QED
    BY <2>1, SitesAssumption DEF Labels
<1>2. ASSUME NEW e \in g .. Size[k] - 1
      PROVE  \E x \in c .. Size[s] - 1 :
               /\ f(x) \in 1 .. e /\ f(x + 1) \in e + 1 .. Size[k]
               /\ Harmless(RouteOf(k, f(x + 1), f(x)))
  <2>1. e \in Nat /\ g <= e /\ e < Size[k]
    BY <1>1
  <2>2. PICK x \in c .. Size[s] - 1 : f(x) <= e /\ e < f(x + 1)
    BY <2>1, CrossedAt
  <2>3. x \in Labels(s) /\ x + 1 \in Labels(s) /\ x \in Nat /\ c <= x
    BY <1>1 DEF Labels
  <2>4. f(x) \in Labels(k) /\ f(x + 1) \in Labels(k)
    BY <2>3, MapType
  <2>5. f(x) \in 1 .. e /\ f(x + 1) \in e + 1 .. Size[k] /\ f(x) # f(x + 1)
    BY <1>1, <2>1, <2>2, <2>4 DEF Labels
  <2>7. PICK a \in x + 1 .. Size[s], b \in 1 .. x : Harmless(RouteOf(s, a, b))
    BY DEF Covered
  <2>8. a \in Labels(s) /\ b \in Labels(s) /\ a \in Nat /\ b \in Nat /\ b <= x /\ x < a
    BY <1>1, <2>3 DEF Labels
  <2> DEFINE r == RouteOf(s, a, b)
  <2>9. r \in Route /\ r.site = s /\ r.from = a /\ r.to = b
    BY <2>8, RouteFields
  <2> HIDE DEF r, f
  <2>10. <<x + 1, x>> \in Moves(r)
    <3>1. ~(r.from < r.to) /\ x \in r.to .. r.from - 1
      BY <2>3, <2>8, <2>9
    <3>2. QED
      BY <3>1 DEF Moves
  <2>11. RouteOf(k, f(x + 1), f(x)) \in NestedRoutes(s, <<x + 1, x>>)
    BY <2>5 DEF NestedRoutes, f
  <2>12. Harmless(RouteOf(k, f(x + 1), f(x)))
    BY <2>7, <2>9, <2>10, <2>11, HarmlessRoute DEF r
  <2>13. QED
    BY <2>5, <2>12
<1>3. \A e \in g .. Size[k] - 1 :
        \E a \in e + 1 .. Size[k], b \in 1 .. e : Harmless(RouteOf(k, a, b))
  BY <1>2
<1>4. g \notin Removes[k]
  <2>1. CASE g = Size[k]
    <3>1. Removes[k] \subseteq 1 .. Size[k] - 1
      BY <1>1, SitesAssumption DEF EdgesOf
    <3>2. QED
      BY <1>1, <2>1, <3>1
  <2>2. CASE g # Size[k]
    <3>1. g \in g .. Size[k] - 1
      BY <1>1, <2>2
    <3>2. PICK x \in c .. Size[s] - 1 :
            /\ f(x) \in 1 .. g /\ f(x + 1) \in g + 1 .. Size[k]
            /\ Harmless(RouteOf(k, f(x + 1), f(x)))
      BY <1>2, <3>1
    <3>3. CASE f(x) < g
      <4>1. x \in Labels(s) /\ c < x
        <5>1. x \in Labels(s) /\ c <= x /\ x \in Nat
          BY <1>1 DEF Labels
        <5>2. c # x
          BY <1>1, <3>3
        <5>3. QED
          BY <1>1, <5>1, <5>2
      <4>2. QED
        BY <3>3, <4>1 DEF ForwardKeepsFields
    <3>4. CASE f(x) = g
      <4> DEFINE a == f(x + 1)
                 r == RouteOf(k, a, f(x))
      <4>1. a \in Nat /\ g < a /\ a \in Labels(k) /\ g \in Labels(k)
        BY <1>1, <3>2 DEF Labels
      <4> HIDE DEF a
      <4>2. r \in Route /\ r.site = k /\ r.from = a /\ r.to = g
        BY <1>1, <3>4, <4>1, RouteFields
      <4>3. Harmless(r)
        BY <3>2 DEF a
      <4> HIDE DEF r
      <4>4. ~(r.from < r.to)
        BY <1>1, <4>1, <4>2
      <4>5. "lossy" \notin OwnRisks(r)
        BY <4>2, <4>3, HarmlessRoute
      <4>6. QED
        BY <4>2, <4>4, <4>5 DEF OwnRisks
    <3>5. QED
      BY <1>1, <3>2, <3>3, <3>4
  <2>3. QED
    BY <2>1, <2>2
<1>5. QED
  BY <1>3, <1>4 DEF Covered

\* What is delivered where every embedded value follows its owner has lost nothing.
LEMMA NothingRemoved ==
  ASSUME ForwardKeepsFields, NEW r \in Request, r.op = "render", ~Blocked(r),
         PlanSemantics(r) # "lossy",
         NEW tree, \A d \in Sites : tree[d] \in Labels(d) \cup {0},
         tree[Root] = Whole(r).to,
         \A t \in Sites : \A k \in KidsOf(t) :
           tree[k] # 0 => tree[t] # 0 /\ tree[k] = LabelMap[k][tree[t]]
  PROVE  \A d \in Sites : tree[d] \notin Removes[d]
<1>1. /\ Root \in Sites /\ r.label \in Labels(Root) /\ Size[Root] \in Labels(Root)
      /\ r.label <= Size[Root]
      /\ Whole(r) = RouteOf(Root, Size[Root], r.label)
      /\ Whole(r).site = Root /\ Whole(r).from = Size[Root] /\ Whole(r).to = r.label
      /\ Harmless(Whole(r))
  BY PlanHarmless
<1>2. Covered(Root, r.label)
  <2>1. Size[Root] \in Nat /\ r.label \in Nat \ {0} /\ r.label <= Size[Root]
    BY <1>1, SitesAssumption DEF Labels
  <2>2. ASSUME NEW e \in r.label .. Size[Root] - 1
        PROVE  \E a \in e + 1 .. Size[Root], b \in 1 .. e : Harmless(RouteOf(Root, a, b))
    <3>1. Size[Root] \in e + 1 .. Size[Root] /\ r.label \in 1 .. e
      BY <2>1
    <3>2. QED
      BY <1>1, <3>1
  <2>3. Whole(r) \in Route
    BY <1>1, RouteFields
  <2>4. "lossy" \notin OwnRisks(Whole(r))
    BY <1>1, <2>3, HarmlessRoute
  <2>5. ~(Whole(r).from < Whole(r).to)
    BY <1>1, <2>1
  <2>6. r.label \notin Removes[Root]
    BY <1>1, <2>4, <2>5 DEF OwnRisks
  <2>7. QED
    BY <2>2, <2>6 DEF Covered
<1> DEFINE S == {d \in Sites : tree[d] # 0 => Covered(d, tree[d])}
<1>3. Root \in S
  BY <1>1, <1>2
<1>4. ASSUME NEW t \in S, NEW k \in KidsOf(t)
      PROVE  k \in S
  <2>1. t \in Sites /\ k \in Sites
    BY KidsAreSites
  <2>2. ASSUME tree[k] # 0 PROVE Covered(k, tree[k])
    <3>1. tree[t] # 0 /\ tree[k] = LabelMap[k][tree[t]] /\ tree[t] \in Labels(t)
      BY <2>1, <2>2
    <3>2. QED
      BY <2>1, <3>1, CoveredKid
  <2>3. QED
    BY <2>1, <2>2
<1>5. S \in SUBSET Sites
  OBVIOUS
<1> HIDE DEF S
<1>6. S = Sites
  BY <1>3, <1>4, <1>5, TreeAssumption
<1>7. ASSUME NEW d \in Sites
      PROVE  tree[d] \notin Removes[d]
  <2>1. CASE tree[d] = 0
    <3>1. Removes[d] \subseteq 1 .. Size[d] - 1 /\ Size[d] \in Nat
      BY SitesAssumption DEF EdgesOf
    <3>2. QED
      BY <2>1, <3>1
  <2>2. CASE tree[d] # 0
    BY <1>6, <2>2 DEF S, Covered
  <2>3. QED
    BY <2>1, <2>2
<1>8. QED
  BY <1>7

AllQuiet == \A i \in DOMAIN stack : Quiet(stack[i])

\* The inductive invariant: while an operation whose plan promises no loss runs,
\* nothing is lost, and no loop is about to lose something.
LossInv ==
  request.op = "render" /\ PlanSemantics(request) # "lossy" =>
    /\ ~lost
    /\ Running => /\ request \in Request
                  /\ ~Blocked(request)
                  /\ AllQuiet

\* The loops stay quiet along their routes.
LEMMA SameQuiet ==
  ASSUME NEW l, NEW l2, l2.site = l.site, l2.from = l.from, l2.to = l.to, Quiet(l)
  PROVE  Quiet(l2)
  BY DEF Quiet

\* The beginning of an operation.
LEMMA LossBegin ==
  ASSUME Inv', NEW r \in Request, Begin(r)
  PROVE  LossInv'
<1> SUFFICES ASSUME r.op = "render", PlanSemantics(r) # "lossy", Running'
             PROVE  ~Blocked(r) /\ \A i \in DOMAIN stack' : Quiet(stack'[i])
  BY DEF LossInv, AllQuiet, Begin
<1>1. ~Blocked(r)
  BY DEF Begin, Running
<1> DEFINE l == NewLoop(Root, Whole(r).from, Whole(r).to, TRUE)
<1>2. stack' = <<l>>
  BY <1>1 DEF Begin
<1>3. /\ Root \in Sites /\ r.label \in Labels(Root) /\ Size[Root] \in Labels(Root)
      /\ Whole(r) = RouteOf(Root, Size[Root], r.label)
      /\ Whole(r).from = Size[Root] /\ Whole(r).to = r.label
      /\ Harmless(Whole(r))
  BY <1>1, PlanHarmless
<1>4. l.site = Root /\ l.from = Size[Root] /\ l.to = r.label
  BY <1>3 DEF NewLoop, LoopAt
<1> HIDE DEF l
<1>5. Quiet(l)
  BY <1>3, <1>4, QuietIfHarmless
<1>6. DOMAIN stack' = {1} /\ stack'[1] = l
  BY <1>2
<1>7. QED
  BY <1>1, <1>5, <1>6

\* Every step keeps the invariant.
LEMMA LossStep == ForwardKeepsFields /\ TreeInv /\ LossInv /\ [Next]_vars => LossInv'
<1> SUFFICES ASSUME ForwardKeepsFields, TreeInv, LossInv, [Next]_vars
             PROVE  LossInv'
  OBVIOUS
<1>1. Inv /\ TreeInv' /\ Inv'
  BY TreeStep DEF TreeInv
<1>2. ASSUME NEW r \in Request, Begin(r)
      PROVE  LossInv'
  BY <1>1, <1>2, LossBegin
<1>3. ASSUME Running, request' = request, lost' = lost, AllQuiet => AllQuiet'
      PROVE  LossInv'
  BY <1>3 DEF LossInv
<1>4. CASE Pass
  <2> DEFINE l == [Top EXCEPT !.next = Top.next + 1]
  <2>1. /\ Running /\ AtKids(Top) /\ stack' = [stack EXCEPT ![Len(stack)] = l]
        /\ request' = request /\ lost' = lost
    BY <1>4 DEF Pass
  <2>2. /\ Top \in Loop /\ l \in Loop /\ Top = stack[Len(stack)] /\ Len(stack) \in DOMAIN stack
        /\ l.site = Top.site /\ l.from = Top.from /\ l.to = Top.to
    BY <1>1, <2>1, StackLoops, PassType DEF Loop
  <2> HIDE DEF l
  <2>3. AllQuiet => AllQuiet'
    BY <1>1, <2>1, <2>2, ReplacedTop, SameQuiet DEF AllQuiet
  <2>4. QED
    BY <1>3, <2>1, <2>3
<1>5. CASE Descend
  <2> DEFINE k == NextKid(Top)
             l == NewLoop(k, LabelMap[k][Top.pos], LabelMap[k][Ahead(Top)], Top.canonical)
  <2>1. /\ Running /\ AtKids(Top) /\ stack' = Append(stack, l)
        /\ request' = request /\ lost' = lost
    BY <1>5 DEF Descend
  <2>2. /\ l.site = k /\ l.from = LabelMap[k][Top.pos] /\ l.to = LabelMap[k][Ahead(Top)]
        /\ Top \in Loop /\ Top = stack[Len(stack)] /\ Len(stack) \in DOMAIN stack
        /\ Len(stack) \in Nat /\ DOMAIN stack = 1 .. Len(stack)
    <3> HIDE DEF k
    <3>1. l.site = k /\ l.from = LabelMap[k][Top.pos] /\ l.to = LabelMap[k][Ahead(Top)]
      BY DEF NewLoop, LoopAt
    <3>2. QED
      BY <1>1, <2>1, <3>1, StackLoops
  <2>3. l \in Loop
    <3>1. k \in KidsOf(Top.site) /\ k \in Sites
      BY <2>1, <2>2, NextKidType
    <3>2. /\ Top.site \in Sites /\ Top.pos \in Labels(Top.site)
          /\ Ahead(Top) \in Labels(Top.site) /\ Top.canonical \in BOOLEAN
      BY <2>2, LoopFields, AheadType
    <3> HIDE DEF k
    <3>3. LabelMap[k][Top.pos] \in Labels(k) /\ LabelMap[k][Ahead(Top)] \in Labels(k)
      BY <3>1, <3>2, MapType
    <3>4. QED
      BY <3>1, <3>2, <3>3, NewLoopType
  <2>4. Quiet(Top) => Quiet(l)
    <3> HIDE DEF l
    <3>1. QED
      BY <2>1, <2>2, QuietDescend
  <2> HIDE DEF l, k
  <2>5. /\ DOMAIN stack' = 1 .. Len(stack) + 1 /\ stack'[Len(stack) + 1] = l
        /\ \A i \in DOMAIN stack : stack'[i] = stack[i]
    BY <1>1, <2>1, <2>3, PushedTop
  <2>6. ASSUME AllQuiet, NEW i \in DOMAIN stack'
        PROVE  Quiet(stack'[i])
    <3>1. i \in DOMAIN stack \/ i = Len(stack) + 1
      BY <2>2, <2>5
    <3>2. CASE i \in DOMAIN stack
      BY <2>5, <2>6, <3>2 DEF AllQuiet
    <3>3. CASE i = Len(stack) + 1
      BY <2>2, <2>4, <2>5, <2>6, <3>3 DEF AllQuiet
    <3>4. QED
      BY <3>1, <3>2, <3>3
  <2>7. QED
    BY <1>3, <2>1, <2>6 DEF AllQuiet
<1>6. ASSUME Running, Advanced
      PROVE  AllQuiet => AllQuiet'
  <2> DEFINE l == LoopAt(Top.site, Top.from, Top.to, Ahead(Top), TRUE)
  <2>1. stack' = [stack EXCEPT ![Len(stack)] = l]
    BY <1>6 DEF Advanced
  <2>2. /\ Top \in Loop /\ l \in Loop /\ Top = stack[Len(stack)] /\ Len(stack) \in DOMAIN stack
        /\ l.site = Top.site /\ l.from = Top.from /\ l.to = Top.to
    BY <1>1, <1>6, StackLoops, AdvanceType DEF LoopAt
  <2> HIDE DEF l
  <2>3. QED
    BY <1>1, <1>6, <2>1, <2>2, ReplacedTop, SameQuiet DEF AllQuiet
<1>7. CASE Identity
  <2>1. Running /\ Advanced /\ request' = request /\ lost' = lost
    BY <1>7 DEF Identity
  <2>2. QED
    BY <1>3, <1>6, <2>1
<1>8. CASE Callback
  <2>1. /\ Running /\ AtEdge(Top) /\ Advanced /\ request' = request
        /\ lost' = (lost \/ (Top.from > Top.to /\ Downgrades[Top.site][Ahead(Top)] = "lossy"))
    BY <1>8 DEF Callback
  <2>2. ASSUME AllQuiet, Top.from > Top.to
        PROVE  Downgrades[Top.site][Ahead(Top)] # "lossy"
    <3>1. Top \in Loop /\ Quiet(Top) /\ ~Arrived(Top)
      BY <1>1, <2>1, <2>2, StackLoops DEF AllQuiet, AtEdge
    <3>2. <<Top.pos, Ahead(Top)>> \in Moves(RouteOf(Top.site, Top.from, Top.to))
      BY <3>1, AheadMoves
    <3>3. QED
      BY <2>2, <3>1, <3>2 DEF Quiet
  <2>3. AllQuiet /\ ~lost => ~lost'
    BY <2>1, <2>2
  <2>4. QED
    BY <1>6, <2>1, <2>3 DEF LossInv
<1>9. CASE Reject
  <2>1. stack' = <<>> /\ request' = request /\ lost' = lost
    BY <1>9 DEF Reject
  <2>2. QED
    BY <2>1 DEF LossInv, Running
<1>10. CASE Return
  <2>1. Running /\ request' = request /\ lost' = lost
    BY <1>10 DEF Return
  <2> DEFINE m == Len(stack) - 1
  <2>2. /\ m \in DOMAIN stack /\ m \in Nat \ {0} /\ DOMAIN stack' = 1 .. m
        /\ DOMAIN stack = 1 .. Len(stack) /\ Len(stack) \in Nat
        /\ \A i \in 1 .. m - 1 : stack'[i] = stack[i]
        /\ stack'[m] = [stack[m] EXCEPT !.next = stack[m].next + 1]
        /\ stack[m] \in Loop
    BY <1>1, <1>10, <2>1, PoppedTop, StackLoops
  <2>3. /\ stack'[m].site = stack[m].site /\ stack'[m].from = stack[m].from
        /\ stack'[m].to = stack[m].to
    BY <2>2 DEF Loop
  <2>4. \A i \in DOMAIN stack' : i \in DOMAIN stack /\ (i = m \/ i \in 1 .. m - 1)
    BY <2>2
  <2> HIDE DEF m
  <2>5. AllQuiet => AllQuiet'
    BY <2>2, <2>3, <2>4, SameQuiet DEF AllQuiet
  <2>6. QED
    BY <1>3, <2>1, <2>5
<1>11. CASE Finish
  <2>1. /\ Running /\ stack' = <<>> /\ outcome' = "done" /\ UNCHANGED <<request, at, raw>>
        /\ lost' = (lost \/ (request.op = "render" /\ \E d \in Sites : at[d] \in Removes[d]))
    BY <1>11 DEF Finish
  <2>2. ASSUME request.op = "render", PlanSemantics(request) # "lossy"
        PROVE  \A d \in Sites : at[d] \notin Removes[d]
    <3>1. request \in Request /\ ~Blocked(request)
      BY <2>1, <2>2 DEF LossInv
    <3>2. /\ \A d \in Sites : at[d] \in Labels(d) \cup {0}
          /\ at[Root] = Whole(request).to
      BY <1>1, <2>1 DEF TreeInv, Inv, TypeOK
    <3>3. ASSUME NEW t \in Sites, NEW k \in KidsOf(t), at[k] # 0
          PROVE  at[t] # 0 /\ at[k] = LabelMap[k][at[t]]
      <4>1. PICK j \in DOMAIN Kids[t] : k = Kids[t][j]
        BY DEF KidsOf
      <4>2. Settled' /\ ~OnStack(t)'
        <5>1. DOMAIN stack' = {}
          BY <2>1, EmptySeq, LenProperties
        <5>2. QED
          BY <1>1, <2>1, <5>1 DEF TreeInv, OnStack
      <4>3. QED
        BY <2>1, <3>3, <4>1, <4>2 DEF Settled
    <3>4. QED
      BY <2>2, <3>1, <3>2, <3>3, NothingRemoved
  <2>3. QED
    BY <2>1, <2>2 DEF LossInv, Running
<1>12. CASE UNCHANGED vars
  <2>1. stack' = stack /\ request' = request /\ lost' = lost
    BY <1>12 DEF vars
  <2>2. AllQuiet' <=> AllQuiet
    BY <2>1 DEF AllQuiet
  <2>3. Running' <=> Running
    BY <2>1 DEF Running
  <2>4. QED
    BY <2>1, <2>2, <2>3 DEF LossInv
<1>13. QED
  BY <1>2, <1>4, <1>5, <1>7, <1>8, <1>9, <1>10, <1>11, <1>12 DEF Next

\* Nothing has run in the initial state.
LEMMA LossInit == Init => LossInv
  BY DEF Init, LossInv, Nothing

\* A render plan that is not lossy loses nothing, at any depth of any tree of families
\* and for any payload and callbacks, provided that no embedded family advances, while
\* its owner goes back, to a label that lacks a field; without that, an exact plan may
\* lose it (_planning.py:557-643, docs/guide/application-exchange.md:169-171).
THEOREM ExactIsLossless ==
  ASSUME ForwardKeepsFields
  PROVE  Spec => []ExactMeansLossless
<1>1. Init => TreeInv /\ LossInv
  BY TreeInit, LossInit
<1>2. TreeInv /\ LossInv /\ [Next]_vars => (TreeInv /\ LossInv)'
  BY TreeStep, LossStep
<1>3. TreeInv /\ LossInv => ExactMeansLossless
  BY DEF LossInv, ExactMeansLossless
<1>4. QED
  BY <1>1, <1>2, <1>3, PTL DEF Spec

-----------------------------------------------------------------------------
(* The steps of a plan. *)

IsPrefixes(f, S, E, K) ==
  /\ f \in [Nat -> Seq(S)]
  /\ f[0] = <<>>
  /\ \A i \in Nat \ {0} : f[i] = IF i \in K THEN f[i - 1] ELSE Append(f[i - 1], E[i])

\* The first n steps that are not skipped make a sequence, for every n.
LEMMA PrefixExists ==
  ASSUME NEW S, NEW E \in [Nat -> S], NEW K \in SUBSET Nat
  PROVE  \E f : IsPrefixes(f, S, E, K)
<1> DEFINE Grown(q, i) == IF i \in K THEN q ELSE Append(q, E[i])
           Upto(g, n) == /\ g \in [0 .. n -> Seq(S)]
                         /\ g[0] = <<>>
                         /\ \A i \in 1 .. n : g[i] = Grown(g[i - 1], i)
<1>1. ASSUME NEW q \in Seq(S), NEW i \in Nat
      PROVE  Grown(q, i) \in Seq(S)
  BY AppendProperties
<1>2. \A n \in Nat : \E g : Upto(g, n)
  <2> DEFINE N == {n \in Nat : \E g : Upto(g, n)}
  <2> HIDE DEF Grown
  <2>1. 0 \in N
    <3>1. Upto([i \in 0 .. 0 |-> <<>>], 0)
      BY EmptySeq
    <3>2. QED
      BY <3>1
  <2>2. ASSUME NEW n \in Nat, n \in N
        PROVE  n + 1 \in N
    <3>1. PICK g : Upto(g, n)
      BY <2>2
    <3> DEFINE h == [i \in 0 .. n + 1 |-> IF i <= n THEN g[i] ELSE Grown(g[n], n + 1)]
    <3>2. g[n] \in Seq(S) /\ \A i \in 0 .. n : g[i] \in Seq(S)
      BY <3>1
    <3>3. h \in [0 .. n + 1 -> Seq(S)]
      <4>1. Grown(g[n], n + 1) \in Seq(S)
        BY <1>1, <3>2
      <4>2. QED
        BY <3>2, <4>1
    <3>4. h[0] = <<>>
      BY <3>1
    <3>5. ASSUME NEW i \in 1 .. n + 1
          PROVE  h[i] = Grown(h[i - 1], i)
      <4>1. CASE i <= n
        <5>1. h[i] = g[i] /\ h[i - 1] = g[i - 1] /\ i \in 1 .. n
          BY <4>1
        <5>2. QED
          BY <3>1, <5>1
      <4>2. CASE ~(i <= n)
        BY <4>2
      <4>3. QED
        BY <4>1, <4>2
    <3> HIDE DEF h
    <3>6. Upto(h, n + 1)
      BY <3>3, <3>4, <3>5
    <3> HIDE DEF Upto
    <3>7. QED
      BY <3>6
  <2> HIDE DEF N
  <2>3. Nat \subseteq N
    BY <2>1, <2>2, NatInd
  <2>4. QED
    BY <2>3 DEF N
<1>3. ASSUME NEW n \in Nat, NEW m \in Nat, n <= m, NEW g, NEW h, Upto(g, n), Upto(h, m)
      PROVE  \A i \in 0 .. n : g[i] = h[i]
  <2> DEFINE N == {i \in Nat : i <= n => g[i] = h[i]}
  <2> HIDE DEF Grown
  <2>1. 0 \in N
    BY <1>3
  <2>2. ASSUME NEW i \in Nat, i \in N
        PROVE  i + 1 \in N
    <3>1. ASSUME i + 1 <= n PROVE g[i + 1] = h[i + 1]
      <4>1. i + 1 \in 1 .. n /\ i + 1 \in 1 .. m /\ (i + 1) - 1 = i /\ g[i] = h[i]
        BY <1>3, <2>2, <3>1
      <4>2. g[i + 1] = Grown(g[i], i + 1) /\ h[i + 1] = Grown(h[i], i + 1)
        BY <1>3, <4>1
      <4>3. QED
        BY <4>1, <4>2
    <3>2. QED
      BY <3>1
  <2> HIDE DEF N
  <2>3. Nat \subseteq N
    BY <2>1, <2>2, NatInd
  <2>4. QED
    BY <2>3 DEF N
<1> DEFINE G(n) == CHOOSE g : Upto(g, n)
           f == [n \in Nat |-> G(n)[n]]
<1>4. \A n \in Nat : Upto(G(n), n)
  BY <1>2
<1> HIDE DEF G, Grown
<1>5. f \in [Nat -> Seq(S)]
  BY <1>4
<1>6. ASSUME NEW i \in Nat
      PROVE  f[i] = IF i = 0 THEN <<>> ELSE Grown(f[i - 1], i)
  <2>1. CASE i = 0
    BY <1>4, <2>1
  <2>2. CASE i # 0
    <3>1. i - 1 \in Nat /\ i \in 1 .. i /\ i - 1 <= i /\ i - 1 \in 0 .. i - 1
      BY <2>2
    <3>2. G(i)[i] = Grown(G(i)[i - 1], i)
      BY <1>4, <3>1
    <3>3. G(i - 1)[i - 1] = G(i)[i - 1]
      <4>1. Upto(G(i - 1), i - 1) /\ Upto(G(i), i)
        BY <1>4, <3>1
      <4> HIDE DEF Upto
      <4>2. \A j \in 0 .. i - 1 : G(i - 1)[j] = G(i)[j]
        BY <1>3, <3>1, <4>1
      <4>3. QED
        BY <3>1, <4>2
    <3>4. QED
      BY <2>2, <3>1, <3>2, <3>3
  <2>3. QED
    BY <2>1, <2>2
<1> HIDE DEF f
<1>7. QED
  BY <1>5, <1>6 DEF Grown, IsPrefixes

\* The plan up to a place, from the plan up to the one before it.
LEMMA PlanPrefixes ==
  ASSUME NEW r
  PROVE  \E S :
           /\ PlanPrefix(r, 0) = <<>>
           /\ \A n \in Nat :
                /\ PlanPrefix(r, n) \in Seq(S) /\ StepAt(r, n) \in S
                /\ PlanPrefix(r, n + 1) =
                     IF StepAt(r, n + 1).from = StepAt(r, n + 1).to THEN PlanPrefix(r, n)
                     ELSE Append(PlanPrefix(r, n), StepAt(r, n + 1))
<1> DEFINE S == {StepAt(r, i) : i \in Nat}
           E == [i \in Nat |-> StepAt(r, i)]
           K == {i \in Nat : StepAt(r, i).from = StepAt(r, i).to}
           Recursive(g) ==
             g = [m \in Nat |->
                    IF m = 0 THEN <<>>
                    ELSE IF StepAt(r, m).from = StepAt(r, m).to THEN g[m - 1]
                    ELSE Append(g[m - 1], StepAt(r, m))]
           p == CHOOSE g : Recursive(g)
<1>1. E \in [Nat -> S] /\ K \in SUBSET Nat
  OBVIOUS
<1> HIDE DEF S
<1>2. PICK f : IsPrefixes(f, S, E, K)
  <2> HIDE DEF E, K
  <2>1. QED
    BY <1>1, PrefixExists
<1>3. Recursive(f)
  BY <1>2 DEF IsPrefixes
<1>4. Recursive(p)
  <2> HIDE DEF Recursive
  <2>1. QED
    BY <1>3
<1>5. \A n \in Nat : PlanPrefix(r, n) = p[n]
  BY DEF PlanPrefix
<1> HIDE DEF p
<1>6. p[0] = <<>> /\ \A n \in Nat :
        p[n + 1] = IF StepAt(r, n + 1).from = StepAt(r, n + 1).to THEN p[n]
                   ELSE Append(p[n], StepAt(r, n + 1))
  <2>1. \A m \in Nat :
          p[m] = IF m = 0 THEN <<>>
                 ELSE IF StepAt(r, m).from = StepAt(r, m).to THEN p[m - 1]
                 ELSE Append(p[m - 1], StepAt(r, m))
    BY <1>4
  <2>2. p[0] = <<>>
    BY <2>1
  <2>3. ASSUME NEW n \in Nat
        PROVE  p[n + 1] = IF StepAt(r, n + 1).from = StepAt(r, n + 1).to THEN p[n]
                          ELSE Append(p[n], StepAt(r, n + 1))
    <3>1. n + 1 \in Nat /\ n + 1 # 0 /\ (n + 1) - 1 = n
      OBVIOUS
    <3>2. QED
      BY <2>1, <3>1
  <2>4. QED
    BY <2>2, <2>3
<1>7. \A n \in Nat : StepAt(r, n) \in S
  BY DEF S
<1>8. \A n \in Nat : p[n] \in Seq(S)
  <2> DEFINE N == {n \in Nat : p[n] \in Seq(S)}
  <2>1. 0 \in N
    BY <1>6, EmptySeq
  <2>2. ASSUME NEW n \in Nat, n \in N
        PROVE  n + 1 \in N
    <3>1. p[n] \in Seq(S) /\ StepAt(r, n + 1) \in S
      BY <1>7, <2>2
    <3>2. Append(p[n], StepAt(r, n + 1)) \in Seq(S)
      BY <3>1, AppendProperties
    <3>3. p[n + 1] \in Seq(S)
      BY <1>6, <3>1, <3>2
    <3>4. QED
      BY <3>3
  <2> HIDE DEF N
  <2>3. Nat \subseteq N
    BY <2>1, <2>2, NatInd
  <2>4. QED
    BY <2>3 DEF N
<1>9. /\ PlanPrefix(r, 0) = <<>>
      /\ \A n \in Nat :
           /\ PlanPrefix(r, n) \in Seq(S) /\ StepAt(r, n) \in S
           /\ PlanPrefix(r, n + 1) =
                IF StepAt(r, n + 1).from = StepAt(r, n + 1).to THEN PlanPrefix(r, n)
                ELSE Append(PlanPrefix(r, n), StepAt(r, n + 1))
  <2>1. PlanPrefix(r, 0) = <<>>
    BY <1>5, <1>6
  <2>2. ASSUME NEW n \in Nat
        PROVE  PlanPrefix(r, n) = p[n] /\ PlanPrefix(r, n + 1) = p[n + 1]
    BY <1>5
  <2>3. QED
    BY <1>6, <1>7, <1>8, <2>1, <2>2
<1>10. QED
  BY <1>9, Zenon

\* A plan up to some place continues the plan up to any place before it.
LEMMA PlanGrows ==
  ASSUME NEW r, NEW n \in Nat, NEW m \in Nat, n <= m
  PROVE  /\ Len(PlanPrefix(r, n)) \in Nat /\ Len(PlanPrefix(r, m)) \in Nat
         /\ Len(PlanPrefix(r, n)) <= Len(PlanPrefix(r, m))
         /\ \A i \in 1 .. Len(PlanPrefix(r, n)) : PlanPrefix(r, m)[i] = PlanPrefix(r, n)[i]
<1> DEFINE p(i) == PlanPrefix(r, i)
           Extends(i) == /\ Len(p(n)) <= Len(p(i))
                         /\ \A c \in 1 .. Len(p(n)) : p(i)[c] = p(n)[c]
           N == {i \in Nat : n <= i => Extends(i)}
<1>1. PICK S : \A i \in Nat :
        /\ p(i) \in Seq(S) /\ StepAt(r, i) \in S
        /\ p(i + 1) = IF StepAt(r, i + 1).from = StepAt(r, i + 1).to THEN p(i)
                      ELSE Append(p(i), StepAt(r, i + 1))
  BY PlanPrefixes
<1> HIDE DEF p
<1>2. \A i \in Nat : Len(p(i)) \in Nat
  BY <1>1, LenProperties
<1>3. \A i \in Nat : i <= n => i \in N
  <2> TAKE i \in Nat
  <2>1. CASE i = n
    BY <1>2, <2>1
  <2>2. CASE i # n
    BY <2>2
  <2>3. QED
    BY <2>1, <2>2
<1>4. ASSUME NEW i \in Nat, i \in N
      PROVE  i + 1 \in N
  <2>1. CASE i + 1 <= n
    BY <1>3, <2>1
  <2>2. CASE ~(i + 1 <= n)
    <3>1. Extends(i)
      BY <1>4, <2>2
    <3>2. Len(p(i)) <= Len(p(i + 1)) /\ \A c \in 1 .. Len(p(i)) : p(i + 1)[c] = p(i)[c]
      <4>1. StepAt(r, i + 1) \in S /\ p(i) \in Seq(S)
        BY <1>1
      <4>2. CASE p(i + 1) = p(i)
        BY <1>2, <4>2
      <4>3. CASE p(i + 1) = Append(p(i), StepAt(r, i + 1))
        BY <1>2, <4>1, <4>3, AppendProperties
      <4>4. QED
        BY <1>1, <4>2, <4>3
    <3>3. Extends(i + 1)
      <4>1. Len(p(n)) <= Len(p(i + 1))
        BY <1>2, <3>1, <3>2
      <4>2. ASSUME NEW c \in 1 .. Len(p(n))
            PROVE  p(i + 1)[c] = p(n)[c]
        <5>1. c \in 1 .. Len(p(i))
          BY <1>2, <3>1
        <5>2. QED
          BY <3>1, <3>2, <5>1
      <4>3. QED
        BY <4>1, <4>2
    <3>4. QED
      BY <3>3
  <2>3. QED
    BY <2>1, <2>2
<1>5. 0 \in N
  BY <1>3
<1> HIDE DEF N
<1>6. Nat \subseteq N
  BY <1>4, <1>5, NatInd
<1>7. QED
  BY <1>2, <1>6 DEF N, p

\* A place whose step moves something makes the plan one step longer, by this step; any
\* other one leaves it as it is.
LEMMA PlanNext ==
  ASSUME NEW r, NEW n \in Nat, NEW m \in Nat, n < m
  PROVE  LET step == StepAt(r, n + 1)
             done == Len(PlanPrefix(r, n))
             next == Len(PlanPrefix(r, n + 1))
         IN /\ step.from = step.to => next = done
            /\ step.from # step.to => /\ next = done + 1
                                      /\ done < Len(PlanPrefix(r, m))
                                      /\ PlanPrefix(r, m)[done + 1] = step
<1> DEFINE p(i) == PlanPrefix(r, i)
           step == StepAt(r, n + 1)
<1>1. PICK S : \A i \in Nat :
        /\ p(i) \in Seq(S) /\ StepAt(r, i) \in S
        /\ p(i + 1) = IF StepAt(r, i + 1).from = StepAt(r, i + 1).to THEN p(i)
                      ELSE Append(p(i), StepAt(r, i + 1))
  BY PlanPrefixes
<1>2. /\ Len(p(n)) \in Nat /\ Len(p(n + 1)) \in Nat /\ Len(p(m)) \in Nat
      /\ Len(p(n + 1)) <= Len(p(m))
      /\ \A i \in 1 .. Len(p(n + 1)) : p(m)[i] = p(n + 1)[i]
  <2>1. n + 1 \in Nat /\ n + 1 <= m
    OBVIOUS
  <2>2. QED
    BY <1>1, <2>1, PlanGrows, LenProperties
<1>3. p(n) \in Seq(S) /\ step \in S
  BY <1>1
<1>4. p(n + 1) = IF step.from = step.to THEN p(n) ELSE Append(p(n), step)
  BY <1>1
<1> HIDE DEF p, step
<1>5. CASE step.from = step.to
  BY <1>4, <1>5 DEF p, step
<1>6. CASE step.from # step.to
  <2>1. Len(p(n + 1)) = Len(p(n)) + 1 /\ p(n + 1)[Len(p(n)) + 1] = step
    BY <1>3, <1>4, <1>6, AppendProperties
  <2>2. Len(p(n)) < Len(p(m)) /\ p(m)[Len(p(n)) + 1] = step
    BY <1>2, <2>1
  <2>3. QED
    BY <1>6, <2>1, <2>2 DEF p, step
<1>7. QED
  BY <1>5, <1>6

-----------------------------------------------------------------------------
(* The places that the outermost loop has passed. *)

Places == Len(Kids[Root]) + 1
PlaceOf(l) == Distance(l.from, l.pos) * Places + l.next - 1
AllPlaces(r) == Distance(Whole(r).from, Whole(r).to) * Places

\* Places are numbered edge by edge.
LEMMA PlaceNumbers ==
  ASSUME NEW d \in Nat, NEW q \in Nat, NEW p \in Nat \ {0}, q < p
  PROVE  (d * p + q) \div p = d /\ (d * p + q) % p = q /\ d * p + q \in Nat
  OBVIOUS

\* There are more edges than those before any of them.
LEMMA PlaceBelow ==
  ASSUME NEW d \in Nat, NEW e \in Nat, NEW q \in Nat, NEW p \in Nat \ {0}, q < p, d < e
  PROVE  d * p + q < e * p /\ d * p + q \in Nat /\ e * p \in Nat
<1>1. e * p = d * p + (e - d) * p /\ (e - d) * p >= p
  OBVIOUS
<1>2. d * p \in Nat /\ e * p \in Nat
  OBVIOUS
<1>3. QED
  BY <1>1, <1>2

\* The outermost loop.
LEMMA Outermost ==
  ASSUME Inv, Running, Linked
  PROVE  /\ stack[1] \in Loop /\ 1 \in DOMAIN stack
         /\ stack[1].site = Root /\ Root \in Sites
         /\ stack[1].from = Whole(request).from /\ stack[1].to = Whole(request).to
         /\ at[Root] = stack[1].pos
         /\ Places \in Nat \ {0} /\ Len(Kids[Root]) \in Nat
<1>1. stack[1] \in Loop /\ 1 \in DOMAIN stack
  BY StackLoops
<1>2. Len(Kids[Root]) \in Nat /\ Root \in Sites
  BY SitesAssumption, KidsAreSites
<1>3. QED
  BY <1>1, <1>2 DEF Linked, Places

\* The place of a loop of the root that has edges left, and the step that belongs to it.
LEMMA PlaceStep ==
  ASSUME NEW r, NEW l \in Loop, l.site = Root, l.from = Whole(r).from, l.to = Whole(r).to,
         ~Arrived(l)
  PROVE  /\ PlaceOf(l) \in Nat /\ AllPlaces(r) \in Nat /\ PlaceOf(l) < AllPlaces(r)
         /\ StepAt(r, PlaceOf(l) + 1) =
              IF l.next = Places THEN RouteOf(Root, l.pos, Ahead(l))
              ELSE LET k == NextKid(l)
                   IN RouteOf(k, LabelMap[k][l.pos], LabelMap[k][Ahead(l)])
<1> DEFINE a == l.from
           b == l.to
           d == Distance(a, l.pos)
           e == Distance(a, b)
           q == l.next - 1
           p == Places
           n == d * p + q
<1>1. /\ a \in Nat /\ b \in Nat /\ l.pos \in Nat /\ l.pos \in Between(a, b)
      /\ l.next \in Nat /\ l.next \in 1 .. Len(Kids[Root]) + 1 /\ Root \in Sites
  BY LoopFields
<1>2. Len(Kids[Root]) \in Nat
  BY <1>1, KidsAreSites
<1>3. p \in Nat \ {0} /\ q \in Nat /\ q < p /\ q + 1 = l.next
  BY <1>1, <1>2 DEF Places
<1>4. d \in Nat /\ e \in Nat /\ d < e
  BY <1>1 DEF Distance, Between, Arrived
<1>5. /\ IF a < b THEN a + d = l.pos ELSE a - d = l.pos
      /\ IF a < b THEN a + (d + 1) = Ahead(l) ELSE a - (d + 1) = Ahead(l)
  BY <1>1 DEF Distance, Between, Arrived, Ahead
<1>6. PlaceOf(l) = n /\ AllPlaces(r) = e * p /\ (n + 1) - 1 = n
  <2>1. d * p \in Nat
    BY <1>3, <1>4
  <2> HIDE DEF d, e, p
  <2>2. d * p + l.next - 1 = d * p + (l.next - 1)
    BY <1>1, <2>1
  <2>3. (n + 1) - 1 = n
    BY <1>3, <2>1
  <2>4. QED
    BY <2>2, <2>3 DEF PlaceOf, AllPlaces, d, e, p
<1> HIDE DEF a, b, d, e, p, q
<1>7. n \div p = d /\ n % p = q /\ n \in Nat /\ n < e * p /\ e * p \in Nat
  BY <1>3, <1>4, PlaceNumbers, PlaceBelow
<1> HIDE DEF n
<1> DEFINE label(i) == IF a < b THEN a + i ELSE a - i
<1>8. label(d) = l.pos /\ label(d + 1) = Ahead(l)
  BY <1>5
<1>9. StepAt(r, n + 1) =
        IF q + 1 = p THEN RouteOf(Root, label(d), label(d + 1))
        ELSE LET k == Kids[Root][q + 1]
             IN RouteOf(k, LabelMap[k][label(d)], LabelMap[k][label(d + 1)])
  <2>1. Whole(r).from = a /\ Whole(r).to = b
    BY DEF a, b
  <2>2. QED
    BY <1>6, <1>7, <2>1 DEF StepAt, p, Places
<1> HIDE DEF label
<1>10. StepAt(r, n + 1) =
         IF l.next = Places THEN RouteOf(Root, l.pos, Ahead(l))
         ELSE LET k == NextKid(l)
              IN RouteOf(k, LabelMap[k][l.pos], LabelMap[k][Ahead(l)])
  <2>1. q + 1 = p <=> l.next = Places
    BY <1>3 DEF p
  <2>2. QED
    BY <1>3, <1>8, <1>9, <2>1 DEF NextKid
<1>11. QED
  BY <1>6, <1>7, <1>10

\* Going past a declaration is going on by one place.
LEMMA PlacePast ==
  ASSUME NEW l \in Loop, l.site = Root, NEW m \in Loop,
         m.from = l.from, m.pos = l.pos, m.next = l.next + 1
  PROVE  PlaceOf(m) = PlaceOf(l) + 1
<1> DEFINE d == Distance(l.from, l.pos)
<1>1. l.from \in Nat /\ l.pos \in Nat /\ l.next \in Nat /\ Root \in Sites
  BY LoopFields
<1>2. d \in Nat /\ Places \in Nat
  BY <1>1, KidsAreSites DEF Distance, Places
<1> HIDE DEF d
<1>3. d * Places \in Nat
  BY <1>2
<1>4. PlaceOf(l) = d * Places + l.next - 1 /\ PlaceOf(m) = d * Places + (l.next + 1) - 1
  BY DEF PlaceOf, d
<1>5. QED
  BY <1>1, <1>3, <1>4

\* The edge has the last place of its own, and the next edge's come after it.
LEMMA EdgeNumbers ==
  ASSUME NEW d \in Nat, NEW p \in Nat
  PROVE  (d + 1) * p + 1 - 1 = (d * p + p - 1) + 1
  OBVIOUS

\* Crossing an edge is going on by one place.
LEMMA PlaceCrossed ==
  ASSUME NEW l \in Loop, l.site = Root, ~Arrived(l), l.next = Places
  PROVE  PlaceOf(LoopAt(l.site, l.from, l.to, Ahead(l), TRUE)) = PlaceOf(l) + 1
<1> DEFINE d == Distance(l.from, l.pos)
           m == LoopAt(l.site, l.from, l.to, Ahead(l), TRUE)
<1>1. /\ l.from \in Nat /\ l.to \in Nat /\ l.pos \in Nat
      /\ l.pos \in Between(l.from, l.to) /\ Root \in Sites
  BY LoopFields
<1>2. d \in Nat /\ Places \in Nat
  BY <1>1, KidsAreSites DEF Distance, Places
<1>3. Distance(l.from, Ahead(l)) = d + 1
  BY <1>1 DEF Distance, Between, Arrived, Ahead
<1>4. m.from = l.from /\ m.pos = Ahead(l) /\ m.next = 1
  BY DEF LoopAt
<1> HIDE DEF d, m
<1>5. PlaceOf(m) = (d + 1) * Places + 1 - 1
  BY <1>3, <1>4 DEF PlaceOf
<1>6. PlaceOf(l) = d * Places + Places - 1
  BY DEF PlaceOf, d
<1>7. PlaceOf(m) = PlaceOf(l) + 1
  BY <1>2, <1>5, <1>6, EdgeNumbers
<1>8. QED
  BY <1>7 DEF m

-----------------------------------------------------------------------------
(* The refinement. *)

\* The outermost loop comes to no declaration after its last edge, and the loop that it
\* descended into began at the label that goes with the edge.
RootInv ==
  Running =>
    /\ Arrived(stack[1]) => stack[1].next = 1
    /\ Len(stack) > 1 => stack[2].from = LabelMap[stack[2].site][stack[1].pos]

\* It stays so while the outermost loop waits.
LEMMA RootKept ==
  ASSUME RootInv, Running, stack'[1] = stack[1],
         Len(stack') > 1 => /\ Len(stack) > 1
                            /\ stack'[2].from = stack[2].from
                            /\ stack'[2].site = stack[2].site
  PROVE  RootInv'
BY DEF RootInv, Arrived

\* A loop goes on to its next edge.
LEMMA RootEdge ==
  ASSUME Inv, RootInv, Running, Advanced
  PROVE  RootInv'
<1> DEFINE n == Len(stack)
           l == LoopAt(Top.site, Top.from, Top.to, Ahead(Top), TRUE)
<1>1. n \in Nat \ {0} /\ DOMAIN stack = 1 .. n /\ Top = stack[n] /\ Top \in Loop /\ n = Len(stack)
  BY StackLoops
<1> HIDE DEF n
<1>2. l.next = 1 /\ l.from = Top.from /\ l.site = Top.site /\ l \in Loop
  BY <1>1, AdvanceType DEF LoopAt
<1>3. stack' = [stack EXCEPT ![n] = l]
  BY <1>1 DEF Advanced
<1> HIDE DEF l
<1>4. /\ Len(stack') = n /\ stack'[n] = l
      /\ \A i \in DOMAIN stack : i # n => stack'[i] = stack[i]
  BY <1>1, <1>2, <1>3, ReplacedTop
<1>5. CASE n = 1
  BY <1>2, <1>4, <1>5 DEF RootInv
<1>6. CASE n # 1
  <2>1. stack'[1] = stack[1] /\ n > 1 /\ 1 \in DOMAIN stack /\ 2 \in DOMAIN stack
    BY <1>1, <1>4, <1>6
  <2>2. stack'[2].from = stack[2].from /\ stack'[2].site = stack[2].site
    BY <1>1, <1>2, <1>4, <2>1
  <2>3. QED
    BY <1>1, <2>1, <2>2, RootKept
<1>7. QED
  BY <1>5, <1>6

\* A loop goes past a declaration.
LEMMA RootPast ==
  ASSUME Inv, RootInv, Running, Linked, NEW m \in DOMAIN stack, AtKids(stack[m]),
         Len(stack') = m, \A i \in 1 .. m - 1 : stack'[i] = stack[i],
         stack'[m] = [stack[m] EXCEPT !.next = stack[m].next + 1]
  PROVE  RootInv'
<1>1. m \in Nat \ {0} /\ 1 \in DOMAIN stack /\ DOMAIN stack = 1 .. Len(stack) /\ Len(stack) \in Nat
  BY StackLoops
<1>2. stack[m] \in Loop
  BY StackLoops
<1>3. /\ stack'[m].from = stack[m].from /\ stack'[m].site = stack[m].site
      /\ stack'[m].pos = stack[m].pos /\ stack'[m].to = stack[m].to
  BY <1>2 DEF Loop
<1>4. CASE m = 1
  <2>1. ~Arrived(stack[1])
    BY <1>4, Outermost DEF AtKids
  <2>2. ~Arrived(stack[1])'
    BY <1>3, <1>4, <2>1 DEF Arrived
  <2>3. QED
    BY <1>4, <2>2 DEF RootInv
<1>5. CASE m # 1
  <2>1. stack'[1] = stack[1] /\ m > 1 /\ Len(stack) > 1
    BY <1>1, <1>5
  <2>2. stack'[2].from = stack[2].from /\ stack'[2].site = stack[2].site
    <3>1. CASE m = 2
      BY <1>3, <3>1
    <3>2. CASE m # 2
      BY <1>1, <2>1, <3>2
    <3>3. QED
      BY <3>1, <3>2
  <2>3. QED
    BY <2>1, <2>2, RootKept
<1>6. QED
  BY <1>4, <1>5

\* A loop descends.
LEMMA RootDescend ==
  ASSUME Inv, RootInv, Running, Linked, Descend
  PROVE  /\ RootInv' /\ Running' /\ stack'[1] = stack[1]
         /\ at' = at /\ request' = request /\ outcome' = outcome
<1> DEFINE k == NextKid(Top)
           l == NewLoop(k, LabelMap[k][Top.pos], LabelMap[k][Ahead(Top)], Top.canonical)
           n == Len(stack)
<1>1. /\ AtKids(Top) /\ stack' = Append(stack, l)
      /\ request' = request /\ outcome' = outcome /\ at' = at
  BY DEF Descend
<1>2. l \in Loop
  <2>1. Top \in Loop /\ Top.site \in Sites /\ Top.canonical \in BOOLEAN
    BY <1>1, StackLoops
  <2>2. k \in KidsOf(Top.site) /\ k \in Sites
    BY <1>1, <2>1, NextKidType
  <2>3. Top.pos \in Labels(Top.site) /\ Ahead(Top) \in Labels(Top.site)
    BY <2>1, LoopFields, AheadType
  <2>4. LabelMap[k][Top.pos] \in Labels(k) /\ LabelMap[k][Ahead(Top)] \in Labels(k)
    BY <2>1, <2>2, <2>3, MapType
  <2> HIDE DEF k
  <2>5. QED
    BY <2>1, <2>2, <2>4, NewLoopType
<1>3. l.site = k /\ l.from = LabelMap[k][Top.pos]
  BY DEF NewLoop, LoopAt
<1> HIDE DEF l, k
<1>4. /\ Len(stack') = n + 1 /\ stack'[n + 1] = l
      /\ \A i \in DOMAIN stack : stack'[i] = stack[i]
      /\ n \in Nat \ {0} /\ 1 \in DOMAIN stack /\ DOMAIN stack = 1 .. n /\ Top = stack[n]
  BY <1>1, <1>2, PushedTop, StackLoops, Outermost
<1>5. Running' /\ stack'[1] = stack[1]
  BY <1>4, EmptySeq DEF Running
<1>6. RootInv'
  <2>1. CASE n = 1
    BY <1>3, <1>4, <1>5, <2>1 DEF RootInv, Arrived
  <2>2. CASE n # 1
    <3>1. n > 1 /\ 2 \in DOMAIN stack
      BY <1>4, <2>2
    <3>2. QED
      BY <1>4, <1>5, <3>1, RootKept
  <2>3. QED
    BY <2>1, <2>2
<1>7. QED
  BY <1>1, <1>5, <1>6

\* The labels that the plan tells of.
Shown ==
  [s \in {Root} \cup KidsOf(Root) |-> IF outcome \in {"running", "done"} THEN LabelOf(s) ELSE 0]

\* While the outermost loop is at an edge, the declarations that it has left behind
\* follow the label ahead, and the others the label that it has reached.
ShownInv ==
  Running =>
    /\ LabelOf(Root) = stack[1].pos
    /\ \A j \in DOMAIN Kids[Root] :
         LET k == Kids[Root][j]
         IN LabelOf(k) = IF at[k] = 0 THEN 0
                         ELSE LabelMap[k][IF j < stack[1].next THEN Ahead(stack[1])
                                                               ELSE stack[1].pos]

\* The invariants say so.
LEMMA ShownLabels == TreeInv /\ RootInv => ShownInv
<1> SUFFICES ASSUME TreeInv, RootInv, Running
             PROVE  /\ LabelOf(Root) = stack[1].pos
                    /\ \A j \in DOMAIN Kids[Root] :
                         LabelOf(Kids[Root][j]) =
                           IF at[Kids[Root][j]] = 0 THEN 0
                           ELSE LabelMap[Kids[Root][j]]
                                  [IF j < stack[1].next THEN Ahead(stack[1]) ELSE stack[1].pos]
  BY DEF ShownInv
<1>1. Inv /\ Linked /\ Settled
  BY TreeRunning
<1>2. /\ stack[1] \in Loop /\ 1 \in DOMAIN stack /\ stack[1].site = Root /\ Root \in Sites
      /\ at[Root] = stack[1].pos /\ stack[1].next \in Nat
      /\ Len(stack) \in Nat /\ DOMAIN stack = 1 .. Len(stack)
  BY <1>1, Outermost, StackLoops
<1>3. Len(stack) > 1 =>
        /\ 2 \in DOMAIN stack /\ stack[2].site = Kids[Root][stack[1].next]
        /\ stack[2].site # Root /\ at[stack[2].site] # 0
        /\ stack[2].from = LabelMap[stack[2].site][stack[1].pos]
        /\ stack[1].next \in DOMAIN Kids[Root]
  <2> SUFFICES ASSUME Len(stack) > 1
               PROVE  /\ 2 \in DOMAIN stack /\ stack[2].site = Kids[Root][stack[1].next]
                      /\ stack[2].site # Root /\ at[stack[2].site] # 0
                      /\ stack[2].from = LabelMap[stack[2].site][stack[1].pos]
                      /\ stack[1].next \in DOMAIN Kids[Root]
    OBVIOUS
  <2>1. 2 \in DOMAIN stack /\ 1 \in 1 .. Len(stack) - 1
    BY <1>2
  <2>2. stack[2].site = Kids[Root][stack[1].next]
    BY <1>1, <1>2, <2>1 DEF Linked, NextKid
  <2>3. stack[2].site # Root /\ at[stack[2].site] = stack[2].pos
    BY <1>1, <1>2, <2>1 DEF Linked
  <2>4. stack[2].pos # 0
    BY <1>1, <2>1, StackLoops
  <2>5. stack[1].next \in DOMAIN Kids[Root]
    <3>1. AtKids(stack[1])
      BY <1>1, <2>1 DEF Inv, Sound
    <3>2. stack[1].next \in 1 .. Len(Kids[Root]) + 1 /\ stack[1].next <= Len(Kids[Root])
      BY <1>2, <3>1, LoopFields DEF AtKids
    <3>3. QED
      BY <1>2, <3>2, KidsAreSites
  <2>6. QED
    BY <2>1, <2>2, <2>3, <2>4, <2>5 DEF RootInv
<1>4. LabelOf(Root) = stack[1].pos
  BY <1>2, <1>3 DEF LabelOf
<1>5. ASSUME NEW j \in DOMAIN Kids[Root]
      PROVE  LabelOf(Kids[Root][j]) =
               IF at[Kids[Root][j]] = 0 THEN 0
               ELSE LabelMap[Kids[Root][j]]
                      [IF j < stack[1].next THEN Ahead(stack[1]) ELSE stack[1].pos]
  <2> DEFINE k == Kids[Root][j]
             p == stack[1].next
  <2>1. j \in Nat
    BY <1>2, KidsAreSites
  <2>2. CASE Len(stack) > 1 /\ j = p
    <3>1. k = stack[2].site
      BY <1>3, <2>2
    <3>2. LabelOf(k) = stack[2].from /\ at[k] # 0
      BY <1>3, <2>2, <3>1 DEF LabelOf
    <3>3. LabelOf(k) = LabelMap[k][stack[1].pos]
      BY <1>3, <2>2, <3>1, <3>2
    <3>4. ~(j < p)
      BY <1>2, <2>1, <2>2
    <3> HIDE DEF k
    <3>5. QED
      BY <3>2, <3>3, <3>4 DEF k
  <2>3. CASE ~(Len(stack) > 1 /\ j = p)
    <3>1. ~(Len(stack) > 1 /\ k = stack[2].site)
      <4> SUFFICES ASSUME Len(stack) > 1, k = stack[2].site
                   PROVE  FALSE
        OBVIOUS
      <4>1. Kids[Root][j] = Kids[Root][p] /\ p \in DOMAIN Kids[Root]
        BY <1>3
      <4>2. j = p
        BY <1>2, <4>1, OneOwner
      <4>3. QED
        BY <2>3, <4>2
    <3>2. LabelOf(k) = at[k]
      BY <3>1 DEF LabelOf
    <3>3. at[k] # 0 => /\ j < p => at[k] = LabelMap[k][Ahead(stack[1])]
                       /\ j > p \/ (j = p /\ 1 = Len(stack)) => at[k] = LabelMap[k][stack[1].pos]
      BY <1>1, <1>2 DEF Settled
    <3>4. ~(j < p) => j > p \/ (j = p /\ 1 = Len(stack))
      <4>1. Len(stack) # 0
        BY <1>2
      <4>2. QED
        BY <1>2, <2>1, <2>3, <4>1
    <3> HIDE DEF k, p
    <3>5. QED
      BY <3>2, <3>3, <3>4 DEF k, p
  <2>4. QED
    BY <2>2, <2>3
<1>6. QED
  BY <1>4, <1>5

\* A kid of the root is at one place among its declarations.
LEMMA KidPlace ==
  ASSUME NEW k \in KidsOf(Root)
  PROVE  \E j \in DOMAIN Kids[Root] : k = Kids[Root][j] /\ j \in Nat
<1>1. Root \in Sites
  BY SitesAssumption
<1>2. QED
  BY <1>1, KidsAreSites DEF KidsOf

\* The root is none of its own kids.
LEMMA RootNoKid == Root \notin KidsOf(Root) /\ Root \in Sites
BY SitesAssumption, TreeAssumption

\* Labels in which the embedded values follow label a of the root.
LEMMA ConsistentLabels ==
  ASSUME NEW f, f = [s \in {Root} \cup KidsOf(Root) |-> f[s]], NEW a, f[Root] = a,
         \A k \in KidsOf(Root) : f[k] \in {0, LabelMap[k][a]}
  PROVE  f \in Planned!Consistent(a)
<1>1. Planned!Follow(f, a)
  BY DEF Planned!Follow
<1>2. \A s \in {Root} \cup KidsOf(Root) : f[s] \in {0, a} \cup {LabelMap[k][a] : k \in KidsOf(Root)}
  OBVIOUS
<1>3. f \in [{Root} \cup KidsOf(Root) -> {0, a} \cup {LabelMap[k][a] : k \in KidsOf(Root)}]
  BY <1>2
<1>4. QED
  BY <1>1, <1>3 DEF Planned!Consistent

\* The outermost loop waits: nothing that the plan mentions happens.
LEMMA NotPlanned ==
  ASSUME ShownInv, ShownInv', Running, Running', stack'[1] = stack[1],
         \A k \in KidsOf(Root) : at'[k] = 0 <=> at[k] = 0,
         request' = request, outcome' = outcome
  PROVE  UNCHANGED Planned!vars
<1>1. StepsDone' = StepsDone
  BY DEF StepsDone
<1>2. LabelOf(Root)' = LabelOf(Root)
  BY DEF ShownInv
<1>3. ASSUME NEW k \in KidsOf(Root)
      PROVE  LabelOf(k)' = LabelOf(k)
  <2>1. PICK j \in DOMAIN Kids[Root] : k = Kids[Root][j]
    BY KidPlace
  <2>2. Ahead(stack[1])' = Ahead(stack[1])
    BY DEF Ahead, Arrived
  <2>3. QED
    BY <2>1, <2>2 DEF ShownInv
<1>4. Shown' = Shown
  BY <1>2, <1>3 DEF Shown
<1>5. QED
  BY <1>1, <1>4 DEF Planned!vars, Shown

\* The outermost loop is about to go on to its next place: the step that the plan has there,
\* if it has one, is the next one to be performed.
LEMMA NextStep ==
  ASSUME Inv, Linked, Running, outcome = "running", ~Arrived(stack[1]),
         Running', request' = request, outcome' = outcome,
         PlaceOf(stack'[1]) = PlaceOf(stack[1]) + 1,
         NEW step, step = StepAt(request, PlaceOf(stack[1]) + 1)
  PROVE  /\ step = IF stack[1].next = Places THEN RouteOf(Root, stack[1].pos, Ahead(stack[1]))
                   ELSE LET k == NextKid(stack[1])
                        IN RouteOf(k, LabelMap[k][stack[1].pos], LabelMap[k][Ahead(stack[1])])
         /\ step.from = step.to => StepsDone' = StepsDone
         /\ step.from # step.to => /\ PlanSteps(request)[StepsDone + 1] = step
                                   /\ Planned!Performs(step.site)
<1> DEFINE l == stack[1]
           n == PlaceOf(l)
           done == Len(PlanPrefix(request, n))
           total == AllPlaces(request)
<1>1. /\ l \in Loop /\ l.site = Root
      /\ l.from = Whole(request).from /\ l.to = Whole(request).to
  BY Outermost
<1>2. /\ n \in Nat /\ total \in Nat /\ n < total
      /\ step = IF l.next = Places THEN RouteOf(Root, l.pos, Ahead(l))
                ELSE LET k == NextKid(l)
                     IN RouteOf(k, LabelMap[k][l.pos], LabelMap[k][Ahead(l)])
  BY <1>1, PlaceStep
<1>3. StepsDone = done /\ StepsDone' = Len(PlanPrefix(request, n + 1))
      /\ PlanSteps(request) = PlanPrefix(request, total)
  BY DEF StepsDone, PlaceOf, PlanSteps, AllPlaces, Places
<1> HIDE DEF n, total
<1>4. /\ step.from = step.to => StepsDone' = done
      /\ step.from # step.to => /\ StepsDone' = done + 1
                                /\ done < Len(PlanSteps(request))
                                /\ PlanSteps(request)[done + 1] = step
  BY <1>2, <1>3, PlanNext DEF n
<1> HIDE DEF l, done
<1>5. step.from # step.to => Planned!Performs(step.site)
  BY <1>3, <1>4 DEF Planned!Performs
<1>6. QED
  BY <1>2, <1>3, <1>4, <1>5 DEF l

\* The outermost loop goes past a declaration, whose values have been moved, if there are
\* any: the plan's step for it, or no step when the label stays the same.
LEMMA PlannedKid ==
  ASSUME Inv, Linked, ShownInv, ShownInv', Running, Running', outcome = "running",
         ~Arrived(stack[1]), stack[1].next # Places,
         stack'[1] = [stack[1] EXCEPT !.next = stack[1].next + 1],
         at' = at, request' = request, outcome' = outcome
  PROVE  (\E k \in KidsOf(Root) : Planned!Convert(k)) \/ UNCHANGED Planned!vars
<1> DEFINE l == stack[1]
           m == stack'[1]
           step == StepAt(request, PlaceOf(l) + 1)
<1>1. l \in Loop /\ l.site = Root /\ Root \in Sites
  BY Outermost
<1>2. PICK p \in Nat : p = l.next
  BY <1>1, LoopFields
<1>3. PICK k \in KidsOf(Root) : k = NextKid(l) /\ k = Kids[Root][p] /\ p \in DOMAIN Kids[Root]
                               /\ AtKids(l)
  <2>1. p \in 1 .. Len(Kids[Root]) + 1 /\ Len(Kids[Root]) \in Nat
        /\ DOMAIN Kids[Root] = 1 .. Len(Kids[Root])
    BY <1>1, <1>2, LoopFields, KidsAreSites
  <2>2. p \in DOMAIN Kids[Root] /\ AtKids(l)
    BY <1>1, <1>2, <2>1 DEF AtKids, Places
  <2>3. NextKid(l) = Kids[Root][p]
    BY <1>1, <1>2 DEF NextKid
  <2>4. Kids[Root][p] \in KidsOf(Root)
    BY <1>1, <2>2, KidsAreSites
  <2>5. QED
    BY <2>2, <2>3, <2>4
<1>4. /\ m \in Loop /\ m.site = l.site /\ m.from = l.from /\ m.to = l.to
      /\ m.pos = l.pos /\ m.next = p + 1
  BY <1>1, <1>2, <1>3, PassType, LoopFields DEF Loop
<1>5. Ahead(m) = Ahead(l)
  BY <1>4 DEF Ahead, Arrived
<1>6. PlaceOf(m) = PlaceOf(l) + 1
  BY <1>1, <1>2, <1>4, PlacePast
<1>7. /\ step = RouteOf(k, LabelMap[k][l.pos], LabelMap[k][Ahead(l)])
      /\ step.from = step.to => StepsDone' = StepsDone
      /\ step.from # step.to => /\ PlanSteps(request)[StepsDone + 1] = step
                                /\ Planned!Performs(step.site)
  BY <1>3, <1>6, NextStep
<1> HIDE DEF step
<1>8. step.site = k /\ step.from = LabelMap[k][l.pos] /\ step.to = LabelMap[k][Ahead(l)]
  BY <1>7 DEF RouteOf
<1>9. LabelOf(Root)' = LabelOf(Root)
  BY <1>4 DEF ShownInv
<1>10. ASSUME NEW c \in KidsOf(Root), c # k
       PROVE  LabelOf(c)' = LabelOf(c)
  <2>1. PICK j \in DOMAIN Kids[Root] : c = Kids[Root][j] /\ j \in Nat
    BY KidPlace
  <2>2. j # p
    BY <1>3, <1>10, <2>1
  <2>3. (j < p) <=> (j < p + 1)
    BY <1>2, <2>1, <2>2
  <2>4. QED
    BY <1>2, <1>4, <1>5, <2>1, <2>3 DEF ShownInv
<1>11. /\ LabelOf(k) = IF at[k] = 0 THEN 0 ELSE step.from
       /\ LabelOf(k)' = IF at[k] = 0 THEN 0 ELSE step.to
  <2>1. ~(p < l.next) /\ p < m.next
    BY <1>2, <1>4
  <2>2. /\ LabelOf(Kids[Root][p]) =
             IF at[Kids[Root][p]] = 0 THEN 0 ELSE LabelMap[Kids[Root][p]][l.pos]
        /\ LabelOf(Kids[Root][p])' =
             IF at'[Kids[Root][p]] = 0 THEN 0 ELSE LabelMap[Kids[Root][p]][Ahead(m)]
    BY <1>3, <2>1 DEF ShownInv
  <2>3. QED
    BY <1>3, <1>5, <1>8, <2>2
<1> HIDE DEF l, m
<1>12. step.from # 0
  <2>1. l.pos \in Labels(Root)
    BY <1>1, LoopFields
  <2>2. LabelMap[k][l.pos] \in Labels(k)
    BY <1>1, <1>3, <2>1, MapType
  <2>3. QED
    BY <1>1, <1>3, <1>8, <2>2, KidsAreSites, SitesAssumption DEF Labels
<1>13. CASE step.from = step.to
  <2>1. \A c \in {Root} \cup KidsOf(Root) : LabelOf(c)' = LabelOf(c)
    BY <1>9, <1>10, <1>11, <1>13
  <2>2. Shown' = Shown
    BY <2>1 DEF Shown
  <2>3. QED
    BY <1>7, <1>13, <2>2 DEF Planned!vars, Shown
<1>14. CASE step.from # step.to
  <2>1. Shown[k] \in {0, step.from}
    BY <1>3, <1>11 DEF Shown
  <2>2. Shown' = [Shown EXCEPT ![k] = IF Shown[k] = 0 THEN 0 ELSE step.to]
    <3>1. Shown[k] = LabelOf(k)
      BY <1>3 DEF Shown
    <3>2. /\ DOMAIN Shown = {Root} \cup KidsOf(Root)
          /\ \A c \in {Root} \cup KidsOf(Root) : Shown[c] = LabelOf(c)
      BY DEF Shown
    <3>3. LabelOf(k)' = IF Shown[k] = 0 THEN 0 ELSE step.to
      BY <1>11, <1>12, <3>1
    <3>4. Root # k
      BY <1>3, RootNoKid
    <3>5. ASSUME NEW c \in {Root} \cup KidsOf(Root)
          PROVE  LabelOf(c)' = IF c = k THEN (IF Shown[k] = 0 THEN 0 ELSE step.to) ELSE Shown[c]
      <4>1. CASE c = k
        BY <3>3, <4>1
      <4>2. CASE c # k
        <5>1. LabelOf(c)' = LabelOf(c)
          BY <1>9, <1>10, <4>2
        <5>2. QED
          BY <3>2, <4>2, <5>1
      <4>3. QED
        BY <4>1, <4>2
    <3>6. Shown' = [c \in {Root} \cup KidsOf(Root) |-> LabelOf(c)']
      BY DEF Shown
    <3>7. QED
      BY <1>3, <3>2, <3>5, <3>6
  <2>3. Planned!Convert(k)
    BY <1>7, <1>8, <1>14, <2>1, <2>2 DEF Planned!Convert, Shown
  <2>4. QED
    BY <1>3, <2>3
<1>15. QED
  BY <1>13, <1>14

\* The outermost loop crosses an edge: the plan's own step, with everything embedded at
\* its target.
LEMMA PlannedOwn ==
  ASSUME Inv, Linked, ShownInv, ShownInv', Running, Running', outcome = "running",
         ~Arrived(stack[1]), stack[1].next = Places,
         stack'[1] = LoopAt(stack[1].site, stack[1].from, stack[1].to, Ahead(stack[1]), TRUE),
         request' = request, outcome' = outcome
  PROVE  Planned!Transition
<1> DEFINE l == stack[1]
           m == stack'[1]
           step == StepAt(request, PlaceOf(l) + 1)
<1>1. l \in Loop /\ l.site = Root /\ Root \in Sites
  BY Outermost
<1>2. m.pos = Ahead(l) /\ m.next = 1
  BY DEF LoopAt
<1>3. PlaceOf(m) = PlaceOf(l) + 1
  BY <1>1, PlaceCrossed
<1>4. /\ step = RouteOf(Root, l.pos, Ahead(l))
      /\ step.from # step.to => /\ PlanSteps(request)[StepsDone + 1] = step
                                /\ Planned!Performs(step.site)
  BY <1>3, NextStep
<1> HIDE DEF step
<1>5. step.site = Root /\ step.from = l.pos /\ step.to = Ahead(l)
  BY <1>4 DEF RouteOf
<1>6. step.from # step.to
  <2>1. l.pos \in Nat
    BY <1>1, LoopFields
  <2>2. QED
    BY <1>5, <2>1 DEF Ahead
<1>7. Shown[Root] = step.from
  BY <1>5 DEF Shown, ShownInv
<1>8. ASSUME NEW k \in KidsOf(Root)
      PROVE  Shown[k] \in {0, LabelMap[k][step.to]} /\ Shown'[k] \in {0, LabelMap[k][step.to]}
  <2>1. PICK j \in DOMAIN Kids[Root] : k = Kids[Root][j] /\ j \in Nat
    BY KidPlace
  <2>2. j < l.next /\ ~(j < m.next)
    <3>1. j \in 1 .. Len(Kids[Root]) /\ Len(Kids[Root]) \in Nat
      BY <1>1, <2>1, KidsAreSites
    <3>2. l.next = Len(Kids[Root]) + 1
      BY DEF Places
    <3> HIDE DEF l, m
    <3>3. QED
      BY <1>2, <3>1, <3>2
  <2>3. /\ LabelOf(k) = IF at[k] = 0 THEN 0 ELSE LabelMap[k][Ahead(l)]
        /\ LabelOf(k)' = IF at'[k] = 0 THEN 0 ELSE LabelMap[k][m.pos]
    BY <2>1, <2>2 DEF ShownInv
  <2>4. Shown[k] = LabelOf(k) /\ Shown'[k] = LabelOf(k)'
    BY DEF Shown
  <2>5. QED
    BY <1>2, <1>5, <2>3, <2>4
<1>9. Shown'[Root] = step.to
  BY <1>2, <1>5 DEF Shown, ShownInv
<1>10. Planned!Follow(Shown, step.to)
  BY <1>8 DEF Planned!Follow
<1>11. Shown' \in Planned!Consistent(step.to)
  <2> DEFINE f == Shown'
  <2>1. f = [s \in {Root} \cup KidsOf(Root) |-> f[s]]
    BY DEF Shown
  <2> HIDE DEF f
  <2>2. f[Root] = step.to /\ \A k \in KidsOf(Root) : f[k] \in {0, LabelMap[k][step.to]}
    BY <1>8, <1>9 DEF f
  <2>3. f \in Planned!Consistent(step.to)
    BY <2>1, <2>2, ConsistentLabels
  <2>4. QED
    BY <2>3 DEF f
<1>12. Planned!Performs(Root) /\ PlanSteps(request)[StepsDone + 1] = step
  BY <1>4, <1>5, <1>6
<1>13. QED
  BY <1>7, <1>10, <1>11, <1>12 DEF Planned!Transition, Shown

\* An operation begins before the first place of its plan.
LEMMA PlannedBegin ==
  ASSUME Inv, NEW r \in Request, Begin(r), RootInv' => ShownInv'
  PROVE  Planned!Begin(r) /\ RootInv'
<1>1. ~Running /\ outcome # "running" /\ request' = r
  BY DEF Begin, Running, Inv, TypeOK
<1>2. CASE Blocked(r)
  <2>1. ~Running' /\ outcome' = "irreversible"
    BY <1>2 DEF Begin, Running
  <2>2. Shown' = Planned!NoLabels
    BY <2>1 DEF Shown, Planned!NoLabels
  <2>3. QED
    BY <1>1, <1>2, <2>1, <2>2 DEF Planned!Begin, RootInv, Shown
<1>3. CASE ~Blocked(r)
  <2> DEFINE explicit == r.op = "validate" /\ r.label \in Explicit
             l == NewLoop(Root, Whole(r).from, Whole(r).to, ~explicit)
  <2>1. stack' = <<l>> /\ outcome' = "running"
    BY <1>3 DEF Begin
  <2>2. l.from = l.pos /\ l.next = 1 /\ l.pos = Whole(r).from
    BY DEF NewLoop, LoopAt
  <2> HIDE DEF l
  <2>3. Running' /\ stack'[1] = l /\ ~(Len(stack') > 1)
    BY <2>1 DEF Running
  <2>4. PlaceOf(l) = 0
    <3>1. l.pos \in Nat
      BY <2>2, SitesAssumption DEF Whole, RouteOf, Request, Labels
    <3>2. Distance(l.from, l.pos) = 0
      BY <2>2, <3>1 DEF Distance
    <3>3. Places \in Nat
      BY SitesAssumption, KidsAreSites DEF Places
    <3>4. QED
      BY <2>2, <3>2, <3>3 DEF PlaceOf
  <2>5. StepsDone' = 0
    <3>1. StepsDone' = Len(PlanPrefix(r, PlaceOf(l)))
      BY <1>1, <2>3 DEF StepsDone, PlaceOf, Places
    <3>2. PlanPrefix(r, 0) = <<>>
      BY PlanPrefixes
    <3>3. QED
      BY <2>4, <3>1, <3>2, EmptySeq
  <2>6. RootInv'
    BY <2>2, <2>3 DEF RootInv
  <2>7. Shown' \in Planned!Consistent(Whole(r).from)
    <3> DEFINE f == Shown'
               a == Whole(r).from
    <3>1. ShownInv' /\ f = [s \in {Root} \cup KidsOf(Root) |-> f[s]]
      BY <2>6 DEF Shown
    <3>2. f[Root] = a
      BY <2>1, <2>2, <2>3, <3>1 DEF Shown, ShownInv
    <3>3. ASSUME NEW k \in KidsOf(Root)
          PROVE  f[k] \in {0, LabelMap[k][a]}
      <4>1. PICK j \in DOMAIN Kids[Root] : k = Kids[Root][j] /\ j \in Nat
        BY KidPlace
      <4>2. ~(j < l.next) /\ f[k] = LabelOf(k)'
        <5>1. j # 0
          BY <4>1, RootNoKid, KidsAreSites
        <5>2. f[k] = LabelOf(k)'
          BY <2>1 DEF Shown
        <5>3. QED
          BY <2>2, <4>1, <5>1, <5>2
      <4>3. LabelOf(k)' = IF at'[k] = 0 THEN 0 ELSE LabelMap[k][l.pos]
        BY <2>3, <3>1, <4>1, <4>2 DEF ShownInv
      <4>4. QED
        BY <2>2, <4>2, <4>3
    <3> HIDE DEF f
    <3>4. f \in Planned!Consistent(a)
      BY <3>1, <3>2, <3>3, ConsistentLabels
    <3>5. QED
      BY <3>4 DEF f
  <2>8. Planned!Begin(r)
    BY <1>1, <1>3, <2>1, <2>3, <2>5, <2>7 DEF Planned!Begin, Shown
  <2>9. QED
    BY <2>6, <2>8
<1>4. QED
  BY <1>2, <1>3

\* A transition moves the value at the root only when it is the outermost loop's.
LEMMA PlannedEdge ==
  ASSUME Inv, Running, outcome = "running", Linked, ShownInv, ShownInv', AtEdge(Top),
         Returned(at', Top.site, Ahead(Top)), Advanced,
         request' = request, outcome' = outcome
  PROVE  Planned!Transition \/ UNCHANGED Planned!vars
<1> DEFINE n == Len(stack)
           s == Top.site
           l == LoopAt(s, Top.from, Top.to, Ahead(Top), TRUE)
<1>1. /\ n \in Nat \ {0} /\ DOMAIN stack = 1 .. n /\ Top = stack[n] /\ Top \in Loop
      /\ n \in DOMAIN stack /\ n = Len(stack) /\ s \in Sites
  BY StackLoops
<1> HIDE DEF n
<1>2. stack' = [stack EXCEPT ![n] = l] /\ l \in Loop
  BY <1>1, AdvanceType DEF Advanced
<1>3. /\ Len(stack') = n /\ stack'[n] = l
      /\ \A i \in DOMAIN stack : i # n => stack'[i] = stack[i]
  <2> HIDE DEF l
  <2>1. QED
    BY <1>1, <1>2, ReplacedTop
<1>4. Running'
  BY <1>1, <1>3, EmptySeq DEF Running
<1>5. stack[1].site = Root /\ Root \in Sites /\ 1 \in DOMAIN stack
  BY Outermost
<1>6. CASE n = 1
  <2>1. Top = stack[1] /\ stack'[1] = l /\ ~Arrived(stack[1]) /\ stack[1].next = Places
    BY <1>1, <1>3, <1>5, <1>6 DEF AtEdge, Places
  <2>2. Planned!Transition
    BY <1>4, <2>1, PlannedOwn
  <2>3. QED
    BY <2>2
<1>7. CASE n # 1
  <2>1. stack'[1] = stack[1]
    BY <1>3, <1>5, <1>7
  <2>2. ASSUME NEW k \in KidsOf(Root)
        PROVE  at'[k] = 0 <=> at[k] = 0
    <3>1. k \in Sites
      BY <1>5, KidsAreSites
    <3>2. CASE k = s
      <4>1. at'[k] = Ahead(Top) /\ at[k] = Top.pos
        BY <1>1, <3>2 DEF Returned, Linked
      <4>2. Ahead(Top) # 0 /\ Top.pos # 0
        BY <1>1, TopLoop, StackLoops
      <4>3. QED
        BY <4>1, <4>2
    <3>3. CASE k # s
      <4>1. k \notin Under(s)
        <5> SUFFICES ASSUME k \in Under(s)
                     PROVE  FALSE
          OBVIOUS
        <5>1. PICK t \in {s} \cup Under(s) : k \in KidsOf(t)
          BY <1>1, UnderOwner
        <5>2. t \in Sites
          BY <1>1, <5>1, UnderClosed
        <5>3. t = Root
          BY <1>5, <5>1, <5>2, OneOwner DEF KidsOf
        <5>4. s # Root
          BY <1>1, <1>5, <1>7 DEF Linked
        <5>5. Root \notin Under(s)
          BY <1>5, BelowTop DEF OnStack
        <5>6. QED
          BY <5>1, <5>3, <5>4, <5>5
      <4>2. at'[k] = at[k]
        BY <3>1, <3>3, <4>1 DEF Returned
      <4>3. QED
        BY <4>2
    <3>4. QED
      BY <3>2, <3>3
  <2>3. UNCHANGED Planned!vars
    BY <1>4, <2>1, <2>2, NotPlanned
  <2>4. QED
    BY <2>3
<1>8. QED
  BY <1>6, <1>7

\* A loop that goes past a declaration performs a step of the plan when it is the
\* outermost one.
LEMMA PlannedPast ==
  ASSUME Inv, Running, outcome = "running", Linked, ShownInv, ShownInv',
         NEW m \in DOMAIN stack, AtKids(stack[m]),
         Running', stack'[m] = [stack[m] EXCEPT !.next = stack[m].next + 1],
         m # 1 => stack'[1] = stack[1],
         at' = at, request' = request, outcome' = outcome
  PROVE  (\E k \in KidsOf(Root) : Planned!Convert(k)) \/ UNCHANGED Planned!vars
<1>1. stack[1] \in Loop /\ 1 \in DOMAIN stack /\ stack[1].site = Root /\ Root \in Sites
  BY Outermost
<1>2. CASE m = 1
  <2>1. ~Arrived(stack[1]) /\ stack[1].next <= Len(Kids[Root])
    BY <1>1, <1>2 DEF AtKids
  <2>2. stack[1].next # Places
    BY <1>1, <2>1, LoopFields, KidsAreSites DEF Places
  <2>3. QED
    BY <1>2, <2>1, <2>2, PlannedKid
<1>3. CASE m # 1
  BY <1>3, NotPlanned
<1>4. QED
  BY <1>2, <1>3

\* When the outermost loop has crossed its last edge, the plan has been performed.
LEMMA PlannedFinish ==
  ASSUME Inv, RootInv, Linked, outcome = "running", Finish
  PROVE  Planned!Complete /\ RootInv'
<1>1. /\ Running /\ Top = stack[1] /\ Arrived(stack[1]) /\ ~(Len(stack) > 1)
      /\ outcome' = "done" /\ request' = request /\ at' = at /\ ~Running' /\ stack' = <<>>
  BY StackLoops DEF Finish, AtEnd, Running
<1>2. /\ stack[1] \in Loop /\ stack[1].from = Whole(request).from
      /\ stack[1].to = Whole(request).to
  BY <1>1, Outermost
<1>3. stack[1].next = 1 /\ stack[1].pos = Whole(request).to
  BY <1>1, <1>2 DEF RootInv, Arrived
<1>4. PlaceOf(stack[1]) = AllPlaces(request)
  <2> DEFINE d == Distance(Whole(request).from, Whole(request).to)
  <2>1. stack[1].from \in Nat /\ stack[1].pos \in Nat /\ Root \in Sites
    BY <1>1, <1>2, LoopFields, Outermost
  <2>2. d \in Nat /\ Places \in Nat
    BY <1>2, <1>3, <2>1, KidsAreSites DEF Distance, Places
  <2>3. PlaceOf(stack[1]) = d * Places + 1 - 1 /\ AllPlaces(request) = d * Places
    BY <1>2, <1>3 DEF PlaceOf, AllPlaces
  <2> HIDE DEF d
  <2>4. d * Places \in Nat
    BY <2>2
  <2>5. QED
    BY <2>3, <2>4
<1>5. StepsDone = Len(PlanSteps(request))
  BY <1>4 DEF StepsDone, PlaceOf, AllPlaces, PlanSteps, Places
<1>6. Shown' = Shown
  <2>1. ~(Len(stack') > 1)
    BY <1>1
  <2>2. \A s \in {Root} \cup KidsOf(Root) : LabelOf(s) = at[s] /\ LabelOf(s)' = at[s]
    BY <1>1, <2>1 DEF LabelOf
  <2>3. QED
    BY <1>1, <2>2 DEF Shown
<1>7. Planned!Complete
  BY <1>1, <1>5, <1>6 DEF Planned!Complete, Shown
<1>8. QED
  BY <1>1, <1>7 DEF RootInv

\* What is known of the outermost loop is kept by every step.
LEMMA RootStep == TreeInv /\ RootInv /\ [Next]_vars => RootInv'
<1> SUFFICES ASSUME TreeInv, RootInv, [Next]_vars
             PROVE  RootInv'
  OBVIOUS
<1>1. Inv
  BY DEF TreeInv
<1>2. Running => Linked /\ Settled /\ RawBelow /\ outcome = "running"
  BY TreeRunning
<1>3. ASSUME NEW r \in Request, Begin(r)
      PROVE  RootInv'
  <2>1. stack' = <<>> \/ \E c : stack' = <<NewLoop(Root, Whole(r).from, Whole(r).to, c)>>
    BY <1>3 DEF Begin
  <2>2. QED
    BY <2>1 DEF RootInv, Running, NewLoop, LoopAt
<1>4. CASE Pass
  <2> DEFINE n == Len(stack)
             l == [Top EXCEPT !.next = Top.next + 1]
  <2>1. Running /\ AtKids(Top) /\ stack' = [stack EXCEPT ![n] = l]
    BY <1>4 DEF Pass
  <2>2. /\ n \in DOMAIN stack /\ Top = stack[n] /\ n \in Nat \ {0} /\ n = Len(stack)
        /\ DOMAIN stack = 1 .. n /\ l \in Loop
    BY <1>1, <2>1, StackLoops, PassType
  <2> HIDE DEF n, l
  <2>3. /\ Len(stack') = n /\ stack'[n] = l
        /\ \A i \in DOMAIN stack : i # n => stack'[i] = stack[i]
    BY <1>1, <2>1, <2>2, ReplacedTop
  <2>4. \A i \in 1 .. n - 1 : stack'[i] = stack[i]
    BY <2>2, <2>3
  <2>5. stack'[n] = [stack[n] EXCEPT !.next = stack[n].next + 1] /\ AtKids(stack[n])
    BY <2>1, <2>2, <2>3 DEF l
  <2>6. QED
    BY <1>1, <1>2, <2>1, <2>2, <2>3, <2>4, <2>5, RootPast
<1>5. CASE Descend
  <2>1. Running
    BY <1>5 DEF Descend
  <2>2. QED
    BY <1>1, <1>2, <1>5, <2>1, RootDescend
<1>6. CASE Identity \/ Callback
  <2>1. Running /\ Advanced
    BY <1>6 DEF Identity, Callback
  <2>2. QED
    BY <1>1, <2>1, RootEdge
<1>7. CASE Reject \/ Finish
  BY <1>7 DEF Reject, Finish, RootInv, Running
<1>8. CASE Return
  <2>1. Running
    BY <1>8 DEF Return
  <2>2. PICK m \in DOMAIN stack :
          /\ Len(stack') = m /\ AtKids(stack[m])
          /\ \A i \in 1 .. m - 1 : stack'[i] = stack[i]
          /\ stack'[m] = [stack[m] EXCEPT !.next = stack[m].next + 1]
    BY <1>1, <1>8, <2>1, PoppedTop
  <2>3. QED
    BY <1>1, <1>2, <2>1, <2>2, RootPast
<1>9. CASE UNCHANGED vars
  BY <1>9 DEF vars, RootInv, Running, Arrived
<1>10. QED
  BY <1>3, <1>4, <1>5, <1>6, <1>7, <1>8, <1>9 DEF Next

\* Every step is a step of the plan, or none that the plan mentions.
LEMMA PlannedStep ==
  ASSUME TreeInv, RootInv, ShownInv, TreeInv', RootInv', ShownInv', [Next]_vars
  PROVE  [Planned!Next]_Planned!vars
<1>1. Inv /\ Inv'
  BY DEF TreeInv
<1>2. Running => Linked /\ Settled /\ RawBelow /\ outcome = "running"
  BY TreeRunning
<1>3. ASSUME \/ \E k \in KidsOf(Root) : Planned!Convert(k)
             \/ Planned!Transition
             \/ UNCHANGED Planned!vars
      PROVE  [Planned!Next]_Planned!vars
  BY <1>3 DEF Planned!Next
<1>4. ASSUME NEW r \in Request, Begin(r)
      PROVE  [Planned!Next]_Planned!vars
  BY <1>1, <1>4, PlannedBegin DEF Planned!Next
<1>5. CASE Pass
  <2> DEFINE n == Len(stack)
             l == [Top EXCEPT !.next = Top.next + 1]
  <2>1. /\ Running /\ AtKids(Top) /\ stack' = [stack EXCEPT ![n] = l]
        /\ request' = request /\ outcome' = outcome /\ at' = at
    BY <1>5 DEF Pass
  <2>2. /\ n \in DOMAIN stack /\ Top = stack[n] /\ n \in Nat \ {0} /\ n = Len(stack)
        /\ DOMAIN stack = 1 .. n /\ l \in Loop
    BY <1>1, <2>1, StackLoops, PassType
  <2> HIDE DEF n, l
  <2>3. /\ Len(stack') = n /\ stack'[n] = l
        /\ \A i \in DOMAIN stack : i # n => stack'[i] = stack[i]
    BY <1>1, <2>1, <2>2, ReplacedTop
  <2>4. Running' /\ 1 \in DOMAIN stack
    BY <2>2, <2>3, EmptySeq DEF Running
  <2>5. n # 1 => stack'[1] = stack[1]
    BY <2>3, <2>4
  <2>6. stack'[n] = [stack[n] EXCEPT !.next = stack[n].next + 1] /\ AtKids(stack[n])
    BY <2>1, <2>2, <2>3 DEF l
  <2>7. (\E k \in KidsOf(Root) : Planned!Convert(k)) \/ UNCHANGED Planned!vars
    BY <1>1, <1>2, <2>1, <2>2, <2>4, <2>5, <2>6, PlannedPast
  <2>8. QED
    BY <1>3, <2>7
<1>6. CASE Descend
  <2>1. Running
    BY <1>6 DEF Descend
  <2>2. /\ Running' /\ stack'[1] = stack[1]
        /\ at' = at /\ request' = request /\ outcome' = outcome
    BY <1>1, <1>2, <1>6, <2>1, RootDescend
  <2>3. UNCHANGED Planned!vars
    BY <2>1, <2>2, NotPlanned
  <2>4. QED
    BY <2>3
<1>7. CASE Identity
  <2>1. /\ Running /\ AtEdge(Top) /\ Advanced /\ outcome' = outcome /\ request' = request
    BY <1>7 DEF Identity
  <2>2. Returned(at', Top.site, Ahead(Top))
    BY <1>1, <1>2, <1>7, <2>1, IdentityReturns
  <2>3. Planned!Transition \/ UNCHANGED Planned!vars
    BY <1>1, <1>2, <2>1, <2>2, PlannedEdge
  <2>4. QED
    BY <1>3, <2>3
<1>8. CASE Callback
  <2>1. /\ Running /\ AtEdge(Top) /\ Advanced /\ outcome' = outcome /\ request' = request
        /\ Returned(at', Top.site, Ahead(Top))
    BY <1>8 DEF Callback
  <2>2. Planned!Transition \/ UNCHANGED Planned!vars
    BY <1>1, <1>2, <2>1, PlannedEdge
  <2>3. QED
    BY <1>3, <2>2
<1>9. CASE Reject
  <2>1. /\ Running /\ outcome' = "invalid" /\ ~Running' /\ request' = request
    BY <1>9 DEF Reject, Running
  <2>2. Shown' = Planned!NoLabels
    BY <2>1 DEF Shown, Planned!NoLabels
  <2>3. Planned!Fail
    BY <1>2, <2>1, <2>2 DEF Planned!Fail, Shown
  <2>4. QED
    BY <2>3 DEF Planned!Next
<1>10. CASE Return
  <2> DEFINE m == Len(stack) - 1
  <2>1. /\ Running /\ request' = request /\ outcome' = outcome /\ at' = at
    BY <1>10 DEF Return
  <2>2. /\ m \in DOMAIN stack /\ m \in Nat \ {0} /\ Len(stack') = m
        /\ \A i \in 1 .. m - 1 : stack'[i] = stack[i]
        /\ stack'[m] = [stack[m] EXCEPT !.next = stack[m].next + 1] /\ AtKids(stack[m])
    BY <1>1, <1>10, <2>1, PoppedTop
  <2> HIDE DEF m
  <2>3. Running' /\ (m # 1 => stack'[1] = stack[1])
    BY <2>2, EmptySeq DEF Running
  <2>4. (\E k \in KidsOf(Root) : Planned!Convert(k)) \/ UNCHANGED Planned!vars
    BY <1>1, <1>2, <2>1, <2>2, <2>3, PlannedPast
  <2>5. QED
    BY <1>3, <2>4
<1>11. CASE Finish
  <2>1. Running
    BY <1>11 DEF Finish
  <2>2. QED
    BY <1>1, <1>2, <1>11, <2>1, PlannedFinish DEF Planned!Next
<1>12. CASE UNCHANGED vars
  <2>1. StepsDone' = StepsDone /\ Running' = Running /\ request' = request /\ outcome' = outcome
    BY <1>12 DEF vars, StepsDone, Running
  <2>2. Shown' = Shown
    BY <1>12 DEF vars, Shown, LabelOf
  <2>3. UNCHANGED Planned!vars
    BY <2>1, <2>2 DEF Planned!vars, Shown
  <2>4. QED
    BY <2>3
<1>13. QED
  BY <1>4, <1>5, <1>6, <1>7, <1>8, <1>9, <1>10, <1>11, <1>12 DEF Next

\* The loops, their recursion into nested families, their shortcuts and whatever
\* callbacks make of the payload move the family's value and the values of every
\* embedded family as the steps of the plan say, in the plan's order, each once, and in no
\* other way; where a family has no value, its steps have no effect.  A plan with an
\* unavailable step is refused before any of them (_planning.py:219-262, 308-363, with
\* _runtime.py:195-232, 337-372 and _runtime_nested.py:336-366, 1549-1589).
THEOREM PlanImplemented == Spec => ImplementsPlan
<1>1. Init => TreeInv /\ RootInv /\ Planned!Init
  <2>1. Init => RootInv
    BY DEF Init, RootInv, Running
  <2>2. Init => Planned!Init
    <3> SUFFICES ASSUME Init
                 PROVE  Planned!Init
      OBVIOUS
    <3>1. Shown = Planned!NoLabels
      BY DEF Init, Shown, Planned!NoLabels
    <3>2. QED
      BY <3>1 DEF Init, Planned!Init, Nothing, Planned!Nothing, Running, Shown
  <2>3. QED
    BY <2>1, <2>2, TreeInit
<1>2. TreeInv /\ RootInv /\ [Next]_vars => TreeInv' /\ RootInv'
  BY TreeStep, RootStep
<1>3. TreeInv /\ RootInv => ShownInv
  BY ShownLabels
<1>4. /\ TreeInv /\ RootInv /\ ShownInv /\ TreeInv' /\ RootInv' /\ ShownInv' /\ [Next]_vars
      => [Planned!Next]_Planned!vars
  BY PlannedStep
<1> QED
  BY <1>1, <1>2, <1>3, <1>4, PTL DEF Spec, ImplementsPlan, Planned!Spec
=============================================================================
