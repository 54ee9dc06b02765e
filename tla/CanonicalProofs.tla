---------------------------- MODULE CanonicalProofs ----------------------------
(***************************************************************************)
(* Proofs about CanonicalValidation: the frames that layers push are those *)
(* of the calls that run, whatever fails; no set that lost a member is     *)
(* delivered, where SetsWatched; and a recognised enum member keeps its    *)
(* type, where EnumsWatched.                                               *)
(***************************************************************************)
EXTENDS CanonicalValidation, FiniteSetTheorems, SequenceTheorems, TLAPS

-----------------------------------------------------------------------------
(* Sequences. *)

\* An appended sequence has one more member, and the others stay where they are.
LEMMA Appended ==
  ASSUME NEW S, NEW s \in Seq(S), NEW e \in S
  PROVE  /\ Append(s, e) \in Seq(S)
         /\ Len(Append(s, e)) = Len(s) + 1
         /\ \A i \in 1..Len(s) : Append(s, e)[i] = s[i]
         /\ Append(s, e)[Len(s) + 1] = e
  OBVIOUS

\* What is left when a sequence loses its last member.
LEMMA FrontOf ==
  ASSUME NEW S, NEW s \in Seq(S), s # <<>>
  PROVE  /\ Front(s) \in Seq(S)
         /\ Len(s) \in Nat \ {0}
         /\ Len(Front(s)) = Len(s) - 1
         /\ \A i \in 1..(Len(s) - 1) : Front(s)[i] = s[i]
         /\ Last(s) = s[Len(s)]
         /\ Last(s) \in S
  <1>1. Len(s) \in Nat \ {0}
    BY EmptySeq
  <1>2. Front(s) = SubSeq(s, 1, Len(s) - 1) /\ Last(s) = s[Len(s)]
    BY DEF Front, Last
  <1>3. \A i \in 1..(Len(s) - 1) : s[i] \in S
    BY <1>1
  <1>4. 1 \in Int /\ Len(s) - 1 \in Int /\ (IF 1 <= Len(s) - 1 THEN Len(s) - 1 - 1 + 1 ELSE 0) = Len(s) - 1
        /\ Len(s) - 1 - 1 + 1 = Len(s) - 1
    BY <1>1
  <1>5. /\ SubSeq(s, 1, Len(s) - 1) \in Seq(S)
        /\ Len(SubSeq(s, 1, Len(s) - 1)) = Len(s) - 1
        /\ \A i \in 1..(Len(s) - 1) : SubSeq(s, 1, Len(s) - 1)[i] = s[1 + i - 1]
    BY <1>3, <1>4, SubSeqProperties
  <1>6. \A i \in 1..(Len(s) - 1) : s[1 + i - 1] = s[i]
    OBVIOUS
  <1> QED
    BY <1>1, <1>2, <1>5, <1>6

\* A sequence of which one member is replaced.
LEMMA Changed ==
  ASSUME NEW S, NEW s \in Seq(S), NEW i \in 1..Len(s), NEW e \in S
  PROVE  /\ [s EXCEPT ![i] = e] \in Seq(S)
         /\ Len([s EXCEPT ![i] = e]) = Len(s)
         /\ \A j \in 1..Len(s) : [s EXCEPT ![i] = e][j] = IF j = i THEN e ELSE s[j]
  OBVIOUS

-----------------------------------------------------------------------------
(* The kinds of values of the variables. *)

Values == {"stored", "alike", "same", "set", "smaller", "m1", "m2", "app"}
Arguments == {"stored", "set", "smaller", "m1", "m2", "app"}
Kinds == {"validation", "invariant", "other"}
ValueRec == [task : {"value"}, value : Values, app : BOOLEAN, lost : BOOLEAN]
ErrorRec == [task : {"error"}, kind : Kinds, lost : BOOLEAN]
TaskRec(a) == [task : {"call"}, node : NodesOf(a), layer : Nat \ {0}, value : Arguments]
CallRec(a) ==
  [node : NodesOf(a), layer : Nat \ {0}, value : Arguments, at : Nat, done : Seq(ValueRec),
   kind : Kinds, lost : BOOLEAN]
UnionRec == [suppressed : BOOLEAN, results : SUBSET (Values \X BOOLEAN)]
ChoiceRec == [ran : BOOLEAN, violation : BOOLEAN]

\* The layer that a call is a call of.
LayerOf(c) == LayerAt(c.node, c.layer)
IsCore(c, types) == LayerOf(c) = Core /\ c.node.type \in types

-----------------------------------------------------------------------------
(* The line of calls from the root of the schema to what is to be done. *)

LineRec(a) == [node : NodesOf(a), layer : Nat \ {0}, value : Arguments]

\* Their types.
LEMMA LineType ==
  ASSUME NEW a, NEW x \in LineRec(a)
  PROVE  x.node \in NodesOf(a) /\ x.layer \in Nat \ {0} /\ x.value \in Arguments
  BY DEF LineRec

Line(c) == [node |-> c.node, layer |-> c.layer, value |-> c.value]

\* A node is called inside itself by further layers, and below only nodes that it leads to are.
Descends(a, x, y) == (y.node = x.node /\ y.layer > x.layer) \/ y.node \in Inner(a, x.node)

\* The call of layer l of node j is still running, with the same value, and with nothing but
\* layers of the node above it.
Held(p, j, l) ==
  \E i \in 1..(j - 1) :
    /\ p[i].node = p[j].node /\ p[i].value = p[j].value /\ p[i].layer = l
    /\ \A k \in (i + 1)..(j - 1) : p[k].node = p[j].node /\ p[k].layer > l /\ p[k].layer < p[j].layer

\* What a call is called with: no set below a set, the values of functions below those, no
\* carrier behind a shield.
Passes(x, y) ==
  /\ IsCore(x, {"set"}) => y.value # "set"
  /\ x.value = "app" => y.value = "app"
Shielded(x) ==
  \A l \in 1..(x.layer - 1) : x.node.layers[l] \in Shielding => x.value \notin Carriers
Watching(x) == IsCore(x, {"union"}) /\ WatchesChoices(x.node)

\* A line as validation makes it.
Lined(a, p) ==
  /\ \A i \in 1..Len(p) : p[i].layer <= Len(p[i].node.layers) + 1 /\ Shielded(p[i])
  /\ \A i, j \in 1..Len(p) : i < j => Descends(a, p[i], p[j]) /\ Passes(p[i], p[j])
  /\ \A j \in 1..Len(p) : \A l \in 1..(p[j].layer - 1) :
       p[j].node.layers[l] \in Shielding \/ Held(p, j, l)
  /\ \A i \in 1..Len(p) : i < Len(p) /\ Watching(p[i]) => LayerOf(p[i + 1]) = "choice"

\* The beginning of a line is one.
LEMMA LinedPrefix ==
  ASSUME NEW a, NEW p \in Seq(LineRec(a)), Lined(a, p),
         NEW q \in Seq(LineRec(a)), Len(q) <= Len(p), \A i \in 1..Len(q) : q[i] = p[i]
  PROVE  Lined(a, q)
  <1> /\ Len(p) \in Nat
      /\ Len(q) \in Nat
      /\ \A i \in 1..Len(q) : i \in 1..Len(p) /\ q[i] = p[i]
    OBVIOUS
  <1> \A i \in 1..Len(q) : q[i].layer \in Nat
    BY \A i \in 1..Len(q) : q[i] \in LineRec(a), LineType
  <1>1. \A i \in 1..Len(q) : q[i].layer <= Len(q[i].node.layers) + 1 /\ Shielded(q[i])
    BY DEF Lined
  <1>2. \A i, j \in 1..Len(q) : i < j => Descends(a, q[i], q[j]) /\ Passes(q[i], q[j])
    BY DEF Lined
  <1>3. ASSUME NEW j \in 1..Len(q), NEW l \in 1..(q[j].layer - 1), q[j].node.layers[l] \notin Shielding
        PROVE  Held(q, j, l)
    <2>1. Held(p, j, l)
      BY <1>3 DEF Lined
    <2>2. \A i \in 1..(j - 1) : q[i] = p[i]
      OBVIOUS
    <2>3. PICK i \in 1..(j - 1) :
            /\ p[i].node = p[j].node /\ p[i].value = p[j].value /\ p[i].layer = l
            /\ \A k \in (i + 1)..(j - 1) : p[k].node = p[j].node /\ p[k].layer > l /\ p[k].layer < p[j].layer
      BY <2>1 DEF Held
    <2>4. \A k \in (i + 1)..(j - 1) : k \in 1..(j - 1)
      OBVIOUS
    <2>5. q[j] = p[j]
      OBVIOUS
    <2> QED
      BY <2>2, <2>3, <2>4, <2>5 DEF Held
  <1>4. ASSUME NEW i \in 1..Len(q), i < Len(q), Watching(q[i])
        PROVE  LayerOf(q[i + 1]) = "choice"
    BY <1>4, i + 1 \in 1..Len(q) DEF Lined
  <1> QED
    BY <1>1, <1>2, <1>3, <1>4 DEF Lined

\* A line is continued by a call that fits its calls.
LEMMA LinedNext ==
  ASSUME NEW a, NEW p \in Seq(LineRec(a)), Lined(a, p), NEW x \in LineRec(a),
         x.layer <= Len(x.node.layers) + 1, Shielded(x),
         \A i \in 1..Len(p) : Descends(a, p[i], x) /\ Passes(p[i], x),
         \A l \in 1..(x.layer - 1) : x.node.layers[l] \in Shielding \/ Held(Append(p, x), Len(p) + 1, l),
         p # <<>> /\ Watching(p[Len(p)]) => LayerOf(x) = "choice"
  PROVE  Lined(a, Append(p, x))
  <1> DEFINE q == Append(p, x)
  <1> /\ q \in Seq(LineRec(a)) /\ Len(q) = Len(p) + 1 /\ Len(p) \in Nat
      /\ \A i \in 1..Len(p) : q[i] = p[i]
      /\ q[Len(p) + 1] = x
    BY Appended
  <1> HIDE DEF q
  <1>1. \A i \in 1..Len(q) : q[i].layer <= Len(q[i].node.layers) + 1 /\ Shielded(q[i])
    BY \A i \in 1..Len(q) : i \in 1..Len(p) \/ i = Len(p) + 1 DEF Lined
  <1>2. ASSUME NEW i \in 1..Len(q), NEW j \in 1..Len(q), i < j
        PROVE  Descends(a, q[i], q[j]) /\ Passes(q[i], q[j])
    <2>1. CASE j = Len(p) + 1
      BY <1>2, <2>1, i \in 1..Len(p)
    <2>2. CASE j # Len(p) + 1
      BY <1>2, <2>2, i \in 1..Len(p), j \in 1..Len(p) DEF Lined
    <2> QED
      BY <2>1, <2>2
  <1>3. ASSUME NEW j \in 1..Len(q), NEW l \in 1..(q[j].layer - 1), q[j].node.layers[l] \notin Shielding
        PROVE  Held(q, j, l)
    <2>1. CASE j = Len(p) + 1
      BY <1>3, <2>1 DEF q
    <2>2. CASE j # Len(p) + 1
      <3>1. j \in 1..Len(p) /\ q[j] = p[j]
        BY <2>2
      <3>2. Held(p, j, l)
        BY <1>3, <3>1 DEF Lined
      <3>3. \A i \in 1..(j - 1) : q[i] = p[i]
        BY <3>1
      <3>4. \A i \in 1..(j - 1) : \A k \in (i + 1)..(j - 1) : k \in 1..(j - 1)
        BY <3>1
      <3> QED
        BY <3>1, <3>2, <3>3, <3>4 DEF Held
    <2> QED
      BY <2>1, <2>2
  <1>4. ASSUME NEW i \in 1..Len(q), i < Len(q), Watching(q[i])
        PROVE  LayerOf(q[i + 1]) = "choice"
    <2>1. i \in 1..Len(p) /\ q[i] = p[i]
      BY <1>4
    <2>2. CASE i = Len(p)
      BY <1>4, <2>1, <2>2
    <2>3. CASE i # Len(p)
      BY <1>4, <2>1, <2>3, i + 1 \in 1..Len(p) DEF Lined
    <2> QED
      BY <2>2, <2>3
  <1>5. Lined(a, q)
    BY <1>1, <1>2, <1>3, <1>4 DEF Lined
  <1> QED
    BY <1>5 DEF q

\* A line without its last call is one.
LEMMA LinedFront ==
  ASSUME NEW a, NEW p \in Seq(LineRec(a)), Lined(a, p), p # <<>>
  PROVE  Lined(a, Front(p))
  <1> /\ Front(p) \in Seq(LineRec(a)) /\ Len(Front(p)) = Len(p) - 1 /\ Len(p) \in Nat
      /\ \A i \in 1..(Len(p) - 1) : Front(p)[i] = p[i]
    BY FrontOf
  <1> QED
    BY LinedPrefix, Len(Front(p)) <= Len(p)

\* Layers are not cores, and within the layers of a node.
LEMMA LayerFacts ==
  ASSUME NEW a, Closed(a), NEW n \in NodesOf(a), NEW i \in Nat \ {0}
  PROVE  /\ Len(n.layers) \in Nat
         /\ LayerAt(n, i) = Core <=> i > Len(n.layers)
         /\ i <= Len(n.layers) => LayerAt(n, i) = n.layers[i] /\ n.layers[i] \in Layers
         /\ LayerAt(n, i) \in Layers \cup {Core}
  <1>1. n.layers \in Seq(Layers)
    BY DEF Closed
  <1>2. i <= Len(n.layers) => n.layers[i] \in Layers
    BY <1>1
  <1>3. Core \notin Layers
    BY DEF Core, Layers, Shielding
  <1> QED
    BY <1>1, <1>2, <1>3 DEF LayerAt

\* The next call in a node, of a layer that calls.
LEMMA LinedWrapped ==
  ASSUME NEW a, Closed(a), NEW p \in Seq(LineRec(a)), Lined(a, p), p # <<>>, NEW x \in LineRec(a),
         LayerOf(p[Len(p)]) \notin Shielding \cup {Core},
         x = [p[Len(p)] EXCEPT !.layer = @ + 1]
  PROVE  Lined(a, Append(p, x))
  <1> DEFINE y == p[Len(p)]
             q == Append(p, x)
  <1>0. Len(p) \in Nat \ {0} /\ y \in LineRec(a)
    BY FrontOf, Last(p) = y DEF Last
  <1>1. y.node \in NodesOf(a) /\ y.layer \in Nat \ {0} /\ x.node = y.node /\ x.value = y.value /\ x.layer = y.layer + 1
    BY <1>0 DEF LineRec
  <1>2. y.layer <= Len(y.node.layers) /\ Len(y.node.layers) \in Nat /\ LayerOf(y) = y.node.layers[y.layer]
    BY <1>1, LayerFacts DEF LayerOf
  <1>3. Shielded(x)
    <2>1. Shielded(y)
      BY <1>0 DEF Lined
    <2>2. \A l \in 1..(x.layer - 1) : l \in 1..(y.layer - 1) \/ l = y.layer
      BY <1>1
    <2> QED
      BY <1>1, <1>2, <2>1, <2>2 DEF Shielded
  <1>4. \A i \in 1..Len(p) : Descends(a, p[i], x) /\ Passes(p[i], x)
    <2>1. ASSUME NEW i \in 1..Len(p) PROVE Descends(a, p[i], x) /\ Passes(p[i], x)
      <3>1. CASE i = Len(p)
        <4>1. ~IsCore(y, {"set"})
          BY DEF IsCore
        <4> QED
          BY <1>1, <3>1, <4>1 DEF Descends, Passes
      <3>2. CASE i # Len(p)
        <4>1. Descends(a, p[i], y) /\ Passes(p[i], y)
          BY <1>0, <3>2 DEF Lined
        <4>2. p[i] \in LineRec(a)
          OBVIOUS
        <4> QED
          BY <1>1, <4>1, <4>2 DEF Descends, Passes, LineRec
      <3> QED
        BY <3>1, <3>2
    <2> QED
      BY <2>1
  <1>5. ASSUME NEW l \in 1..(x.layer - 1), x.node.layers[l] \notin Shielding
        PROVE  Held(q, Len(p) + 1, l)
    <2> /\ \A i \in 1..Len(p) : q[i] = p[i]
        /\ q[Len(p) + 1] = x
      BY Appended
    <2> HIDE DEF q
    <2>1. CASE l = y.layer
      <3>1. (\A k \in (Len(p) + 1)..(Len(p) + 1 - 1) : FALSE) /\ Len(p) \in 1..(Len(p) + 1 - 1) /\ q[Len(p)] = y
        BY <1>0
      <3>2. q[Len(p)].node = x.node /\ q[Len(p)].value = x.value /\ q[Len(p)].layer = l
        BY <1>1, <2>1, <3>1
      <3> QED
        BY <3>1, <3>2 DEF Held
    <2>2. CASE l # y.layer
      <3>1. l \in 1..(y.layer - 1) /\ Held(p, Len(p), l)
        BY <1>0, <1>1, <1>5, <2>2 DEF Lined
      <3>2. PICK i \in 1..(Len(p) - 1) :
              /\ p[i].node = y.node /\ p[i].value = y.value /\ p[i].layer = l
              /\ \A k \in (i + 1)..(Len(p) - 1) : p[k].node = y.node /\ p[k].layer > l /\ p[k].layer < y.layer
        BY <3>1 DEF Held
      <3>3. ASSUME NEW k \in (i + 1)..Len(p)
            PROVE  q[k].node = x.node /\ q[k].layer > l /\ q[k].layer < x.layer
        <4>1. CASE k = Len(p)
          BY <1>0, <1>1, <3>1, <4>1
        <4>2. CASE k # Len(p)
          <5>1. k \in (i + 1)..(Len(p) - 1) /\ k \in 1..Len(p)
            BY <1>0, <4>2
          <5>2. p[k] \in LineRec(a)
            BY <5>1
          <5>3. q[k] = p[k] /\ p[k].layer \in Nat
            BY <5>1, <5>2, LineType
          <5> QED
            BY <1>1, <3>2, <5>1, <5>3
        <4> QED
          BY <4>1, <4>2
      <3>4. i \in 1..(Len(p) + 1 - 1) /\ Len(p) + 1 - 1 = Len(p) /\ q[i] = p[i]
        BY <1>0
      <3>5. q[i].node = x.node /\ q[i].value = x.value /\ q[i].layer = l
        BY <1>1, <3>2, <3>4
      <3> QED
        BY <3>3, <3>4, <3>5 DEF Held
    <2> QED
      BY <2>1, <2>2
  <1>6. ~Watching(y)
    BY DEF Watching, IsCore
  <1>7. \A l \in 1..(x.layer - 1) : x.node.layers[l] \in Shielding \/ Held(Append(p, x), Len(p) + 1, l)
    BY <1>5
  <1>8. x.layer <= Len(x.node.layers) + 1
    BY <1>1, <1>2
  <1> HIDE DEF q
  <1> QED
    BY <1>3, <1>4, <1>6, <1>7, <1>8, LinedNext

\* The next call in a node, of a layer that lets a value through.
LEMMA LinedShielded ==
  ASSUME NEW a, Closed(a), NEW p \in Seq(LineRec(a)), Lined(a, p), p # <<>>, NEW x \in LineRec(a),
         LayerOf(p[Len(p)]) \in Shielding, p[Len(p)].value \notin Carriers,
         x = [p[Len(p)] EXCEPT !.layer = @ + 1]
  PROVE  Lined(a, Append(Front(p), x))
  <1> DEFINE y == p[Len(p)]
             f == Front(p)
             q == Append(f, x)
  <1>0. /\ Len(p) \in Nat \ {0} /\ y \in LineRec(a)
        /\ f \in Seq(LineRec(a)) /\ Len(f) = Len(p) - 1
        /\ \A i \in 1..Len(f) : f[i] = p[i]
    BY FrontOf, Last(p) = y DEF Last
  <1>1. y.node \in NodesOf(a) /\ y.layer \in Nat \ {0} /\ x.node = y.node /\ x.value = y.value /\ x.layer = y.layer + 1
    BY <1>0 DEF LineRec
  <1>2. y.layer <= Len(y.node.layers) /\ Len(y.node.layers) \in Nat /\ LayerOf(y) = y.node.layers[y.layer]
    BY <1>1, LayerFacts DEF LayerOf, Shielding, Core
  <1>3. Shielded(x)
    BY <1>1 DEF Shielded
  <1>4. ASSUME NEW i \in 1..Len(f) PROVE Descends(a, f[i], x) /\ Passes(f[i], x)
    <2>1. Descends(a, p[i], y) /\ Passes(p[i], y)
      BY <1>0 DEF Lined
    <2>2. p[i] \in LineRec(a) /\ f[i] = p[i]
      BY <1>0
    <2> QED
      BY <1>1, <2>1, <2>2 DEF Descends, Passes, LineRec
  <1>5. ASSUME NEW l \in 1..(x.layer - 1), x.node.layers[l] \notin Shielding
        PROVE  Held(q, Len(f) + 1, l)
    <2>0. /\ \A i \in 1..Len(f) : q[i] = p[i]
          /\ q[Len(f) + 1] = x
      BY <1>0, Appended
    <2> HIDE DEF q
    <2>1. l # y.layer
      BY <1>1, <1>2, <1>5
    <2>2. l \in 1..(y.layer - 1) /\ Held(p, Len(p), l)
      BY <1>0, <1>1, <1>5, <2>1 DEF Lined
    <2>3. PICK i \in 1..(Len(p) - 1) :
            /\ p[i].node = y.node /\ p[i].value = y.value /\ p[i].layer = l
            /\ \A k \in (i + 1)..(Len(p) - 1) : p[k].node = y.node /\ p[k].layer > l /\ p[k].layer < y.layer
      BY <2>2 DEF Held
    <2>4. ASSUME NEW k \in (i + 1)..Len(f)
          PROVE  q[k].node = x.node /\ q[k].layer > l /\ q[k].layer < x.layer
      <3>1. k \in (i + 1)..(Len(p) - 1) /\ k \in 1..Len(f) /\ k \in 1..Len(p)
        BY <1>0
      <3>2. p[k] \in LineRec(a)
        BY <3>1
      <3>3. q[k] = p[k] /\ p[k].layer \in Nat
        BY <1>0, <2>0, <3>1, <3>2, LineType
      <3> QED
        BY <1>1, <2>3, <3>1, <3>3
    <2>5. i \in 1..(Len(f) + 1 - 1) /\ Len(f) + 1 - 1 = Len(f) /\ q[i] = p[i]
      BY <1>0, <2>0
    <2>6. q[i].node = x.node /\ q[i].value = x.value /\ q[i].layer = l
      BY <1>1, <2>3, <2>5
    <2> QED
      BY <2>0, <2>4, <2>5, <2>6 DEF Held
  <1>6. f # <<>> => ~Watching(f[Len(f)])
    <2> SUFFICES ASSUME f # <<>>, Watching(f[Len(f)]) PROVE FALSE
      OBVIOUS
    <2>1. Len(f) \in 1..Len(p) /\ Len(f) < Len(p) /\ f[Len(f)] = p[Len(f)] /\ Len(f) + 1 = Len(p)
      BY <1>0
    <2>2. LayerOf(y) = "choice"
      BY <2>1 DEF Lined
    <2> QED
      BY <2>2 DEF Shielding
  <1>7. Lined(a, f)
    BY LinedFront
  <1>8. \A l \in 1..(x.layer - 1) : x.node.layers[l] \in Shielding \/ Held(Append(f, x), Len(f) + 1, l)
    BY <1>5
  <1>9. x.layer <= Len(x.node.layers) + 1
    BY <1>1, <1>2
  <1>10. Lined(a, Append(f, x))
    <2> HIDE DEF q, f, y
    <2> QED
      BY <1>0, <1>3, <1>4, <1>6, <1>7, <1>8, <1>9, LinedNext
  <1> QED
    BY <1>10

\* A call in place of a node that passes its value on.
LEMMA LinedThrough ==
  ASSUME NEW a, Closed(a), NEW p \in Seq(LineRec(a)), Lined(a, p), p # <<>>, NEW x \in LineRec(a),
         LayerOf(p[Len(p)]) = Core, x.node \in Inner(a, p[Len(p)].node), x.layer = 1,
         x.value = p[Len(p)].value
  PROVE  Lined(a, Append(Front(p), x))
  <1> DEFINE y == p[Len(p)]
             f == Front(p)
  <1>0. /\ Len(p) \in Nat \ {0} /\ y \in LineRec(a)
        /\ f \in Seq(LineRec(a)) /\ Len(f) = Len(p) - 1
        /\ \A i \in 1..Len(f) : f[i] = p[i]
    BY FrontOf, Last(p) = y DEF Last
  <1>1. y.node \in NodesOf(a) /\ x.node \in NodesOf(a) /\ x.layer <= Len(x.node.layers) + 1
    BY <1>0, LayerFacts DEF LineRec
  <1>2. Shielded(x)
    BY DEF Shielded
  <1>3. ASSUME NEW i \in 1..Len(f) PROVE Descends(a, f[i], x) /\ Passes(f[i], x)
    <2>1. Descends(a, p[i], y) /\ Passes(p[i], y)
      BY <1>0 DEF Lined
    <2>2. p[i] \in LineRec(a) /\ f[i] = p[i]
      BY <1>0
    <2> p[i].node \in NodesOf(a)
      BY <2>2, LineType
    <2>3. x.node \in Inner(a, p[i].node)
      BY <2>1, <2>2 DEF Descends, Closed
    <2> QED
      BY <2>1, <2>2, <2>3 DEF Descends, Passes
  <1>4. f # <<>> => ~Watching(f[Len(f)])
    <2> SUFFICES ASSUME f # <<>>, Watching(f[Len(f)]) PROVE FALSE
      OBVIOUS
    <2>1. Len(f) \in 1..Len(p) /\ Len(f) < Len(p) /\ f[Len(f)] = p[Len(f)] /\ Len(f) + 1 = Len(p)
      BY <1>0
    <2>2. LayerOf(y) = "choice"
      BY <2>1 DEF Lined
    <2> QED
      BY <2>2 DEF Core
  <1>5. Lined(a, f)
    BY LinedFront
  <1>6. \A l \in 1..(x.layer - 1) : FALSE
    OBVIOUS
  <1> QED
    BY <1>0, <1>1, <1>2, <1>3, <1>4, <1>5, <1>6, LinedNext

\* A call of what a node holds.
LEMMA LinedInner ==
  ASSUME NEW a, Closed(a), NEW p \in Seq(LineRec(a)), Lined(a, p), p # <<>>, NEW x \in LineRec(a),
         x.node \in Inner(a, p[Len(p)].node), x.layer = 1, Passes(p[Len(p)], x),
         x.value = "set" => p[Len(p)].value = "set",
         Watching(p[Len(p)]) => LayerOf(x) = "choice"
  PROVE  Lined(a, Append(p, x))
  <1> DEFINE y == p[Len(p)]
  <1>0. Len(p) \in Nat \ {0} /\ y \in LineRec(a)
    BY FrontOf, Last(p) = y DEF Last
  <1>1. y.node \in NodesOf(a) /\ x.node \in NodesOf(a) /\ x.layer <= Len(x.node.layers) + 1
    BY <1>0, LayerFacts DEF LineRec
  <1>2. Shielded(x)
    BY DEF Shielded
  <1>3. ASSUME NEW i \in 1..Len(p) PROVE Descends(a, p[i], x) /\ Passes(p[i], x)
    <2>1. CASE i = Len(p)
      BY <2>1 DEF Descends
    <2>2. CASE i # Len(p)
      <3>1. Descends(a, p[i], y) /\ Passes(p[i], y)
        BY <1>0, <2>2 DEF Lined
      <3>2. p[i].node \in NodesOf(a)
        BY LineType
      <3>3. x.node \in Inner(a, p[i].node)
        BY <3>1, <3>2 DEF Descends, Closed
      <3> QED
        BY <3>1, <3>2, <3>3 DEF Descends, Passes
    <2> QED
      BY <2>1, <2>2
  <1>4. \A l \in 1..(x.layer - 1) : FALSE
    OBVIOUS
  <1> QED
    BY <1>0, <1>1, <1>2, <1>3, <1>4, LinedNext

-----------------------------------------------------------------------------
(* Which of the calls of a layer a call is. *)

Rank(c, layer, i) == Cardinality({j \in 1..i : LayerOf(c[j]) = layer})

\* Ranks are natural numbers that do not decrease.
LEMMA RankMono ==
  ASSUME NEW c, NEW layer, NEW i \in Nat, NEW k \in Nat, i <= k
  PROVE  Rank(c, layer, i) \in Nat /\ Rank(c, layer, i) <= Rank(c, layer, k)
  <1> DEFINE A == {j \in 1..i : LayerOf(c[j]) = layer}
             B == {j \in 1..k : LayerOf(c[j]) = layer}
  <1>1. IsFiniteSet(1..k)
    BY FS_Interval
  <1>2. IsFiniteSet(B)
    BY <1>1, FS_Subset, B \subseteq 1..k
  <1>3. A \subseteq B
    OBVIOUS
  <1>4. IsFiniteSet(A) /\ Cardinality(A) <= Cardinality(B)
    BY <1>2, <1>3, FS_Subset
  <1>5. Cardinality(A) \in Nat
    BY <1>4, FS_CardinalityType
  <1> QED
    BY <1>4, <1>5 DEF Rank

\* A call of the layer has the next rank, and any other call that of the one before.
LEMMA RankNext ==
  ASSUME NEW c, NEW layer, NEW i \in Nat \ {0}
  PROVE  Rank(c, layer, i) = IF LayerOf(c[i]) = layer THEN Rank(c, layer, i - 1) + 1 ELSE Rank(c, layer, i - 1)
  <1> DEFINE A == {j \in 1..(i - 1) : LayerOf(c[j]) = layer}
             B == {j \in 1..i : LayerOf(c[j]) = layer}
  <1>1. IsFiniteSet(1..(i - 1))
    BY FS_Interval
  <1>2. IsFiniteSet(A)
    BY <1>1, FS_Subset, A \subseteq 1..(i - 1)
  <1>3. CASE LayerOf(c[i]) = layer
    <2>1. B = A \cup {i}
      BY <1>3, \A j \in 1..i : j \in 1..(i - 1) \/ j = i
    <2>2. i \notin A
      OBVIOUS
    <2> HIDE DEF A, B
    <2>3. Cardinality(B) = Cardinality(A) + 1
      BY <1>2, <2>1, <2>2, FS_AddElement
    <2> QED
      BY <1>3, <2>3 DEF A, B, Rank
  <1>4. CASE LayerOf(c[i]) # layer
    <2>1. B = A
      BY <1>4, \A j \in 1..i : j \in 1..(i - 1) \/ j = i
    <2> QED
      BY <1>4, <2>1 DEF Rank
  <1> QED
    BY <1>3, <1>4

\* There is no rank before the first call.
LEMMA RankZero ==
  ASSUME NEW c, NEW layer
  PROVE  Rank(c, layer, 0) = 0
  <1>1. {j \in 1..0 : LayerOf(c[j]) = layer} = {}
    OBVIOUS
  <1> QED
    BY <1>1, FS_EmptySet DEF Rank

\* A call of the layer has a higher rank than those before it.
LEMMA RankBelow ==
  ASSUME NEW c, NEW layer, NEW i \in Nat, NEW k \in Nat, i < k, LayerOf(c[k]) = layer
  PROVE  Rank(c, layer, i) < Rank(c, layer, k)
  <1>1. k \in Nat \ {0} /\ k - 1 \in Nat /\ i <= k - 1
    OBVIOUS
  <1>2. Rank(c, layer, k) = Rank(c, layer, k - 1) + 1
    BY <1>1, RankNext
  <1>3. Rank(c, layer, i) \in Nat /\ Rank(c, layer, i) <= Rank(c, layer, k - 1)
    BY <1>1, RankMono
  <1>4. Rank(c, layer, k - 1) \in Nat
    BY <1>1, RankMono
  <1> QED
    BY <1>2, <1>3, <1>4

\* Calls that are equal up to a place have the same ranks there.
LEMMA RankSame ==
  ASSUME NEW c, NEW d, NEW layer, NEW i, \A j \in 1..i : LayerOf(c[j]) = LayerOf(d[j])
  PROVE  Rank(c, layer, i) = Rank(d, layer, i)
  <1>1. {j \in 1..i : LayerOf(c[j]) = layer} = {j \in 1..i : LayerOf(d[j]) = layer}
    OBVIOUS
  <1> QED
    BY <1>1 DEF Rank

-----------------------------------------------------------------------------
(* The calls that run, with the one that is to be done, as a line. *)

Lines(c) == [i \in 1..Len(c) |-> Line(c[i])]
PathOf(c, t) == IF t.task = "call" THEN Append(Lines(c), Line(t)) ELSE Lines(c)
Path == PathOf(calls, control)
ControlRec(a) == TaskRec(a) \cup ValueRec \cup ErrorRec \cup {Nothing}

\* Lines are sequences of the parts of calls that a line is about.
LEMMA LinesType ==
  ASSUME NEW a, NEW c \in Seq(CallRec(a))
  PROVE  /\ Lines(c) \in Seq(LineRec(a)) /\ Len(Lines(c)) = Len(c) /\ Len(c) \in Nat
         /\ \A i \in 1..Len(c) :
              /\ Lines(c)[i].node = c[i].node /\ Lines(c)[i].layer = c[i].layer /\ Lines(c)[i].value = c[i].value
              /\ LayerOf(Lines(c)[i]) = LayerOf(c[i])
              /\ \A types : IsCore(Lines(c)[i], types) <=> IsCore(c[i], types)
  <1>1. ASSUME NEW i \in 1..Len(c) PROVE Line(c[i]) \in LineRec(a)
    <2>1. c[i] \in CallRec(a)
      OBVIOUS
    <2>2. c[i].node \in NodesOf(a) /\ c[i].layer \in Nat \ {0} /\ c[i].value \in Arguments
      BY <2>1 DEF CallRec
    <2> QED
      BY <2>2 DEF LineRec, Line
  <1>2. Len(c) \in Nat
    OBVIOUS
  <1>3. Lines(c) \in Seq(LineRec(a)) /\ Len(Lines(c)) = Len(c)
    BY <1>1, <1>2 DEF Lines
  <1>4. \A i \in 1..Len(c) : Lines(c)[i] = [node |-> c[i].node, layer |-> c[i].layer, value |-> c[i].value]
    BY DEF Lines, Line
  <1>5. \A i \in 1..Len(c) :
              /\ Lines(c)[i].node = c[i].node /\ Lines(c)[i].layer = c[i].layer /\ Lines(c)[i].value = c[i].value
    <2> TAKE i \in 1..Len(c)
    <2>1. Lines(c)[i] = [node |-> c[i].node, layer |-> c[i].layer, value |-> c[i].value]
      BY <1>4
    <2> QED
      BY <2>1
  <1> QED
    BY <1>2, <1>3, <1>5 DEF LayerOf, IsCore

\* The line of a call.
LEMMA LineFacts ==
  ASSUME NEW a, NEW t, t \in CallRec(a) \/ t \in TaskRec(a)
  PROVE  /\ Line(t) \in LineRec(a)
         /\ Line(t).node = t.node /\ Line(t).layer = t.layer /\ Line(t).value = t.value
         /\ LayerOf(Line(t)) = LayerOf(t)
         /\ \A types : IsCore(Line(t), types) <=> IsCore(t, types)
  <1>1. t.node \in NodesOf(a) /\ t.layer \in Nat \ {0} /\ t.value \in Arguments
    BY DEF CallRec, TaskRec
  <1>2. Line(t) = [node |-> t.node, layer |-> t.layer, value |-> t.value]
    BY DEF Line
  <1> QED
    BY <1>1, <1>2 DEF LineRec, LayerOf, IsCore

\* A path is a line, of the calls and the one to be done.
LEMMA PathType ==
  ASSUME NEW a, NEW c \in Seq(CallRec(a)), NEW t \in ControlRec(a)
  PROVE  /\ PathOf(c, t) \in Seq(LineRec(a))
         /\ t.task = "call" => t \in TaskRec(a) /\ PathOf(c, t) # <<>> /\ Len(PathOf(c, t)) = Len(c) + 1
                               /\ PathOf(c, t)[Len(c) + 1] = Line(t) /\ Front(PathOf(c, t)) = Lines(c)
         /\ t.task # "call" => PathOf(c, t) = Lines(c) /\ Len(PathOf(c, t)) = Len(c)
         /\ \A i \in 1..Len(c) : PathOf(c, t)[i] = Lines(c)[i]
  <1>0. Lines(c) \in Seq(LineRec(a)) /\ Len(Lines(c)) = Len(c) /\ Len(c) \in Nat
    BY LinesType
  <1>1. t.task = "call" => t \in TaskRec(a)
    BY DEF ControlRec, ValueRec, ErrorRec, Nothing
  <1>2. CASE t.task = "call"
    <2>1. Line(t) \in LineRec(a)
      BY <1>1, <1>2, LineFacts
    <2>2. PathOf(c, t) = Append(Lines(c), Line(t))
      BY <1>2 DEF PathOf
    <2> HIDE DEF PathOf, Lines, Line, LineRec
    <2>3. Front(Append(Lines(c), Line(t))) = Lines(c)
      BY <1>0, <2>1 DEF Front
    <2> QED
      BY <1>0, <1>1, <1>2, <2>1, <2>2, <2>3, Appended
  <1>3. CASE t.task # "call"
    BY <1>0, <1>3 DEF PathOf
  <1> QED
    BY <1>2, <1>3

\* The path when a call is made, in place of another or in it, and when one ends.
LEMMA PathDown ==
  ASSUME NEW a, NEW c \in Seq(CallRec(a)), NEW t \in TaskRec(a), NEW d \in Seq(CallRec(a)), NEW u \in ControlRec(a)
  PROVE  /\ d = c /\ u.task = "call" => PathOf(d, u) = Append(Front(PathOf(c, t)), Line(u))
         /\ d = c /\ u.task # "call" => PathOf(d, u) = Front(PathOf(c, t))
         /\ \A e \in CallRec(a) : d = Append(c, e) /\ Line(e) = Line(t) /\ u.task = "call" =>
              PathOf(d, u) = Append(PathOf(c, t), Line(u))
  <1>1. t.task = "call" /\ t \in ControlRec(a)
    BY DEF TaskRec, ControlRec
  <1>2. PathOf(c, t) = Append(Lines(c), Line(t)) /\ Front(PathOf(c, t)) = Lines(c)
    BY <1>1, PathType DEF PathOf
  <1>3. d = c /\ u.task = "call" => PathOf(d, u) = Append(Front(PathOf(c, t)), Line(u))
    BY <1>2 DEF PathOf
  <1>4. d = c /\ u.task # "call" => PathOf(d, u) = Front(PathOf(c, t))
    BY <1>2 DEF PathOf
  <1>5. ASSUME NEW e \in CallRec(a), d = Append(c, e), Line(e) = Line(t), u.task = "call"
        PROVE  PathOf(d, u) = Append(PathOf(c, t), Line(u))
    <2>1. /\ Len(d) = Len(c) + 1 /\ Len(c) \in Nat
          /\ \A i \in 1..Len(c) : d[i] = c[i]
          /\ d[Len(c) + 1] = e
      BY <1>5, Appended
    <2>2. Lines(c) \in Seq(LineRec(a)) /\ Len(Lines(c)) = Len(c) /\ Line(t) \in LineRec(a)
      BY LinesType, LineFacts
    <2>3. Lines(d) \in Seq(LineRec(a)) /\ Len(Lines(d)) = Len(c) + 1
      BY <2>1, LinesType
    <2>4. \A i \in 1..(Len(c) + 1) : Lines(d)[i] = Line(d[i])
      BY <2>1 DEF Lines
    <2>5. \A i \in 1..Len(c) : Lines(c)[i] = Line(c[i])
      BY DEF Lines
    <2>6. \A i \in 1..(Len(c) + 1) : Lines(d)[i] = Append(Lines(c), Line(t))[i]
      <3> TAKE i \in 1..(Len(c) + 1)
      <3>1. CASE i = Len(c) + 1
        BY <1>5, <2>1, <2>2, <2>4, <3>1, Appended
      <3>2. CASE i # Len(c) + 1
        BY <2>1, <2>2, <2>4, <2>5, <3>2, i \in 1..Len(c), Appended
      <3> QED
        BY <3>1, <3>2
    <2>7. Append(Lines(c), Line(t)) \in Seq(LineRec(a)) /\ Len(Append(Lines(c), Line(t))) = Len(c) + 1
      BY <2>2, Appended
    <2> HIDE DEF Lines, Line, LineRec
    <2>8. Lines(d) = Append(Lines(c), Line(t))
      BY <2>1, <2>3, <2>6, <2>7
    <2> QED
      BY <1>2, <1>5, <2>8 DEF PathOf
  <1> QED
    BY <1>3, <1>4, <1>5

\* The path when a call returns, and when another call is made where one returned.
LEMMA PathUp ==
  ASSUME NEW a, NEW c \in Seq(CallRec(a)), NEW t \in ControlRec(a), t.task # "call", c # <<>>,
         NEW d \in Seq(CallRec(a)), NEW u \in ControlRec(a)
  PROVE  /\ d = Front(c) /\ u.task # "call" => PathOf(d, u) = Front(PathOf(c, t)) /\ PathOf(c, t) # <<>>
         /\ Len(d) = Len(c) /\ (\A i \in 1..Len(c) : Line(d[i]) = Line(c[i])) /\ u.task = "call" =>
              PathOf(d, u) = Append(PathOf(c, t), Line(u))
  <1>1. PathOf(c, t) = Lines(c)
    BY DEF PathOf
  <1>2. Lines(c) \in Seq(LineRec(a)) /\ Len(Lines(c)) = Len(c) /\ Len(c) \in Nat \ {0}
    BY LinesType
  <1>3. ASSUME d = Front(c), u.task # "call" PROVE PathOf(d, u) = Front(PathOf(c, t)) /\ PathOf(c, t) # <<>>
    <2>1. Len(d) = Len(c) - 1 /\ \A i \in 1..(Len(c) - 1) : d[i] = c[i]
      BY <1>3, FrontOf
    <2>2. Lines(d) \in Seq(LineRec(a)) /\ Len(Lines(d)) = Len(c) - 1
      BY <2>1, LinesType
    <2>3. \A i \in 1..(Len(c) - 1) : Lines(d)[i] = Lines(c)[i]
      BY <1>2, <2>1 DEF Lines
    <2>4. Lines(c) # <<>>
      BY <1>2
    <2> HIDE DEF Lines, LineRec
    <2>5. Front(Lines(c)) \in Seq(LineRec(a)) /\ Len(Front(Lines(c))) = Len(c) - 1 /\ \A i \in 1..(Len(c) - 1) : Front(Lines(c))[i] = Lines(c)[i]
      BY <1>2, <2>4, FrontOf
    <2>6. Lines(d) = Front(Lines(c))
      BY <2>2, <2>3, <2>5
    <2> QED
      BY <1>1, <1>3, <2>4, <2>6 DEF PathOf
  <1>4. ASSUME Len(d) = Len(c), \A i \in 1..Len(c) : Line(d[i]) = Line(c[i]), u.task = "call"
        PROVE  PathOf(d, u) = Append(PathOf(c, t), Line(u))
    <2>1. Lines(d) = Lines(c)
      BY <1>4 DEF Lines
    <2> QED
      BY <1>1, <1>4, <2>1 DEF PathOf
  <1> QED
    BY <1>3, <1>4

-----------------------------------------------------------------------------
(* What is always so. *)

Outcomes == {"running", "delivered", "migration_error", "invalid", "raised", "unsupported"}
Sorted ==
  /\ calls \in Seq(CallRec(adapted))
  /\ control \in ControlRec(adapted)
  /\ unions \in Seq(UnionRec) /\ choices \in Seq(ChoiceRec) /\ apps \in Seq(BOOLEAN)
  /\ recognised \in BOOLEAN /\ outcome \in Outcomes
  /\ outcome = "running" => control.task \in {"call", "value", "error"}
  /\ outcome # "running" => calls = <<>> /\ control.task # "call"
  /\ outcome = "delivered" => control.task = "value"

Known ==
  /\ input \in Inputs
  /\ outcome = "unsupported" \/ \E s \in Schemas : adapted = AdaptationOf(s, input = "set") /\ ~adapted.refused

\* Only what has members is validated as a set, and those before the current one are done.
Counted(c) == IsCore(c, {"set"}) => c.value \in {"set", "smaller"} /\ Len(c.done) + 1 = c.at
Called == \A i \in 1..Len(calls) : Counted(calls[i])

Framed ==
  /\ Len(unions) = Rank(calls, "union", Len(calls))
  /\ Len(choices) = Rank(calls, "choice", Len(calls))
  /\ Len(apps) = Rank(calls, "record", Len(calls))

BaseInv == Sorted /\ Known /\ Called /\ Framed /\ Lined(adapted, Path)

\* What is known of a schema that is used.
LEMMA SchemaFacts ==
  ASSUME Known, outcome # "unsupported"
  PROVE  Closed(adapted) /\ Placed(adapted) /\ (input = "set" => Guards(adapted))
  <1>1. PICK s \in Schemas : adapted = AdaptationOf(s, input = "set") /\ ~adapted.refused
    BY DEF Known
  <1>2. (input = "set") \in BOOLEAN
    OBVIOUS
  <1>3. \A guard \in BOOLEAN : guard = (input = "set") => AdaptationOf(s, guard) = adapted
    BY <1>1
  <1> QED
    BY <1>1, <1>2, AdaptationAssumption

\* What is known when a call is to be done.
LEMMA CallFacts ==
  ASSUME BaseInv, outcome = "running", control.task = "call"
  PROVE  /\ Closed(adapted) /\ Placed(adapted) /\ (input = "set" => Guards(adapted))
         /\ control \in TaskRec(adapted) /\ calls \in Seq(CallRec(adapted)) /\ Len(calls) \in Nat
         /\ control.node \in NodesOf(adapted) /\ control.layer \in Nat \ {0} /\ control.value \in Arguments
         /\ Path \in Seq(LineRec(adapted)) /\ Path # <<>> /\ Len(Path) = Len(calls) + 1
         /\ Path[Len(Path)] = Line(control) /\ Lined(adapted, Path)
         /\ Line(control).node = control.node /\ Line(control).layer = control.layer
         /\ Line(control).value = control.value /\ LayerOf(Line(control)) = Layer
         /\ \A i \in 1..Len(calls) : Path[i] = Lines(calls)[i]
  <1>1. calls \in Seq(CallRec(adapted)) /\ control \in ControlRec(adapted)
    BY DEF BaseInv, Sorted
  <1>2. control \in TaskRec(adapted)
    BY <1>1, PathType
  <1>3. Len(calls) \in Nat
    BY <1>1
  <1>4. control.node \in NodesOf(adapted) /\ control.layer \in Nat \ {0} /\ control.value \in Arguments
    BY <1>2 DEF TaskRec
  <1>5. LayerOf(control) = Layer
    BY DEF LayerOf, Layer, node
  <1>6. Closed(adapted) /\ Placed(adapted) /\ (input = "set" => Guards(adapted))
    BY SchemaFacts DEF BaseInv
  <1> QED
    BY <1>1, <1>2, <1>3, <1>4, <1>5, <1>6, PathType, LineFacts DEF Path, BaseInv

\* The call that is remembered.
LEMMA CallType ==
  ASSUME BaseInv, outcome = "running", control.task = "call", NEW k \in Nat
  PROVE  /\ Call(k) \in CallRec(adapted) /\ Line(Call(k)) = Line(control) /\ LayerOf(Call(k)) = Layer
         /\ Call(k).node = control.node /\ Call(k).layer = control.layer /\ Call(k).value = control.value
         /\ Call(k).done = <<>> /\ Call(k).lost = FALSE /\ Call(k).kind = "validation"
  <1>1. control.node \in NodesOf(adapted) /\ control.layer \in Nat \ {0} /\ control.value \in Arguments
    BY CallFacts
  <1>2. <<>> \in Seq(ValueRec)
    OBVIOUS
  <1> QED
    BY <1>1, <1>2 DEF Call, CallRec, Line, LayerOf, Layer, node, Kinds

\* What is known when a call returns.
LEMMA ReturnFacts ==
  ASSUME BaseInv, Returning
  PROVE  /\ Closed(adapted) /\ Placed(adapted) /\ (input = "set" => Guards(adapted))
         /\ calls \in Seq(CallRec(adapted)) /\ calls # <<>> /\ Len(calls) \in Nat \ {0}
         /\ Top = calls[Len(calls)] /\ Top \in CallRec(adapted)
         /\ Top.node \in NodesOf(adapted) /\ Top.layer \in Nat \ {0} /\ Top.value \in Arguments
         /\ Top.done \in Seq(ValueRec) /\ Top.kind \in Kinds /\ Top.lost \in BOOLEAN /\ Top.at \in Nat
         /\ Front(calls) \in Seq(CallRec(adapted)) /\ Len(Front(calls)) = Len(calls) - 1
         /\ \A i \in 1..(Len(calls) - 1) : Front(calls)[i] = calls[i]
         /\ control \in ControlRec(adapted)
         /\ IsError => control \in ErrorRec
         /\ ~IsError => control \in ValueRec
         /\ control.task # "call" /\ Path = Lines(calls) /\ Lined(adapted, Path)
         /\ LayerOf(Top) = LayerAt(Top.node, Top.layer)
  <1>1. calls \in Seq(CallRec(adapted)) /\ control \in ControlRec(adapted) /\ calls # <<>>
    BY DEF BaseInv, Sorted, Returning
  <1>2. Top = calls[Len(calls)] /\ Top \in CallRec(adapted) /\ Len(calls) \in Nat \ {0}
    BY <1>1, FrontOf DEF Top
  <1>3. Front(calls) \in Seq(CallRec(adapted)) /\ Len(Front(calls)) = Len(calls) - 1 /\ \A i \in 1..(Len(calls) - 1) : Front(calls)[i] = calls[i]
    BY <1>1, FrontOf
  <1>4. control.task \in {"value", "error"}
    BY DEF Returning
  <1>5. (IsError => control \in ErrorRec) /\ (~IsError => control \in ValueRec)
    BY <1>1, <1>4 DEF ControlRec, TaskRec, ValueRec, ErrorRec, Nothing, IsError
  <1>6. Closed(adapted) /\ Placed(adapted) /\ (input = "set" => Guards(adapted))
    BY SchemaFacts DEF BaseInv, Returning
  <1>7. Path = Lines(calls)
    BY <1>4 DEF Path, PathOf
  <1>8. /\ Top.node \in NodesOf(adapted) /\ Top.layer \in Nat \ {0} /\ Top.value \in Arguments
        /\ Top.done \in Seq(ValueRec) /\ Top.kind \in Kinds /\ Top.lost \in BOOLEAN /\ Top.at \in Nat
    BY <1>2 DEF CallRec
  <1> QED
    BY <1>1, <1>2, <1>3, <1>4, <1>5, <1>6, <1>7, <1>8 DEF BaseInv, LayerOf

\* There is one call of its layer more when a call is added.
LEMMA RankPushed ==
  ASSUME NEW a, NEW c \in Seq(CallRec(a)), NEW e \in CallRec(a), NEW layer
  PROVE  Rank(Append(c, e), layer, Len(Append(c, e))) = Rank(c, layer, Len(c)) + (IF LayerOf(e) = layer THEN 1 ELSE 0)
  <1> DEFINE d == Append(c, e)
  <1>1. Len(d) = Len(c) + 1 /\ Len(c) \in Nat /\ (\A i \in 1..Len(c) : d[i] = c[i]) /\ d[Len(c) + 1] = e
    BY Appended
  <1> HIDE DEF d
  <1>2. Rank(c, layer, Len(c)) = Rank(d, layer, Len(c))
    BY <1>1, RankSame
  <1>3. Rank(c, layer, Len(c)) \in Nat
    BY <1>1, RankMono
  <1>4. Rank(d, layer, Len(c) + 1) = IF LayerOf(d[Len(c) + 1]) = layer THEN Rank(d, layer, Len(c) + 1 - 1) + 1 ELSE Rank(d, layer, Len(c) + 1 - 1)
    BY <1>1, RankNext
  <1>5. Len(c) + 1 - 1 = Len(c)
    BY <1>1
  <1>6. Rank(d, layer, Len(d)) = Rank(c, layer, Len(c)) + (IF LayerOf(e) = layer THEN 1 ELSE 0)
    BY <1>1, <1>2, <1>3, <1>4, <1>5
  <1> QED
    BY <1>6 DEF d

\* And one less when it is taken.
LEMMA RankPopped ==
  ASSUME NEW a, NEW c \in Seq(CallRec(a)), c # <<>>, NEW layer
  PROVE  /\ Rank(Front(c), layer, Len(Front(c))) = Rank(c, layer, Len(c)) - (IF LayerOf(Last(c)) = layer THEN 1 ELSE 0)
         /\ \A i \in 1..(Len(c) - 1) : Rank(Front(c), layer, i) = Rank(c, layer, i)
         /\ Rank(c, layer, Len(c)) \in Nat
         /\ Rank(Front(c), layer, Len(Front(c))) \in Nat
  <1> DEFINE d == Front(c)
  <1>1. Len(d) = Len(c) - 1 /\ Len(c) \in Nat \ {0} /\ (\A i \in 1..(Len(c) - 1) : d[i] = c[i]) /\ Last(c) = c[Len(c)]
    BY FrontOf
  <1> HIDE DEF d
  <1>2. ASSUME NEW i \in Nat, i <= Len(c) - 1 PROVE Rank(d, layer, i) = Rank(c, layer, i)
    BY <1>1, <1>2, RankSame, \A j \in 1..i : j \in 1..(Len(c) - 1)
  <1>3. Rank(c, layer, Len(c) - 1) \in Nat
    BY <1>1, RankMono
  <1>4. Rank(c, layer, Len(c)) = IF LayerOf(c[Len(c)]) = layer THEN Rank(c, layer, Len(c) - 1) + 1 ELSE Rank(c, layer, Len(c) - 1)
    BY <1>1, RankNext
  <1>5. Rank(d, layer, Len(d)) = Rank(c, layer, Len(c)) - (IF LayerOf(Last(c)) = layer THEN 1 ELSE 0)
    BY <1>1, <1>2, <1>3, <1>4
  <1>6. Rank(c, layer, Len(c)) \in Nat /\ Rank(d, layer, Len(d)) \in Nat
    BY <1>1, RankMono
  <1> QED
    BY <1>1, <1>2, <1>5, <1>6 DEF d

-----------------------------------------------------------------------------
(* The shapes of steps. *)

\* A call that is made, and remembered while what it calls runs.
LEMMA Deeper ==
  ASSUME BaseInv, outcome = "running", control.task = "call", NEW k \in Nat,
         calls' = Append(calls, Call(k)), adapted' = adapted, control' \in TaskRec(adapted),
         IsCore(control, {"set"}) => control.value \in {"set", "smaller"} /\ k = 1
  PROVE  /\ calls' \in Seq(CallRec(adapted)) /\ Len(calls') = Len(calls) + 1
         /\ \A i \in 1..Len(calls) : calls'[i] = calls[i] /\ \A layer : Rank(calls', layer, i) = Rank(calls, layer, i)
         /\ calls'[Len(calls) + 1] = Call(k)
         /\ Called'
         /\ \A layer : Rank(calls', layer, Len(calls')) = Rank(calls, layer, Len(calls)) + (IF Layer = layer THEN 1 ELSE 0)
         /\ Path' = Append(Path, Line(control'))
  <1>1. /\ Call(k) \in CallRec(adapted) /\ Line(Call(k)) = Line(control) /\ LayerOf(Call(k)) = Layer
        /\ Call(k).node = control.node /\ Call(k).layer = control.layer /\ Call(k).value = control.value
    BY CallType
  <1>2. calls \in Seq(CallRec(adapted)) /\ control \in TaskRec(adapted) /\ Len(calls) \in Nat
    BY CallFacts
  <1>3. /\ calls' \in Seq(CallRec(adapted)) /\ Len(calls') = Len(calls) + 1
        /\ \A i \in 1..Len(calls) : calls'[i] = calls[i]
        /\ calls'[Len(calls) + 1] = Call(k)
    BY <1>1, <1>2, Appended
  <1>4. ASSUME NEW i \in 1..Len(calls), NEW layer PROVE Rank(calls', layer, i) = Rank(calls, layer, i)
    <2>1. \A j \in 1..i : j \in 1..Len(calls)
      BY <1>2
    <2>2. \A j \in 1..i : LayerOf(calls'[j]) = LayerOf(calls[j])
      BY <1>3, <2>1
    <2>3. {j \in 1..i : LayerOf(calls'[j]) = layer} = {j \in 1..i : LayerOf(calls[j]) = layer}
      BY <2>2
    <2> QED
      BY <2>3 DEF Rank
  <1>5. Called'
    <2>1. Counted(Call(k))
      <3>1. Call(k).at = k /\ Call(k).done = <<>> /\ Len(<<>>) = 0
        BY DEF Call
      <3> QED
        BY <1>1, <3>1 DEF Counted, IsCore, LayerOf
    <2>2. \A i \in 1..Len(calls') : Counted(calls'[i])
      <3> TAKE i \in 1..Len(calls')
      <3>1. CASE i = Len(calls) + 1
        BY <1>3, <2>1, <3>1
      <3>2. CASE i # Len(calls) + 1
        BY <1>2, <1>3, <3>2, i \in 1..Len(calls) DEF BaseInv, Called
      <3> QED
        BY <3>1, <3>2
    <2> QED
      BY <2>2 DEF Called
  <1>6. \A layer : Rank(calls', layer, Len(calls')) = Rank(calls, layer, Len(calls)) + (IF Layer = layer THEN 1 ELSE 0)
    BY <1>1, <1>2, RankPushed
  <1>7. Path' = Append(Path, Line(control'))
    <2>1. control' \in ControlRec(adapted) /\ control'.task = "call"
      BY DEF ControlRec, TaskRec
    <2>2. PathOf(calls', control') = Append(PathOf(calls, control), Line(control'))
      BY <1>1, <1>2, <1>3, <2>1, PathDown
    <2> QED
      BY <2>2 DEF Path
  <1> QED
    BY <1>3, <1>4, <1>5, <1>6, <1>7

\* A call in place of which another is made, or that gives a value or an error.
LEMMA Replaced ==
  ASSUME BaseInv, outcome = "running", control.task = "call",
         calls' = calls, adapted' = adapted, control' \in ControlRec(adapted)
  PROVE  /\ Called'
         /\ control'.task = "call" => Path' = Append(Front(Path), Line(control'))
         /\ control'.task # "call" => Path' = Front(Path)
  <1>1. calls \in Seq(CallRec(adapted)) /\ control \in TaskRec(adapted) /\ Len(calls) \in Nat
    BY CallFacts
  <1>2. Called'
    BY DEF BaseInv, Called
  <1>3. PathOf(calls', control') = Path'
    BY DEF Path
  <1> QED
    BY <1>1, <1>2, <1>3, PathDown DEF Path

\* A call that returns.
LEMMA Returned ==
  ASSUME BaseInv, Returning, calls' = Front(calls), adapted' = adapted, control' \in ControlRec(adapted), control'.task # "call"
  PROVE  /\ calls' \in Seq(CallRec(adapted)) /\ Len(calls') = Len(calls) - 1
         /\ \A i \in 1..(Len(calls) - 1) : calls'[i] = calls[i] /\ \A layer : Rank(calls', layer, i) = Rank(calls, layer, i)
         /\ Called'
         /\ \A layer : Rank(calls', layer, Len(calls')) = Rank(calls, layer, Len(calls)) - (IF LayerOf(Top) = layer THEN 1 ELSE 0)
         /\ \A layer : Rank(calls, layer, Len(calls)) \in Nat
         /\ Path' = Front(Path) /\ Path # <<>>
  <1>1. /\ calls \in Seq(CallRec(adapted)) /\ calls # <<>> /\ Len(calls) \in Nat \ {0}
        /\ control \in ControlRec(adapted) /\ control.task # "call"
    BY ReturnFacts
  <1>2. /\ calls' \in Seq(CallRec(adapted)) /\ Len(calls') = Len(calls) - 1
        /\ \A i \in 1..(Len(calls) - 1) : calls'[i] = calls[i]
    BY <1>1, FrontOf
  <1>3. Called'
    <2>1. \A i \in 1..(Len(calls) - 1) : i \in 1..Len(calls)
      BY <1>1
    <2> QED
      BY <1>1, <1>2, <2>1 DEF BaseInv, Called
  <1>4. PathOf(calls', control') = Front(PathOf(calls, control)) /\ PathOf(calls, control) # <<>>
    BY <1>1, <1>2, PathUp
  <1>5. Path' = Front(Path) /\ Path # <<>>
    BY <1>4 DEF Path
  <1> QED
    BY <1>1, <1>2, <1>3, <1>5, RankPopped DEF Top

\* A call that returns where another is made.
LEMMA Repeated ==
  ASSUME BaseInv, Returning, NEW e \in CallRec(adapted), Line(e) = Line(Top), Counted(e),
         calls' = [calls EXCEPT ![Len(calls)] = e], adapted' = adapted, control' \in TaskRec(adapted)
  PROVE  /\ calls' \in Seq(CallRec(adapted)) /\ Len(calls') = Len(calls)
         /\ \A i \in 1..(Len(calls) - 1) : calls'[i] = calls[i]
         /\ calls'[Len(calls)] = e
         /\ \A i \in 1..Len(calls) :
              /\ calls'[i].node = calls[i].node /\ calls'[i].value = calls[i].value
              /\ LayerOf(calls'[i]) = LayerOf(calls[i]) /\ \A types : IsCore(calls'[i], types) <=> IsCore(calls[i], types)
              /\ \A layer : Rank(calls', layer, i) = Rank(calls, layer, i)
         /\ Called'
         /\ Path' = Append(Path, Line(control'))
  <1>1. /\ calls \in Seq(CallRec(adapted)) /\ calls # <<>> /\ Len(calls) \in Nat \ {0}
        /\ control \in ControlRec(adapted) /\ control.task # "call"
        /\ Top = calls[Len(calls)] /\ Top \in CallRec(adapted)
    BY ReturnFacts
  <1>2. /\ calls' \in Seq(CallRec(adapted)) /\ Len(calls') = Len(calls)
        /\ \A i \in 1..(Len(calls) - 1) : calls'[i] = calls[i]
        /\ calls'[Len(calls)] = e
    BY <1>1
  <1>3. \A i \in 1..Len(calls) : Line(calls'[i]) = Line(calls[i])
    <2> TAKE i \in 1..Len(calls)
    <2>1. CASE i = Len(calls)
      BY <1>1, <1>2, <2>1
    <2>2. CASE i # Len(calls)
      BY <1>1, <1>2, <2>2, i \in 1..(Len(calls) - 1)
    <2> QED
      BY <2>1, <2>2
  <1>4. \A i \in 1..Len(calls) :
          /\ calls'[i].node = calls[i].node /\ calls'[i].value = calls[i].value
          /\ LayerOf(calls'[i]) = LayerOf(calls[i]) /\ \A types : IsCore(calls'[i], types) <=> IsCore(calls[i], types)
    <2> TAKE i \in 1..Len(calls)
    <2>1. calls[i] \in CallRec(adapted) /\ calls'[i] \in CallRec(adapted)
      BY <1>1, <1>2
    <2> QED
      BY <1>3, <2>1, LineFacts
  <1>5. ASSUME NEW i \in 1..Len(calls), NEW layer PROVE Rank(calls', layer, i) = Rank(calls, layer, i)
    <2>1. \A j \in 1..i : j \in 1..Len(calls)
      BY <1>1
    <2>2. \A j \in 1..i : LayerOf(calls'[j]) = LayerOf(calls[j])
      BY <1>4, <2>1
    <2>3. {j \in 1..i : LayerOf(calls'[j]) = layer} = {j \in 1..i : LayerOf(calls[j]) = layer}
      BY <2>2
    <2> QED
      BY <2>3 DEF Rank
  <1>6. Called'
    <2>1. \A i \in 1..Len(calls') : i = Len(calls) \/ i \in 1..(Len(calls) - 1)
      BY <1>1, <1>2
    <2>2. \A i \in 1..(Len(calls) - 1) : i \in 1..Len(calls)
      BY <1>1
    <2> QED
      BY <1>2, <2>1, <2>2 DEF BaseInv, Called
  <1>7. control' \in ControlRec(adapted) /\ control'.task = "call"
    BY DEF ControlRec, TaskRec
  <1>8. PathOf(calls', control') = Append(PathOf(calls, control), Line(control'))
    <2>1. /\ PathOf(calls, control) = Lines(calls)
          /\ PathOf(calls', control') = Append(Lines(calls'), Line(control'))
      BY <1>1, <1>7 DEF PathOf
    <2>2. Lines(calls') = Lines(calls)
      BY <1>2, <1>3 DEF Lines
    <2> QED
      BY <2>1, <2>2
  <1> QED
    BY <1>2, <1>4, <1>5, <1>6, <1>8 DEF Path

-----------------------------------------------------------------------------
(* Calls keep what is always so. *)

\* The call of the next layer.
LEMMA WrappedType ==
  ASSUME BaseInv, outcome = "running", control.task = "call"
  PROVE  /\ Wrapped \in TaskRec(adapted) /\ Line(Wrapped) \in LineRec(adapted)
         /\ Line(Wrapped) = [Line(control) EXCEPT !.layer = @ + 1]
  <1>1. control.node \in NodesOf(adapted) /\ control.layer \in Nat \ {0} /\ control.value \in Arguments
    BY CallFacts
  <1>2. control.layer + 1 \in Nat \ {0}
    BY <1>1
  <1>3. Wrapped \in TaskRec(adapted)
    BY <1>1, <1>2 DEF Wrapped, Todo, TaskRec, node
  <1>4. Line(Wrapped) = [node |-> control.node, layer |-> control.layer + 1, value |-> control.value]
    BY DEF Wrapped, Todo, Line, node
  <1> QED
    BY <1>3, <1>4, LineFacts DEF Line

\* A layer is called, and pushes its frame.
LEMMA CallLayerBase == BaseInv /\ CallLayer => BaseInv'
  <1> SUFFICES ASSUME BaseInv, CallLayer PROVE BaseInv'
    OBVIOUS
  <1>1. PICK layer \in {"retry", "guard", "mapping", "union", "choice", "record"} :
          /\ Calling(layer)
          /\ unions' = IF layer = "union" THEN Append(unions, NewUnionFrame) ELSE unions
          /\ choices' = IF layer = "choice" THEN Append(choices, NewChoiceFrame) ELSE choices
          /\ apps' = IF layer = "record" THEN Append(apps, FALSE) ELSE apps
    BY DEF CallLayer
  <1>2. /\ calls' = Append(calls, Call(0)) /\ control' = Wrapped
        /\ adapted' = adapted /\ input' = input /\ recognised' = recognised /\ outcome' = outcome
    BY DEF CallLayer
  <1>3. outcome = "running" /\ control.task = "call" /\ Layer = layer
    BY <1>1 DEF Calling
  <1>4. Wrapped \in TaskRec(adapted) /\ Line(Wrapped) \in LineRec(adapted) /\ Line(Wrapped) = [Line(control) EXCEPT !.layer = @ + 1]
    BY <1>3, WrappedType
  <1>5. ~IsCore(control, {"set"})
    BY <1>3 DEF IsCore, LayerOf, Layer, node, Core
  <1>6. /\ calls' \in Seq(CallRec(adapted)) /\ Called'
        /\ \A l : Rank(calls', l, Len(calls')) = Rank(calls, l, Len(calls)) + (IF Layer = l THEN 1 ELSE 0)
        /\ Path' = Append(Path, Line(control'))
    BY <1>2, <1>3, <1>4, <1>5, Deeper
  <1>7. Lined(adapted, Path)'
    <2>1. Layer \notin Shielding \cup {Core}
      BY <1>3 DEF Shielding, Core
    <2>2. Lined(adapted, Append(Path, Line(Wrapped)))
      BY <1>3, <1>4, <2>1, CallFacts, LinedWrapped
    <2> QED
      BY <1>2, <1>6, <2>2
  <1>8. Sorted'
    <2>1. unions \in Seq(UnionRec) /\ choices \in Seq(ChoiceRec) /\ apps \in Seq(BOOLEAN)
      BY DEF BaseInv, Sorted
    <2>2. NewUnionFrame \in UnionRec /\ NewChoiceFrame \in ChoiceRec
      BY DEF NewUnionFrame, UnionRec, NewChoiceFrame, ChoiceRec
    <2>3. unions' \in Seq(UnionRec) /\ choices' \in Seq(ChoiceRec) /\ apps' \in Seq(BOOLEAN)
      BY <1>1, <2>1, <2>2, Appended
    <2>4. control' \in ControlRec(adapted) /\ control'.task = "call"
      BY <1>2, <1>4 DEF ControlRec, TaskRec
    <2> QED
      BY <1>2, <1>3, <1>6, <2>3, <2>4 DEF BaseInv, Sorted
  <1>9. Framed'
    <2>1. unions \in Seq(UnionRec) /\ choices \in Seq(ChoiceRec) /\ apps \in Seq(BOOLEAN)
      BY DEF BaseInv, Sorted
    <2>2. /\ Len(unions') = Len(unions) + (IF layer = "union" THEN 1 ELSE 0)
          /\ Len(choices') = Len(choices) + (IF layer = "choice" THEN 1 ELSE 0)
          /\ Len(apps') = Len(apps) + (IF layer = "record" THEN 1 ELSE 0)
      BY <1>1, <2>1
    <2> QED
      BY <1>3, <1>6, <2>2 DEF BaseInv, Framed
  <1> QED
    BY <1>2, <1>6, <1>7, <1>8, <1>9 DEF BaseInv, Known

\* Steps in place of a call keep what is always so if the line does.
LEMMA ReplacedBase ==
  ASSUME BaseInv, outcome = "running", control.task = "call", control' \in ControlRec(adapted), control' # Nothing,
         UNCHANGED <<adapted, input, calls, frames, recognised, outcome>>,
         control'.task = "call" => Lined(adapted, Append(Front(Path), Line(control')))
  PROVE  BaseInv'
  <1>1. Called' /\ (control'.task = "call" => Path' = Append(Front(Path), Line(control')))
        /\ (control'.task # "call" => Path' = Front(Path))
    BY Replaced
  <1>2. Lined(adapted, Front(Path))
    BY CallFacts, LinedFront
  <1>3. Lined(adapted, Path)'
    BY <1>1, <1>2
  <1>4. control'.task \in {"call", "value", "error"}
    BY DEF ControlRec, TaskRec, ValueRec, ErrorRec
  <1>5. Sorted'
    BY <1>4 DEF BaseInv, Sorted, frames
  <1>6. Framed'
    BY DEF BaseInv, Framed, frames
  <1> QED
    BY <1>1, <1>3, <1>5, <1>6 DEF BaseInv, Known

\* Values and errors.
LEMMA ResultTypes ==
  /\ \A v \in Values, app, lost \in BOOLEAN : Value(v, app, lost) \in ValueRec /\ Value(v, app, lost).task = "value"
  /\ \A kind \in Kinds, lost \in BOOLEAN : Error(kind, lost) \in ErrorRec /\ Error(kind, lost).task = "error"
  /\ Fails \in ErrorRec /\ Fails.task = "error" /\ Fails.lost = FALSE /\ Exceptions \subseteq ErrorRec
  /\ Arguments \subseteq Values
  /\ Nothing \notin ValueRec /\ Nothing \notin ErrorRec
  BY DEF Values, Arguments, Value, Error, Fails, Exceptions, ValueRec, ErrorRec, Kinds, Nothing

\* A shield rejects what has a carrier, and lets the rest through.
LEMMA ShieldBase == BaseInv /\ Shield => BaseInv'
  <1> SUFFICES ASSUME BaseInv, Shield PROVE BaseInv'
    OBVIOUS
  <1>1. /\ outcome = "running" /\ control.task = "call" /\ Layer \in Shielding
        /\ control' = IF control.value \in Carriers THEN Error("invariant", FALSE) ELSE Wrapped
        /\ UNCHANGED <<adapted, input, calls, frames, recognised, outcome>>
    BY DEF Shield, Calling, Shielding
  <1>2. CASE control.value \in Carriers
    <2>1. control' \in ErrorRec /\ control'.task = "error"
      BY <1>1, <1>2, ResultTypes DEF Kinds
    <2> QED
      BY <1>1, <2>1, ReplacedBase, ResultTypes DEF ControlRec
  <1>3. CASE control.value \notin Carriers
    <2>1. /\ Wrapped \in TaskRec(adapted) /\ Line(Wrapped) \in LineRec(adapted)
          /\ Line(Wrapped) = [Line(control) EXCEPT !.layer = @ + 1]
      BY <1>1, WrappedType
    <2>2. Lined(adapted, Append(Front(Path), Line(Wrapped)))
      BY <1>1, <1>3, <2>1, CallFacts, LinedShielded
    <2>3. control' \in ControlRec(adapted) /\ control' # Nothing
      BY <1>1, <1>3, <2>1 DEF ControlRec, TaskRec, Nothing
    <2> QED
      BY <1>1, <1>3, <2>2, <2>3, ReplacedBase
  <1> QED
    BY <1>2, <1>3

\* A node gives a value or an error.
LEMMA CallNodeBase == BaseInv /\ CallNode => BaseInv'
  <1> SUFFICES ASSUME BaseInv, CallNode PROVE BaseInv'
    OBVIOUS
  <1>1. /\ outcome = "running" /\ control.task = "call"
        /\ control' \in Results(node.type, control.value)
        /\ UNCHANGED <<adapted, input, calls, frames, recognised, outcome>>
    BY DEF CallNode, CallingNode, Calling
  <1>2. control.value \in Values
    BY <1>1, CallFacts, ResultTypes
  <1>3. control' \in {Gives(control.value), Gives("alike"), Gives("same"), Fails}
    BY <1>1 DEF Results
  <1>4. control' \in ValueRec \cup ErrorRec
    BY <1>2, <1>3, ResultTypes DEF Gives, Values
  <1> QED
    BY <1>1, <1>4, ReplacedBase, ResultTypes DEF ControlRec, ValueRec, ErrorRec

\* The first call of a node.
LEMMA TodoType ==
  ASSUME NEW a, Closed(a), NEW n \in NodesOf(a), NEW v \in Arguments
  PROVE  /\ Todo(n, 1, v) \in TaskRec(a) /\ Line(Todo(n, 1, v)) \in LineRec(a)
         /\ Line(Todo(n, 1, v)).node = n /\ Line(Todo(n, 1, v)).layer = 1 /\ Line(Todo(n, 1, v)).value = v
         /\ Todo(n, 1, v).node = n /\ Todo(n, 1, v).value = v /\ Todo(n, 1, v).task = "call"
  BY DEF Todo, TaskRec, LineRec, Line

\* A node is called in place of one that passes its value on.
LEMMA ThroughBase ==
  ASSUME BaseInv, outcome = "running", control.task = "call", Layer = Core,
         NEW n \in Inner(adapted, node), control' = Todo(n, 1, control.value),
         UNCHANGED <<adapted, input, calls, frames, recognised, outcome>>
  PROVE  BaseInv'
  <1>1. n \in NodesOf(adapted) /\ control.value \in Arguments
    BY CallFacts DEF Closed, node
  <1>2. /\ control' \in TaskRec(adapted) /\ Line(control') \in LineRec(adapted) /\ control'.task = "call"
        /\ Line(control').node = n /\ Line(control').layer = 1 /\ Line(control').value = control.value
    BY <1>1, CallFacts, TodoType
  <1>3. Lined(adapted, Append(Front(Path), Line(control')))
    BY <1>2, CallFacts, LinedThrough DEF node
  <1> QED
    BY <1>2, <1>3, ReplacedBase DEF ControlRec, Nothing

\* The nodes that a node holds are inside it.
LEMMA KidInside ==
  ASSUME NEW a, Closed(a), NEW n \in NodesOf(a), NEW i \in DOMAIN n.kids
  PROVE  n.kids[i] \in Inner(a, n) /\ n.kids[i] \in NodesOf(a)
  <1>1. n.kids \in Seq(Inner(a, n)) /\ Inner(a, n) \subseteq NodesOf(a)
    BY DEF Closed
  <1> QED
    BY <1>1

\* A model or a tagged union calls one of its fields or choices.
LEMMA CallThroughBase == BaseInv /\ CallThrough => BaseInv'
  <1> SUFFICES ASSUME BaseInv, CallThrough PROVE BaseInv'
    OBVIOUS
  <1>1. outcome = "running" /\ control.task = "call" /\ Layer = Core /\ UNCHANGED <<adapted, input, calls, frames, recognised, outcome>>
    BY DEF CallThrough, CallingNode, Calling
  <1>2. PICK i \in DOMAIN node.kids : control' = Todo(node.kids[i], 1, control.value)
    BY DEF CallThrough
  <1>3. node.kids[i] \in Inner(adapted, node)
    BY <1>1, CallFacts, KidInside DEF node
  <1> QED
    BY <1>1, <1>2, <1>3, ThroughBase

\* A reference calls its definition.
LEMMA CallReferenceBase == BaseInv /\ CallReference => BaseInv'
  <1> SUFFICES ASSUME BaseInv, CallReference PROVE BaseInv'
    OBVIOUS
  <1>1. /\ outcome = "running" /\ control.task = "call" /\ Layer = Core /\ node.type = "ref"
        /\ UNCHANGED <<adapted, input, calls, frames, recognised, outcome>>
        /\ control' = IF Len(calls) < MaxCalls THEN Todo(adapted.definitions[node.name], 1, control.value) ELSE Fails
    BY DEF CallReference, CallingNode, Calling
  <1>2. CASE Len(calls) < MaxCalls
    <2>1. adapted.definitions[node.name] \in Inner(adapted, node)
      BY <1>1, CallFacts DEF node, Closed
    <2> QED
      BY <1>1, <1>2, <2>1, ThroughBase
  <1>3. CASE ~(Len(calls) < MaxCalls)
    BY <1>1, <1>3, ReplacedBase, ResultTypes DEF ControlRec
  <1> QED
    BY <1>2, <1>3

\* The outermost layer of what a watched union holds is a choice.
LEMMA WatchedKid ==
  ASSUME NEW a, Closed(a), NEW n \in NodesOf(a), NEW i \in DOMAIN n.kids, WatchesChoices(n)
  PROVE  LayerAt(n.kids[i], 1) = "choice"
  <1>1. n.kids[i].layers \in Seq(Layers)
    BY KidInside DEF Closed
  <1> QED
    BY <1>1 DEF WatchesChoices, LayerAt

\* What a node holds is called, and the call of the node is remembered.
LEMMA InnerBase ==
  ASSUME BaseInv, outcome = "running", control.task = "call", Layer = Core, NEW k \in Nat,
         calls' = Append(calls, Call(k)), NEW i \in DOMAIN node.kids, NEW v \in Arguments,
         control' = Todo(node.kids[i], 1, v),
         node.type = "set" => control.value \in {"set", "smaller"} /\ v # "set" /\ k = 1,
         control.value = "app" => v = "app", v = "set" => control.value = "set",
         UNCHANGED <<adapted, input, frames, recognised, outcome>>
  PROVE  BaseInv'
  <1> DEFINE n == node.kids[i]
             y == Line(control)
  <1>1. n \in Inner(adapted, node) /\ n \in NodesOf(adapted) /\ node \in NodesOf(adapted)
    BY CallFacts, KidInside DEF node
  <1>2. /\ control' \in TaskRec(adapted) /\ Line(control') \in LineRec(adapted) /\ control'.task = "call"
        /\ Line(control').node = n /\ Line(control').layer = 1 /\ Line(control').value = v
    BY <1>1, CallFacts, TodoType
  <1>3. y.node = node /\ y.value = control.value /\ LayerOf(y) = Core /\ y = Path[Len(Path)]
    BY CallFacts DEF node
  <1>4. IsCore(control, {"set"}) => control.value \in {"set", "smaller"} /\ k = 1
    BY DEF IsCore, node
  <1>5. /\ calls' \in Seq(CallRec(adapted)) /\ Called'
        /\ \A l : Rank(calls', l, Len(calls')) = Rank(calls, l, Len(calls)) + (IF Layer = l THEN 1 ELSE 0)
        /\ Path' = Append(Path, Line(control'))
    BY <1>2, <1>4, Deeper
  <1>6. Lined(adapted, Path)'
    <2>1. Passes(y, Line(control'))
      BY <1>2, <1>3 DEF Passes, IsCore
    <2>2. Watching(y) => LayerOf(Line(control')) = "choice"
      BY <1>1, <1>2, <1>3, CallFacts, WatchedKid DEF Watching, LayerOf
    <2>3. Lined(adapted, Append(Path, Line(control')))
      BY <1>1, <1>2, <1>3, <2>1, <2>2, CallFacts, LinedInner
    <2> QED
      BY <1>5, <2>3
  <1>7. Sorted'
    BY <1>2, <1>5 DEF BaseInv, Sorted, frames, ControlRec
  <1>8. Framed'
    <2>1. unions \in Seq(UnionRec) /\ choices \in Seq(ChoiceRec) /\ apps \in Seq(BOOLEAN)
      BY DEF BaseInv, Sorted
    <2>2. Len(unions) \in Nat /\ Len(choices) \in Nat /\ Len(apps) \in Nat
      BY <2>1
    <2>3. Layer # "union" /\ Layer # "choice" /\ Layer # "record"
      BY DEF Core
    <2> QED
      BY <1>5, <2>2, <2>3 DEF BaseInv, Framed, frames
  <1> QED
    BY <1>5, <1>6, <1>7, <1>8 DEF BaseInv, Known

\* A node that must hold something does.
LEMMA FirstKid ==
  ASSUME NEW a, Closed(a), NEW n \in NodesOf(a), n.type \in {"wrap", "after", "before", "union", "set"}
  PROVE  1 \in DOMAIN n.kids
  <1>1. n.kids \in Seq(Inner(a, n)) /\ n.kids # <<>>
    BY DEF Closed
  <1> QED
    BY <1>1

\* A union calls its first choice, and a set what validates its members.
LEMMA CallPartsBase == BaseInv /\ CallParts => BaseInv'
  <1> SUFFICES ASSUME BaseInv, CallParts PROVE BaseInv'
    OBVIOUS
  <1>1. /\ outcome = "running" /\ control.task = "call" /\ Layer = Core /\ node.type \in {"union", "set"}
        /\ calls' = Append(calls, Call(1)) /\ UNCHANGED <<adapted, input, frames, recognised, outcome>>
    BY DEF CallParts, CallingNode, Calling
  <1>2. 1 \in DOMAIN node.kids /\ control.value \in Arguments
    BY <1>1, CallFacts, FirstKid DEF node
  <1>3. CASE node.type = "union" /\ control' = Todo(node.kids[1], 1, control.value)
    BY <1>1, <1>2, <1>3, InnerBase
  <1>4. CASE node.type = "set" /\ control.value \in {"set", "smaller"} /\ control' = Todo(node.kids[1], 1, "m1")
    BY <1>1, <1>2, <1>4, InnerBase DEF Arguments
  <1> QED
    BY <1>3, <1>4 DEF CallParts, CallingNode

\* What a function makes of an argument is a value.
LEMMA SuppliesType ==
  ASSUME NEW v \in Arguments
  PROVE  /\ Supplies(v) \subseteq Arguments
         /\ \A w \in Supplies(v) : (v = "app" => w = "app") /\ (w = "set" => v = "set")
  BY DEF Supplies, Arguments

\* A function of the application takes part.
LEMMA CallApplicationBase == BaseInv /\ CallApplication => BaseInv'
  <1> SUFFICES ASSUME BaseInv, CallApplication PROVE BaseInv'
    OBVIOUS
  <1>1. /\ outcome = "running" /\ control.task = "call" /\ Layer = Core /\ node.type \in Applications
        /\ UNCHANGED <<adapted, input, frames, recognised, outcome>>
    BY DEF CallApplication, CallingNode, Calling
  <1>2. control.value \in Arguments /\ node.type # "set"
    BY <1>1, CallFacts DEF Applications
  <1>3. CASE /\ node.type = "after" \/ node.type = "wrap"
             /\ control' = Todo(node.kids[1], 1, control.value)
             /\ calls' = Append(calls, Call(0))
    <2>1. 1 \in DOMAIN node.kids
      BY <1>1, <1>3, CallFacts, FirstKid DEF node
    <2> QED
      BY <1>1, <1>2, <1>3, <2>1, InnerBase
  <1>4. CASE /\ node.type = "before"
             /\ \E v \in Supplies(control.value) : control' = Todo(node.kids[1], 1, v)
             /\ calls' = Append(calls, Call(0))
    <2>1. 1 \in DOMAIN node.kids
      BY <1>1, <1>4, CallFacts, FirstKid DEF node
    <2>2. PICK v \in Supplies(control.value) : control' = Todo(node.kids[1], 1, v)
      BY <1>4
    <2>3. v \in Arguments /\ (control.value = "app" => v = "app") /\ (v = "set" => control.value = "set")
      BY <1>2, SuppliesType
    <2> QED
      BY <1>1, <1>2, <1>4, <2>1, <2>2, <2>3, InnerBase
  <1>5. CASE /\ node.type \in {"plain", "wrap"}
             /\ \E v \in Supplies(control.value) : control' = Value(v, TRUE, FALSE)
             /\ UNCHANGED calls
    <2>1. PICK v \in Supplies(control.value) : control' = Value(v, TRUE, FALSE)
      BY <1>5
    <2>2. v \in Values
      BY <1>2, SuppliesType, ResultTypes
    <2>3. control' \in ValueRec /\ control'.task = "value"
      BY <2>1, <2>2, ResultTypes
    <2> QED
      BY <1>1, <1>5, <2>3, ReplacedBase, ResultTypes DEF ControlRec
  <1>6. CASE node.type # "after" /\ control' \in Exceptions /\ UNCHANGED calls
    <2>1. control' \in ErrorRec /\ control'.task = "error"
      BY <1>6, ResultTypes DEF ErrorRec
    <2> QED
      BY <1>1, <1>6, <2>1, ReplacedBase, ResultTypes DEF ControlRec
  <1> QED
    BY <1>3, <1>4, <1>5, <1>6 DEF CallApplication

-----------------------------------------------------------------------------
(* Returns keep what is always so. *)

\* A layer that returns has its frame.
LEMMA FramesThere ==
  ASSUME BaseInv, Returning
  PROVE  /\ unions \in Seq(UnionRec) /\ choices \in Seq(ChoiceRec) /\ apps \in Seq(BOOLEAN)
         /\ LayerOf(Top) = "union" => unions # <<>>
         /\ LayerOf(Top) = "choice" => choices # <<>>
         /\ LayerOf(Top) = "record" => apps # <<>>
  <1>1. unions \in Seq(UnionRec) /\ choices \in Seq(ChoiceRec) /\ apps \in Seq(BOOLEAN)
    BY DEF BaseInv, Sorted
  <1>2. Len(calls) \in Nat \ {0} /\ Top = calls[Len(calls)]
    BY ReturnFacts
  <1>3. ASSUME NEW layer, LayerOf(Top) = layer PROVE Rank(calls, layer, Len(calls)) # 0
    <2>1. Len(calls) - 1 \in Nat
      BY <1>2
    <2>2. Rank(calls, layer, Len(calls) - 1) \in Nat
      BY <2>1, RankMono
    <2>3. Rank(calls, layer, Len(calls)) = Rank(calls, layer, Len(calls) - 1) + 1
      BY <1>2, <1>3, RankNext
    <2> QED
      BY <2>2, <2>3
  <1>4. unions = <<>> => Len(unions) = 0
    OBVIOUS
  <1>5. choices = <<>> => Len(choices) = 0
    OBVIOUS
  <1>6. apps = <<>> => Len(apps) = 0
    OBVIOUS
  <1> QED
    BY <1>1, <1>3, <1>4, <1>5, <1>6 DEF BaseInv, Framed

\* Returns keep what is always so if each frame is popped by its own layer.
LEMMA ReturnedBase ==
  ASSUME BaseInv, Returning, calls' = Front(calls), UNCHANGED <<adapted, input, outcome>>,
         control' \in ValueRec \cup ErrorRec, recognised' \in BOOLEAN,
         unions' \in Seq(UnionRec), Len(unions') = Len(unions) - (IF LayerOf(Top) = "union" THEN 1 ELSE 0),
         choices' \in Seq(ChoiceRec), Len(choices') = Len(choices) - (IF LayerOf(Top) = "choice" THEN 1 ELSE 0),
         apps' \in Seq(BOOLEAN), Len(apps') = Len(apps) - (IF LayerOf(Top) = "record" THEN 1 ELSE 0)
  PROVE  BaseInv'
  <1>1. control' \in ControlRec(adapted) /\ control'.task \in {"value", "error"}
    BY DEF ControlRec, ValueRec, ErrorRec
  <1>2. /\ calls' \in Seq(CallRec(adapted)) /\ Called'
        /\ \A l : Rank(calls', l, Len(calls')) = Rank(calls, l, Len(calls)) - (IF LayerOf(Top) = l THEN 1 ELSE 0)
        /\ Path' = Front(Path) /\ Path # <<>>
    BY <1>1, Returned
  <1>3. Lined(adapted, Path)'
    <2>1. Path \in Seq(LineRec(adapted)) /\ Lined(adapted, Path)
      BY ReturnFacts, LinesType
    <2> QED
      BY <1>2, <2>1, LinedFront
  <1>4. outcome = "running"
    BY DEF Returning
  <1>5. Sorted'
    BY <1>1, <1>2, <1>4 DEF BaseInv, Sorted
  <1>6. Framed'
    BY <1>2 DEF BaseInv, Framed
  <1> QED
    BY <1>2, <1>3, <1>5, <1>6 DEF BaseInv, Known

\* Changed frames are frames, as many as before; a popped frame is one less.
LEMMA FrameTypes ==
  /\ \A s \in Seq(UnionRec) : Suppressed(s) \in Seq(UnionRec) /\ Len(Suppressed(s)) = Len(s)
       /\ \A i \in 1..Len(s) : Suppressed(s)[i] = [s[i] EXCEPT !.suppressed = TRUE]
  /\ \A s \in Seq(ChoiceRec) : s # <<>> => Marked(s) \in Seq(ChoiceRec) /\ Len(Marked(s)) = Len(s)
       /\ \A i \in 1..Len(s) : Marked(s)[i] = [s[i] EXCEPT !.violation = @ \/ i = Len(s)]
  /\ \A s \in Seq(ChoiceRec) : Ran(s) \in Seq(ChoiceRec) /\ Len(Ran(s)) = Len(s)
       /\ \A i \in 1..Len(s) : Ran(s)[i] = [s[i] EXCEPT !.ran = @ \/ i = Len(s)]
  <1>1. ASSUME NEW s \in Seq(UnionRec)
        PROVE  Suppressed(s) \in Seq(UnionRec) /\ Len(Suppressed(s)) = Len(s)
               /\ \A i \in 1..Len(s) : Suppressed(s)[i] = [s[i] EXCEPT !.suppressed = TRUE]
    <2>1. \A i \in 1..Len(s) : [s[i] EXCEPT !.suppressed = TRUE] \in UnionRec
      <3> TAKE i \in 1..Len(s)
      <3>1. s[i] \in UnionRec
        OBVIOUS
      <3> QED
        BY <3>1 DEF UnionRec
    <2>2. DOMAIN s = 1..Len(s) /\ Len(s) \in Nat
      OBVIOUS
    <2>3. Suppressed(s) = [i \in 1..Len(s) |-> [s[i] EXCEPT !.suppressed = TRUE]]
      BY <2>2 DEF Suppressed
    <2> HIDE DEF UnionRec
    <2> QED
      BY <2>1, <2>2, <2>3
  <1>2. ASSUME NEW s \in Seq(ChoiceRec), s # <<>>
        PROVE  Marked(s) \in Seq(ChoiceRec) /\ Len(Marked(s)) = Len(s)
               /\ \A i \in 1..Len(s) : Marked(s)[i] = [s[i] EXCEPT !.violation = @ \/ i = Len(s)]
    <2>1. \A i \in 1..Len(s) : [s[i] EXCEPT !.violation = TRUE] \in ChoiceRec
      <3> TAKE i \in 1..Len(s)
      <3>1. s[i] \in ChoiceRec
        OBVIOUS
      <3> QED
        BY <3>1 DEF ChoiceRec
    <2>2. Len(s) \in Nat \ {0}
      BY <1>2, EmptySeq
    <2>3. Marked(s) = [s EXCEPT ![Len(s)] = [s[Len(s)] EXCEPT !.violation = TRUE]]
      BY DEF Marked
    <2>4. /\ Marked(s) \in Seq(ChoiceRec) /\ Len(Marked(s)) = Len(s)
          /\ \A i \in 1..Len(s) : Marked(s)[i] = IF i = Len(s) THEN [s[i] EXCEPT !.violation = TRUE] ELSE s[i]
      <3>1. Len(s) \in 1..Len(s) /\ [s[Len(s)] EXCEPT !.violation = TRUE] \in ChoiceRec
        BY <2>1, <2>2
      <3> DEFINE e == [s[Len(s)] EXCEPT !.violation = TRUE]
      <3>2. e \in ChoiceRec /\ \A i \in 1..Len(s) : i = Len(s) => e = [s[i] EXCEPT !.violation = TRUE]
        BY <3>1
      <3> HIDE DEF ChoiceRec, e
      <3>3. /\ [s EXCEPT ![Len(s)] = e] \in Seq(ChoiceRec) /\ Len([s EXCEPT ![Len(s)] = e]) = Len(s)
            /\ \A i \in 1..Len(s) : [s EXCEPT ![Len(s)] = e][i] = IF i = Len(s) THEN e ELSE s[i]
        BY <3>1, <3>2, Changed
      <3>4. Marked(s) = [s EXCEPT ![Len(s)] = e]
        BY <2>3 DEF e
      <3> QED
        BY <3>2, <3>3, <3>4
    <2>5. \A i \in 1..Len(s) : Marked(s)[i] = [s[i] EXCEPT !.violation = @ \/ i = Len(s)]
      <3> TAKE i \in 1..Len(s)
      <3>1. s[i] \in ChoiceRec
        OBVIOUS
      <3>2. CASE i = Len(s)
        BY <2>4, <3>1, <3>2 DEF ChoiceRec
      <3>3. CASE i # Len(s)
        BY <2>4, <3>1, <3>3 DEF ChoiceRec
      <3> QED
        BY <3>2, <3>3
    <2> QED
      BY <2>4, <2>5
  <1>3. ASSUME NEW s \in Seq(ChoiceRec)
        PROVE  Ran(s) \in Seq(ChoiceRec) /\ Len(Ran(s)) = Len(s)
               /\ \A i \in 1..Len(s) : Ran(s)[i] = [s[i] EXCEPT !.ran = @ \/ i = Len(s)]
    <2>1. CASE s = <<>>
      BY <2>1 DEF Ran
    <2>2. CASE s # <<>>
      <3>1. \A i \in 1..Len(s) : [s[i] EXCEPT !.ran = TRUE] \in ChoiceRec
        <4> TAKE i \in 1..Len(s)
        <4>1. s[i] \in ChoiceRec
          OBVIOUS
        <4> QED
          BY <4>1 DEF ChoiceRec
      <3>2. Len(s) \in Nat \ {0}
        BY <2>2, EmptySeq
      <3>3. Ran(s) = [s EXCEPT ![Len(s)] = [s[Len(s)] EXCEPT !.ran = TRUE]]
        BY <2>2 DEF Ran
      <3>4. /\ Ran(s) \in Seq(ChoiceRec) /\ Len(Ran(s)) = Len(s)
            /\ \A i \in 1..Len(s) : Ran(s)[i] = IF i = Len(s) THEN [s[i] EXCEPT !.ran = TRUE] ELSE s[i]
        <4>1. Len(s) \in 1..Len(s) /\ [s[Len(s)] EXCEPT !.ran = TRUE] \in ChoiceRec
          BY <3>1, <3>2
        <4> DEFINE e == [s[Len(s)] EXCEPT !.ran = TRUE]
        <4>2. e \in ChoiceRec /\ \A i \in 1..Len(s) : i = Len(s) => e = [s[i] EXCEPT !.ran = TRUE]
          BY <4>1
        <4> HIDE DEF ChoiceRec, e
        <4>3. /\ [s EXCEPT ![Len(s)] = e] \in Seq(ChoiceRec) /\ Len([s EXCEPT ![Len(s)] = e]) = Len(s)
              /\ \A i \in 1..Len(s) : [s EXCEPT ![Len(s)] = e][i] = IF i = Len(s) THEN e ELSE s[i]
          BY <4>1, <4>2, Changed
        <4>4. Ran(s) = [s EXCEPT ![Len(s)] = e]
          BY <3>3 DEF e
        <4> QED
          BY <4>2, <4>3, <4>4
      <3>5. \A i \in 1..Len(s) : Ran(s)[i] = [s[i] EXCEPT !.ran = @ \/ i = Len(s)]
        <4> TAKE i \in 1..Len(s)
        <4>1. s[i] \in ChoiceRec
          OBVIOUS
        <4>2. CASE i = Len(s)
          BY <3>4, <4>1, <4>2 DEF ChoiceRec
        <4>3. CASE i # Len(s)
          BY <3>4, <4>1, <4>3 DEF ChoiceRec
        <4> QED
          BY <4>2, <4>3
      <3> QED
        BY <3>4, <3>5
    <2> QED
      BY <2>1, <2>2
  <1> QED
    BY <1>1, <1>2, <1>3

\* An error in place of what is returned.
LEMMA InvariantType ==
  ASSUME BaseInv, Returning
  PROVE  /\ Error("invariant", control.lost) \in ErrorRec /\ Error("invariant", control.lost).task = "error"
         /\ Error("invariant", control.lost).lost = control.lost /\ Error("invariant", control.lost).kind = "invariant"
         /\ control \in ValueRec \cup ErrorRec
         /\ control.lost \in BOOLEAN
  <1>1. control \in ValueRec \/ control \in ErrorRec
    BY ReturnFacts
  <1>2. control.lost \in BOOLEAN
    BY <1>1 DEF ValueRec, ErrorRec
  <1> QED
    BY <1>1, <1>2 DEF Error, ErrorRec, Kinds

\* What layers make of what is returned, and of the frames.
LEMMA LeaveLayerBase ==
  BaseInv /\ (LeaveRetry \/ LeaveGuard \/ LeaveRecord \/ LeaveChoice \/ LeaveUnion \/ LeaveMapping) => BaseInv'
  <1> SUFFICES ASSUME BaseInv, LeaveRetry \/ LeaveGuard \/ LeaveRecord \/ LeaveChoice \/ LeaveUnion \/ LeaveMapping
               PROVE  BaseInv'
    OBVIOUS
  <1>1. Returning /\ calls' = Front(calls) /\ UNCHANGED <<adapted, input, outcome>>
    BY DEF LeaveRetry, LeaveGuard, LeaveRecord, LeaveChoice, LeaveUnion, LeaveMapping, Leaving
  <1>2. /\ unions \in Seq(UnionRec) /\ choices \in Seq(ChoiceRec) /\ apps \in Seq(BOOLEAN)
        /\ recognised \in BOOLEAN
        /\ LayerOf(Top) = "union" => unions # <<>>
        /\ LayerOf(Top) = "choice" => choices # <<>>
        /\ LayerOf(Top) = "record" => apps # <<>>
    BY <1>1, FramesThere DEF BaseInv, Sorted
  <1>3. LayerOf(Top) = LayerAt(Top.node, Top.layer)
    BY <1>1, ReturnFacts
  <1>4. /\ Error("invariant", control.lost) \in ErrorRec
        /\ control \in ValueRec \cup ErrorRec
        /\ ~IsError => control \in ValueRec
    BY <1>1, InvariantType, ReturnFacts
  <1>5. CASE LeaveRetry
    <2>1. LayerOf(Top) = "retry" /\ choices' = choices /\ apps' = apps
      BY <1>3, <1>5 DEF LeaveRetry, Leaving
    <2>2. recognised' \in BOOLEAN
      BY <1>2, <1>5 DEF LeaveRetry
    <2>3. unions' \in Seq(UnionRec) /\ Len(unions') = Len(unions)
      BY <1>2, <1>5, FrameTypes DEF LeaveRetry
    <2>4. control' \in ValueRec \cup ErrorRec
      BY <1>4, <1>5, ResultTypes DEF LeaveRetry, Gives, Values
    <2> QED
      BY <1>1, <1>2, <2>1, <2>2, <2>3, <2>4, ReturnedBase
  <1>6. CASE LeaveGuard
    <2>1. LayerOf(Top) = "guard" /\ unions' = unions /\ recognised' = recognised
      BY <1>3, <1>6 DEF LeaveGuard, Leaving
    <2>2. PICK differs \in IF IsError THEN {FALSE} ELSE Differs(Top.value, control.value) :
       /\ control' = IF differs THEN Error("invariant", control.lost) ELSE control
       /\ choices' = IF differs /\ choices # <<>> THEN Marked(choices) ELSE choices
       /\ apps' = IF differs /\ choices = <<>> THEN [i \in DOMAIN apps |-> TRUE] ELSE apps
      BY <1>6 DEF LeaveGuard
    <2>3. choices' \in Seq(ChoiceRec) /\ Len(choices') = Len(choices)
      BY <1>2, <2>2, FrameTypes
    <2>4. apps' \in Seq(BOOLEAN) /\ Len(apps') = Len(apps)
      <3>1. DOMAIN apps = 1..Len(apps) /\ Len(apps) \in Nat
        BY <1>2
      <3>2. [i \in DOMAIN apps |-> TRUE] \in Seq(BOOLEAN) /\ Len([i \in DOMAIN apps |-> TRUE]) = Len(apps)
        BY <3>1
      <3> QED
        BY <1>2, <2>2, <3>2
    <2>5. control' \in ValueRec \cup ErrorRec
      BY <1>4, <2>2
    <2> QED
      BY <1>1, <1>2, <2>1, <2>3, <2>4, <2>5, ReturnedBase
  <1>7. CASE LeaveRecord
    <2>1. LayerOf(Top) = "record" /\ unions' = unions /\ recognised' = recognised
      BY <1>3, <1>7 DEF LeaveRecord, Leaving
    <2>2. choices' \in Seq(ChoiceRec) /\ Len(choices') = Len(choices)
      BY <1>2, <1>7, FrameTypes DEF LeaveRecord
    <2>3. apps' \in Seq(BOOLEAN) /\ Len(apps') = Len(apps) - 1
      BY <1>2, <1>7, <2>1, FrontOf DEF LeaveRecord, Popped
    <2>4. control' \in ValueRec \cup ErrorRec
      BY <1>4, <1>7 DEF LeaveRecord
    <2>5. Len(unions) \in Nat /\ Len(choices) \in Nat
      BY <1>2
    <2> QED
      BY <1>1, <1>2, <2>1, <2>2, <2>3, <2>4, <2>5, ReturnedBase
  <1>8. CASE LeaveChoice
    <2>1. LayerOf(Top) = "choice" /\ apps' = apps /\ recognised' = recognised
      BY <1>3, <1>8 DEF LeaveChoice, Leaving
    <2>2. choices' \in Seq(ChoiceRec) /\ Len(choices') = Len(choices) - 1
      BY <1>2, <1>8, <2>1, FrontOf DEF LeaveChoice, Popped
    <2>3. control' \in ValueRec \cup ErrorRec
      BY <1>4, <1>8 DEF LeaveChoice
    <2>4. unions' \in Seq(UnionRec) /\ Len(unions') = Len(unions)
      <3>1. CASE IsError \/ Last(choices).violation \/ unions = <<>>
        BY <1>2, <1>8, <3>1 DEF LeaveChoice
      <3>2. CASE ~(IsError \/ Last(choices).violation \/ unions = <<>>)
        <4>1. Last(choices) \in ChoiceRec
          BY <1>2, <2>1, FrontOf
        <4>2. <<control.value, Last(choices).ran>> \in Values \X BOOLEAN
          BY <1>4, <3>2, <4>1 DEF ValueRec, ChoiceRec
        <4>3. Len(unions) \in 1..Len(unions) /\ unions[Len(unions)] \in UnionRec
          BY <1>2, <3>2
        <4> DEFINE u == [unions[Len(unions)] EXCEPT !.results = @ \cup {<<control.value, Last(choices).ran>>}]
        <4>4. u \in UnionRec
          BY <4>2, <4>3 DEF UnionRec
        <4>5. unions' = [unions EXCEPT ![Len(unions)] = u]
          BY <1>8, <3>2 DEF LeaveChoice
        <4> HIDE DEF u, UnionRec
        <4> QED
          BY <1>2, <4>3, <4>4, <4>5
      <3> QED
        BY <3>1, <3>2
    <2>5. Len(unions) \in Nat /\ Len(apps) \in Nat
      BY <1>2
    <2> QED
      BY <1>1, <1>2, <2>1, <2>2, <2>3, <2>4, <2>5, ReturnedBase
  <1>9. CASE LeaveUnion
    <2>1. LayerOf(Top) = "union" /\ apps' = apps /\ recognised' = recognised
      BY <1>3, <1>9 DEF LeaveUnion, Leaving
    <2>2. unions' \in Seq(UnionRec) /\ Len(unions') = Len(unions) - 1
      BY <1>2, <1>9, <2>1, FrontOf DEF LeaveUnion, Popped
    <2>3. control' \in ValueRec \cup ErrorRec
      BY <1>4, <1>9 DEF LeaveUnion
    <2>4. choices' \in Seq(ChoiceRec) /\ Len(choices') = Len(choices)
      BY <1>2, <1>9, FrameTypes DEF LeaveUnion
    <2>5. Len(choices) \in Nat /\ Len(apps) \in Nat
      BY <1>2
    <2> QED
      BY <1>1, <1>2, <2>1, <2>2, <2>3, <2>4, <2>5, ReturnedBase
  <1>10. CASE LeaveMapping
    <2>1. LayerOf(Top) = "mapping" /\ control' = control /\ unions' = unions /\ choices' = choices /\ apps' = apps /\ recognised' = recognised
      BY <1>3, <1>10 DEF LeaveMapping, Leaving, frames
    <2>2. Len(choices) \in Nat /\ Len(apps) \in Nat /\ Len(unions) \in Nat
      BY <1>2
    <2> QED
      BY <1>1, <1>2, <1>4, <2>1, <2>2, ReturnedBase
  <1> QED
    BY <1>5, <1>6, <1>7, <1>8, <1>9, <1>10 DEF LeaveMapping

\* What a union, or a set, has taken.
LEMMA TakenType ==
  ASSUME BaseInv, Returning
  PROVE  /\ Taken \in Seq(ValueRec)
         /\ \A k \in DOMAIN Taken : (\E j \in DOMAIN Top.done : Taken[k] = Top.done[j]) \/ (~IsError /\ Taken[k] = control)
         /\ \A r \in ToSet(Taken) : \E k \in DOMAIN Taken : r = Taken[k]
         /\ \A r \in ToSet(Taken) : r \in ValueRec
  <1>1. Top.done \in Seq(ValueRec) /\ (~IsError => control \in ValueRec)
    BY ReturnFacts
  <1>2. CASE IsError
    BY <1>1, <1>2 DEF Taken, ToSet
  <1>3. CASE ~IsError
    <2>1. Taken = Append(Top.done, control)
      BY <1>3 DEF Taken
    <2>2. /\ Taken \in Seq(ValueRec) /\ Len(Taken) = Len(Top.done) + 1 /\ Len(Top.done) \in Nat
          /\ \A i \in 1..Len(Top.done) : Taken[i] = Top.done[i]
          /\ Taken[Len(Top.done) + 1] = control
      BY <1>1, <1>3, <2>1, Appended
    <2>3. ASSUME NEW k \in DOMAIN Taken PROVE (\E j \in DOMAIN Top.done : Taken[k] = Top.done[j]) \/ (~IsError /\ Taken[k] = control)
      <3>1. k \in 1..Len(Top.done) \/ k = Len(Top.done) + 1
        BY <2>2
      <3>2. 1..Len(Top.done) = DOMAIN Top.done
        BY <1>1
      <3> QED
        BY <1>3, <2>2, <3>1, <3>2
    <2>4. \A r \in ToSet(Taken) : \E k \in DOMAIN Taken : r = Taken[k]
      BY DEF ToSet
    <2>5. \A k \in DOMAIN Taken : Taken[k] \in ValueRec
      BY <2>2
    <2> QED
      BY <2>2, <2>3, <2>4, <2>5
  <1> QED
    BY <1>2, <1>3

\* What leaves a core changes no frame.
LEMMA CoreReturnedBase ==
  ASSUME BaseInv, Returning, LayerOf(Top) = Core, calls' = Front(calls),
         UNCHANGED <<adapted, input, frames, recognised, outcome>>, control' \in ValueRec \cup ErrorRec
  PROVE  BaseInv'
  <1>1. unions \in Seq(UnionRec) /\ choices \in Seq(ChoiceRec) /\ apps \in Seq(BOOLEAN) /\ recognised \in BOOLEAN
    BY DEF BaseInv, Sorted
  <1>2. Len(choices) \in Nat /\ Len(apps) \in Nat /\ Len(unions) \in Nat
    BY <1>1
  <1>3. unions' = unions /\ choices' = choices /\ apps' = apps
    BY DEF frames
  <1>4. Core # "union" /\ Core # "choice" /\ Core # "record"
    BY DEF Core
  <1> QED
    BY <1>1, <1>2, <1>3, <1>4, ReturnedBase

\* A union, or a set, ends.
LEMMA EndPartsBase == BaseInv /\ (EndUnion \/ EndSet) => BaseInv'
  <1> SUFFICES ASSUME BaseInv, EndUnion \/ EndSet PROVE BaseInv'
    OBVIOUS
  <1>1. Returning /\ calls' = Front(calls) /\ UNCHANGED <<adapted, input, frames, recognised, outcome>>
    BY DEF EndUnion, EndSet, LeavingNode, Leaving
  <1>2. LayerOf(Top) = Core /\ Top.value \in Arguments /\ Top.kind \in Kinds /\ Top.lost \in BOOLEAN
    BY <1>1, ReturnFacts DEF EndUnion, EndSet, LeavingNode, Leaving
  <1>3. control \in ValueRec \cup ErrorRec /\ (IsError => control \in ErrorRec) /\ (~IsError => control \in ValueRec)
    BY <1>1, InvariantType, ReturnFacts
  <1>4. CASE EndUnion
    <2>1. CASE control' \in ToSet(Taken)
      BY <1>1, <1>2, <2>1, TakenType, CoreReturnedBase
    <2>2. CASE IsError /\ control' = Error(Worse(Top.kind, control.kind), Top.lost \/ control.lost)
      <3>1. control.kind \in Kinds /\ control.lost \in BOOLEAN
        BY <1>3, <2>2 DEF ErrorRec
      <3>2. Worse(Top.kind, control.kind) \in Kinds
        BY <1>2, <3>1 DEF Worse, Kinds
      <3>3. (Top.lost \/ control.lost) \in BOOLEAN
        BY <1>2, <3>1
      <3> QED
        BY <1>1, <1>2, <2>2, <3>2, <3>3, ResultTypes, CoreReturnedBase
    <2> QED
      BY <1>1, <1>2, <1>3, <1>4, <2>1, <2>2, CoreReturnedBase DEF EndUnion
  <1>5. CASE EndSet
    <2>1. CASE control' = Value(IF Distinct THEN Top.value ELSE "smaller",
                            \E i \in DOMAIN Taken : Taken[i].app,
                            ~Distinct \/ \E i \in DOMAIN Taken : Taken[i].lost)
      <3>1. (IF Distinct THEN Top.value ELSE "smaller") \in Values
        BY <1>2, ResultTypes DEF Values
      <3>2. (\E i \in DOMAIN Taken : Taken[i].app) \in BOOLEAN /\ (~Distinct \/ \E i \in DOMAIN Taken : Taken[i].lost) \in BOOLEAN
        OBVIOUS
      <3>3. control' \in ValueRec
        BY <2>1, <3>1, <3>2, ResultTypes
      <3> QED
        BY <1>1, <1>2, <3>3, CoreReturnedBase
    <2>2. CASE control' = control
      BY <1>1, <1>2, <1>3, <2>2, CoreReturnedBase
    <2> QED
      BY <1>5, <2>1, <2>2 DEF EndSet
  <1> QED
    BY <1>4, <1>5

\* A function returns.
LEMMA LeaveApplicationBase == BaseInv /\ LeaveApplication => BaseInv'
  <1> SUFFICES ASSUME BaseInv, LeaveApplication PROVE BaseInv'
    OBVIOUS
  <1>1. Returning /\ calls' = Front(calls) /\ UNCHANGED <<adapted, input, frames, recognised, outcome>>
    BY DEF LeaveApplication, LeavingNode, Leaving
  <1>2. LayerOf(Top) = Core
    BY <1>1, ReturnFacts DEF LeaveApplication, LeavingNode, Leaving
  <1>3. control \in ValueRec \cup ErrorRec /\ control.lost \in BOOLEAN /\ (~IsError => control.value \in Values)
    BY <1>1, InvariantType, ReturnFacts DEF ValueRec
  <1>4. (control.lost \/ (Top.value = "set" /\ control.value = "smaller" /\ Top.node.type = "before")) \in BOOLEAN
    BY <1>3
  <1>5. control' \in ValueRec \cup ErrorRec
    <2>1. CASE ~IsError /\ control' = Value(control.value, TRUE, control.lost \/ (Top.value = "set" /\ control.value = "smaller" /\ Top.node.type = "before"))
      <3>1. control.value \in Values
        BY <1>3, <2>1
      <3> QED
        BY <1>4, <2>1, <3>1, ResultTypes
    <2>2. CASE control' \in {Value("app", TRUE, control.lost)} \cup Exceptions
      <3>1. "app" \in Values
        BY DEF Values
      <3>2. Value("app", TRUE, control.lost) \in ValueRec /\ Exceptions \subseteq ErrorRec
        BY <1>3, <3>1, ResultTypes
      <3> QED
        BY <2>2, <3>2
    <2>3. CASE control' = control
      BY <1>3, <2>3
    <2>4. CASE control' \in {Value("app", TRUE, control.lost), Error("validation", control.lost)}
      <3>1. "app" \in Values /\ "validation" \in Kinds
        BY DEF Values, Kinds
      <3>2. Value("app", TRUE, control.lost) \in ValueRec /\ Error("validation", control.lost) \in ErrorRec
        BY <1>3, <3>1, ResultTypes
      <3> QED
        BY <2>4, <3>2
    <2> QED
      BY <2>1, <2>2, <2>3, <2>4 DEF LeaveApplication
  <1> QED
    BY <1>1, <1>2, <1>5, CoreReturnedBase

\* Where a node calls again, what has been taken is remembered.
LEMMA RepeatedBase ==
  ASSUME BaseInv, Returning, LayerOf(Top) = Core, NEW e \in CallRec(adapted), Line(e) = Line(Top),
         Counted(e), calls' = [calls EXCEPT ![Len(calls)] = e],
         NEW i \in DOMAIN Top.node.kids, NEW v \in Arguments, control' = Todo(Top.node.kids[i], 1, v),
         Top.node.type = "set" => v # "set",
         Top.value = "app" => v = "app", v = "set" => Top.value = "set",
         UNCHANGED <<adapted, input, frames, recognised, outcome>>
  PROVE  BaseInv'
  <1> DEFINE n == Top.node.kids[i]
             y == Line(Top)
  <1>1. /\ calls \in Seq(CallRec(adapted)) /\ Len(calls) \in Nat \ {0} /\ Top = calls[Len(calls)]
        /\ Top \in CallRec(adapted) /\ Top.node \in NodesOf(adapted) /\ Closed(adapted)
        /\ Path = Lines(calls) /\ Lined(adapted, Path)
    BY ReturnFacts
  <1>2. n \in Inner(adapted, Top.node) /\ n \in NodesOf(adapted)
    BY <1>1, KidInside
  <1>3. /\ control' \in TaskRec(adapted) /\ Line(control') \in LineRec(adapted) /\ control'.task = "call"
        /\ Line(control').node = n /\ Line(control').layer = 1 /\ Line(control').value = v
    BY <1>1, <1>2, TodoType
  <1>4. /\ calls' \in Seq(CallRec(adapted)) /\ Len(calls') = Len(calls) /\ Called'
        /\ \A layer : Rank(calls', layer, Len(calls)) = Rank(calls, layer, Len(calls))
        /\ Path' = Append(Path, Line(control'))
    <2>1. Len(calls) \in 1..Len(calls)
      BY <1>1
    <2>2. /\ calls' \in Seq(CallRec(adapted)) /\ Len(calls') = Len(calls) /\ Called'
          /\ \A j \in 1..Len(calls) : \A layer : Rank(calls', layer, j) = Rank(calls, layer, j)
          /\ Path' = Append(Path, Line(control'))
      BY <1>3, Repeated
    <2> QED
      BY <2>1, <2>2
  <1>5. /\ Path \in Seq(LineRec(adapted)) /\ Len(Path) = Len(calls) /\ Path # <<>>
        /\ Path[Len(Path)] = y /\ y.node = Top.node /\ y.value = Top.value /\ LayerOf(y) = Core
    <2>1. Path \in Seq(LineRec(adapted)) /\ Len(Path) = Len(calls)
      BY <1>1, LinesType
    <2>2. Path[Len(Path)] = y
      BY <1>1, <2>1 DEF Lines
    <2>3. Path # <<>>
      BY <1>1, <2>1
    <2> QED
      BY <1>1, <2>1, <2>2, <2>3, LineFacts
  <1>6. Lined(adapted, Path)'
    <2>1. Passes(y, Line(control'))
      BY <1>3, <1>5 DEF Passes, IsCore
    <2>2. Watching(y) => LayerOf(Line(control')) = "choice"
      BY <1>1, <1>3, <1>5, WatchedKid DEF Watching, LayerOf
    <2>3. Lined(adapted, Append(Path, Line(control')))
      BY <1>1, <1>2, <1>3, <1>5, <2>1, <2>2, LinedInner
    <2> QED
      BY <1>4, <2>3
  <1>7. outcome = "running"
    BY DEF Returning
  <1>8. Sorted'
    BY <1>3, <1>4, <1>7 DEF BaseInv, Sorted, frames, ControlRec
  <1>9. Framed'
    BY <1>4 DEF BaseInv, Framed, frames
  <1> QED
    BY <1>4, <1>6, <1>8, <1>9 DEF BaseInv, Known

\* A union, or a set, that calls again is the same call.
LEMMA CallsAgain ==
  ASSUME BaseInv, Returning
  PROVE  /\ ChoiceCall \in CallRec(adapted) /\ Line(ChoiceCall) = Line(Top) /\ ChoiceCall.done = Taken
         /\ ChoiceCall.lost = (Top.lost \/ (IsError /\ control.lost)) /\ LayerOf(ChoiceCall) = LayerOf(Top)
         /\ MemberCall \in CallRec(adapted) /\ Line(MemberCall) = Line(Top) /\ MemberCall.done = Taken
         /\ MemberCall.lost = Top.lost /\ LayerOf(MemberCall) = LayerOf(Top)
  <1>1. Top \in CallRec(adapted) /\ Taken \in Seq(ValueRec)
    BY ReturnFacts, TakenType
  <1>2. IsError => control.kind \in Kinds
    BY ReturnFacts DEF ErrorRec
  <1>3. Top.kind \in Kinds /\ Top.at + 1 \in Nat
    BY ReturnFacts
  <1>4. (IF IsError THEN Worse(Top.kind, control.kind) ELSE Top.kind) \in Kinds
    BY <1>2, <1>3 DEF Worse, Kinds
  <1>5. (Top.lost \/ (IsError /\ control.lost)) \in BOOLEAN
    BY <1>1 DEF CallRec
  <1>6. ChoiceCall \in CallRec(adapted) /\ ChoiceCall.node = Top.node /\ ChoiceCall.layer = Top.layer /\ ChoiceCall.value = Top.value
        /\ ChoiceCall.done = Taken /\ ChoiceCall.lost = (Top.lost \/ (IsError /\ control.lost))
    BY <1>1, <1>3, <1>4, <1>5 DEF ChoiceCall, CallRec
  <1>7. MemberCall \in CallRec(adapted) /\ MemberCall.node = Top.node /\ MemberCall.layer = Top.layer /\ MemberCall.value = Top.value
        /\ MemberCall.done = Taken /\ MemberCall.lost = Top.lost
    BY <1>1, <1>3 DEF MemberCall, CallRec
  <1> QED
    BY <1>6, <1>7 DEF Line, LayerOf

\* The next choice of a union, and the next member of a set.
LEMMA NextPartsBase == BaseInv /\ (NextChoice \/ NextMember) => BaseInv'
  <1> SUFFICES ASSUME BaseInv, NextChoice \/ NextMember PROVE BaseInv'
    OBVIOUS
  <1>1. Returning /\ UNCHANGED <<adapted, input, frames, recognised, outcome>>
    BY DEF NextChoice, NextMember, LeavingNode, Leaving
  <1>2. /\ LayerOf(Top) = Core /\ Top.value \in Arguments /\ Top.at \in Nat /\ Top = calls[Len(calls)]
        /\ Len(calls) \in Nat \ {0} /\ calls \in Seq(CallRec(adapted)) /\ Top.node \in NodesOf(adapted) /\ Closed(adapted)
    BY <1>1, ReturnFacts DEF NextChoice, NextMember, LeavingNode, Leaving
  <1>3. CASE NextChoice
    <2>1. /\ Top.node.type = "union" /\ Top.at < Len(Top.node.kids)
          /\ control' = Todo(Top.node.kids[Top.at + 1], 1, Top.value)
          /\ calls' = [calls EXCEPT ![Len(calls)] = ChoiceCall]
      BY <1>3 DEF NextChoice, LeavingNode, Child
    <2>2. Top.node.kids \in Seq(Inner(adapted, Top.node))
      BY <1>2 DEF Closed
    <2>3. Top.at + 1 \in DOMAIN Top.node.kids
      BY <1>2, <2>1, <2>2
    <2>4. Counted(ChoiceCall)
      BY <1>1, <2>1, CallsAgain, LineFacts, ReturnFacts DEF Counted, IsCore
    <2> QED
      BY <1>1, <1>2, <2>1, <2>3, <2>4, CallsAgain, RepeatedBase
  <1>4. CASE NextMember
    <2>1. /\ Top.node.type = "set" /\ Top.at < Len(Members(Top.value))
          /\ control' = Todo(Top.node.kids[1], 1, Members(Top.value)[Top.at + 1])
          /\ calls' = [calls EXCEPT ![Len(calls)] = MemberCall]
      BY <1>4 DEF NextMember, LeavingNode, Child
    <2>2. Members(Top.value)[Top.at + 1] \in {"m1", "m2"}
      <3>1. Members(Top.value) \in Seq({"m1", "m2"})
        <4>1. <<"m1", "m2">> \in Seq({"m1", "m2"}) /\ <<"m1">> \in Seq({"m1", "m2"})
          OBVIOUS
        <4> QED
          BY <4>1 DEF Members
      <3>2. Top.at + 1 \in 1..Len(Members(Top.value))
        BY <1>2, <2>1, <3>1
      <3> QED
        BY <3>1, <3>2
    <2>3. 1 \in DOMAIN Top.node.kids
      BY <1>2, <2>1, FirstKid
    <2>4. Counted(Top) /\ IsCore(Top, {"set"})
      BY <1>2, <2>1 DEF IsCore, BaseInv, Called
    <2>5. Top.value # "app"
      BY <2>4 DEF Counted
    <2>6. Counted(MemberCall)
      <3>1. Taken = Append(Top.done, control) /\ Top.done \in Seq(ValueRec) /\ control \in ValueRec
        BY <1>1, <1>4, ReturnFacts DEF NextMember, Taken
      <3>2. Len(Taken) = Len(Top.done) + 1 /\ Len(Top.done) \in Nat
        BY <3>1, Appended
      <3>3. MemberCall.at = Top.at + 1 /\ MemberCall.value = Top.value
        BY <1>1, ReturnFacts DEF MemberCall, CallRec
      <3> QED
        BY <1>1, <1>2, <2>4, <3>2, <3>3, CallsAgain DEF Counted
    <2> QED
      BY <1>1, <1>2, <2>1, <2>2, <2>3, <2>5, <2>6, CallsAgain, RepeatedBase DEF Arguments
  <1> QED
    BY <1>3, <1>4

\* Validation ends, and nothing happens after that.
LEMMA EndBase == BaseInv /\ (End \/ UNCHANGED vars) => BaseInv'
  <1> SUFFICES ASSUME BaseInv, End \/ UNCHANGED vars PROVE BaseInv'
    OBVIOUS
  <1>1. UNCHANGED <<adapted, input, calls, control, frames, recognised>>
    BY DEF End, vars
  <1>2. Path' = Path /\ Called' /\ Framed' /\ Lined(adapted, Path)'
    BY <1>1 DEF Path, BaseInv, Called, Framed, frames
  <1>3. CASE End
    <2>1. /\ outcome = "running" /\ control.task \in {"value", "error"} /\ calls = <<>>
          /\ outcome' \in Outcomes \ {"running", "unsupported"} /\ (outcome' = "delivered" => control.task = "value")
      BY <1>3 DEF End, Outcomes, IsError
    <2>2. Sorted'
      BY <1>1, <2>1 DEF BaseInv, Sorted, frames
    <2> QED
      BY <1>1, <1>2, <2>1, <2>2 DEF BaseInv, Known
  <1>4. CASE UNCHANGED vars
    BY <1>1, <1>2, <1>4 DEF BaseInv, Sorted, Known, frames, vars
  <1> QED
    BY <1>3, <1>4

\* It is so at first.
LEMMA InitBase == Init => BaseInv
  <1> SUFFICES ASSUME Init PROVE BaseInv
    OBVIOUS
  <1>1. PICK schema \in Schemas :
          /\ input \in Inputs
          /\ adapted = AdaptationOf(schema, input = "set")
          /\ calls = <<>> /\ unions = <<>> /\ choices = <<>> /\ apps = <<>>
          /\ recognised = FALSE
          /\ outcome = IF adapted.refused THEN "unsupported" ELSE "running"
          /\ control = IF adapted.refused THEN Nothing ELSE Todo(adapted.root, 1, input)
    BY DEF Init
  <1>2. Known
    BY <1>1 DEF Known
  <1>3. input \in Arguments /\ input \in {"stored", "set"}
    BY <1>1, InputsAssumption DEF Arguments
  <1>4. Called
    BY <1>1 DEF Called
  <1>5. Framed
    BY <1>1, RankZero DEF Framed
  <1>6. CASE adapted.refused
    <2>1. control = Nothing /\ outcome = "unsupported"
      BY <1>1, <1>6
    <2>2. control \in ControlRec(adapted) /\ control.task = "nothing"
      BY <2>1 DEF ControlRec, Nothing
    <2>a. /\ <<>> \in Seq(CallRec(adapted)) /\ <<>> \in Seq(UnionRec) /\ <<>> \in Seq(ChoiceRec) /\ <<>> \in Seq(BOOLEAN)
          /\ Len(<<>>) = 0
      OBVIOUS
    <2>b. outcome = "unsupported" /\ "unsupported" \in Outcomes /\ recognised \in BOOLEAN
      BY <1>1, <2>1 DEF Outcomes
    <2>3. Sorted
      <3>1. /\ calls \in Seq(CallRec(adapted)) /\ unions \in Seq(UnionRec) /\ choices \in Seq(ChoiceRec)
            /\ apps \in Seq(BOOLEAN)
        BY <1>1, <2>a
      <3>2. outcome # "running" /\ outcome # "delivered" /\ outcome \in Outcomes
        BY <2>b
      <3>3. calls = <<>> /\ control.task # "call"
        BY <1>1, <2>2
      <3> QED
        BY <2>2, <2>b, <3>1, <3>2, <3>3 DEF Sorted
    <2>4. Len(Path) = 0
      <3>1. Lines(calls) = <<>>
        BY <1>1 DEF Lines
      <3>2. Path = Lines(calls)
        BY <2>2 DEF Path, PathOf
      <3> QED
        BY <2>a, <3>1, <3>2
    <2>5. Lined(adapted, Path)
      BY <2>4 DEF Lined
    <2> QED
      BY <1>2, <1>4, <1>5, <2>3, <2>5 DEF BaseInv
  <1>7. CASE ~adapted.refused
    <2>1. outcome = "running" /\ control = Todo(adapted.root, 1, input) /\ Closed(adapted)
      BY <1>1, <1>2, <1>7, SchemaFacts
    <2>2. adapted.root \in NodesOf(adapted)
      BY DEF NodesOf
    <2>3. /\ control \in TaskRec(adapted) /\ control.task = "call" /\ Line(control) \in LineRec(adapted)
          /\ Line(control).layer = 1 /\ Line(control).node = adapted.root
      BY <1>3, <2>1, <2>2, TodoType
    <2>a. <<>> \in Seq(CallRec(adapted)) /\ <<>> \in Seq(UnionRec) /\ <<>> \in Seq(ChoiceRec) /\ <<>> \in Seq(BOOLEAN)
      OBVIOUS
    <2>b. control \in ControlRec(adapted)
      BY <2>3 DEF ControlRec
    <2>4. Sorted
      BY <1>1, <2>1, <2>3, <2>a, <2>b DEF Sorted, Outcomes
    <2>5. Lines(calls) = <<>>
      BY <1>1 DEF Lines
    <2>6. Path = Append(<<>>, Line(control))
      BY <2>3, <2>5 DEF Path, PathOf
    <2>7. Lined(adapted, <<>>)
      <3>1. Len(<<>>) = 0
        OBVIOUS
      <3> QED
        BY <3>1 DEF Lined
    <2>8. Shielded(Line(control)) /\ Line(control).layer <= Len(Line(control).node.layers) + 1
      BY <2>1, <2>2, <2>3, LayerFacts DEF Shielded
    <2>9. Lined(adapted, Path)
      <3>1. <<>> \in Seq(LineRec(adapted)) /\ Len(<<>>) = 0
        OBVIOUS
      <3>2. (\A i \in 1..0 : FALSE) /\ (\A l \in 1..(Line(control).layer - 1) : FALSE)
        BY <2>3
      <3> QED
        BY <2>3, <2>6, <2>7, <2>8, <3>1, <3>2, LinedNext
    <2> QED
      BY <1>2, <1>4, <1>5, <2>4, <2>9 DEF BaseInv
  <1> QED
    BY <1>6, <1>7

\* Every step keeps it.
LEMMA NextBase == BaseInv /\ [Next]_vars => BaseInv'
  BY CallLayerBase, ShieldBase, CallNodeBase, CallThroughBase, CallReferenceBase, CallPartsBase, CallApplicationBase,
     LeaveLayerBase, EndPartsBase, LeaveApplicationBase, NextPartsBase, EndBase DEF Next, Ended

\* The frames are those of the calls that run.
LEMMA BaseTypes == BaseInv => TypeOK
  <1> SUFFICES ASSUME BaseInv PROVE TypeOK
    OBVIOUS
  <1>1. calls \in Seq(CallRec(adapted)) /\ control \in ControlRec(adapted) /\ outcome \in Outcomes /\ (outcome # "running" => calls = <<>>)
    BY DEF BaseInv, Sorted
  <1>2. DOMAIN calls = 1..Len(calls)
    BY <1>1
  <1>3. \A layer : CallsOf(layer) = Rank(calls, layer, Len(calls))
    BY <1>2 DEF CallsOf, Rank, LayerOf
  <1>4. control.task \in {"call", "value", "error", "nothing"}
    BY <1>1 DEF ControlRec, TaskRec, ValueRec, ErrorRec, Nothing
  <1> QED
    BY <1>1, <1>3, <1>4 DEF TypeOK, BaseInv, Framed, Outcomes

\* What is always so.
LEMMA AlwaysBase == Spec => []BaseInv
  BY InitBase, NextBase, PTL DEF Spec

\* The types of the variables; and the frames of unions, choices and applications are those of
\* the calls that run, also when errors leave them: TypeOK of CanonicalValidation.
THEOREM TypeCorrect == Spec => []TypeOK
  BY AlwaysBase, BaseTypes, PTL


-----------------------------------------------------------------------------
(* What steps do to the calls that run. *)

CallStep == CallLayer \/ Shield \/ CallNode \/ CallThrough \/ CallReference \/ CallParts \/ CallApplication
LayerStep == LeaveRetry \/ LeaveGuard \/ LeaveRecord \/ LeaveChoice \/ LeaveUnion \/ LeaveMapping
CoreStep == EndUnion \/ EndSet \/ LeaveApplication
AgainStep == NextChoice \/ NextMember

\* Calls add at most one, that has done nothing.
LEMMA CallStepCalls ==
  ASSUME BaseInv, CallStep
  PROVE  /\ outcome = "running" /\ control.task = "call" /\ UNCHANGED <<adapted, input, recognised, outcome>>
         /\ \E k \in Nat : calls' = calls \/ calls' = Append(calls, Call(k))
         /\ \A i \in 1..Len(calls') :
              \/ i \in 1..Len(calls) /\ calls'[i] = calls[i]
              \/ i = Len(calls) + 1 /\ \E k \in Nat : calls'[i] = Call(k)
  <1>1. outcome = "running" /\ control.task = "call" /\ UNCHANGED <<adapted, input, recognised, outcome>>
    BY DEF CallStep, CallLayer, Shield, CallNode, CallThrough, CallReference, CallParts, CallApplication, CallingNode, Calling
  <1>2. 0 \in Nat /\ 1 \in Nat
    OBVIOUS
  <1>3. calls' = calls \/ calls' = Append(calls, Call(0)) \/ calls' = Append(calls, Call(1))
    BY DEF CallStep, CallLayer, Shield, CallNode, CallThrough, CallReference, CallParts, CallApplication
  <1>4. PICK k \in Nat : calls' = calls \/ calls' = Append(calls, Call(k))
    BY <1>2, <1>3
  <1>5. calls \in Seq(CallRec(adapted)) /\ Call(k) \in CallRec(adapted)
    BY <1>1, CallFacts, CallType
  <1>6. CASE calls' = calls
    BY <1>1, <1>4, <1>6
  <1>7. CASE calls' = Append(calls, Call(k))
    <2>1. /\ Len(calls') = Len(calls) + 1 /\ Len(calls) \in Nat
          /\ \A i \in 1..Len(calls) : calls'[i] = calls[i]
          /\ calls'[Len(calls) + 1] = Call(k)
      BY <1>5, <1>7, Appended
    <2>2. \A i \in 1..Len(calls') : i \in 1..Len(calls) \/ i = Len(calls) + 1
      BY <2>1
    <2> QED
      BY <1>1, <1>4, <2>1, <2>2
  <1> QED
    BY <1>4, <1>6, <1>7

\* Returns take the innermost call.
LEMMA ReturnStepCalls ==
  ASSUME BaseInv, LayerStep \/ CoreStep
  PROVE  /\ Returning /\ UNCHANGED <<adapted, input, outcome>> /\ calls' = Front(calls)
         /\ Len(calls') = Len(calls) - 1 /\ Len(calls) \in Nat \ {0} /\ Top = calls[Len(calls)]
         /\ \A i \in 1..Len(calls') : i \in 1..Len(calls) /\ i < Len(calls) /\ calls'[i] = calls[i]
         /\ \A i \in 1..Len(calls') : \A layer : Rank(calls', layer, i) = Rank(calls, layer, i)
  <1>1. Returning /\ UNCHANGED <<adapted, input, outcome>> /\ calls' = Front(calls)
    BY DEF LayerStep, CoreStep, LeaveRetry, LeaveGuard, LeaveRecord, LeaveChoice, LeaveUnion, LeaveMapping, EndUnion, EndSet,
           LeaveApplication, LeavingNode, Leaving
  <1>2. /\ calls \in Seq(CallRec(adapted)) /\ calls # <<>> /\ Len(calls) \in Nat \ {0} /\ Top = calls[Len(calls)]
        /\ Len(Front(calls)) = Len(calls) - 1 /\ \A i \in 1..(Len(calls) - 1) : Front(calls)[i] = calls[i]
    BY <1>1, ReturnFacts
  <1>3. \A layer : \A i \in 1..(Len(calls) - 1) : Rank(Front(calls), layer, i) = Rank(calls, layer, i)
    BY <1>2, RankPopped
  <1>4. \A i \in 1..(Len(calls) - 1) : i \in 1..Len(calls) /\ i < Len(calls)
    BY <1>2
  <1> QED
    BY <1>1, <1>2, <1>3, <1>4

\* A union or a set that calls again is the innermost call, and remembers what it has taken.
LEMMA AgainStepCalls ==
  ASSUME BaseInv, AgainStep
  PROVE  /\ Returning /\ UNCHANGED <<adapted, input, frames, recognised, outcome>> /\ LayerOf(Top) = Core
         /\ Top.node.type \in {"union", "set"} /\ control'.task = "call"
         /\ Len(calls') = Len(calls) /\ Len(calls) \in Nat \ {0} /\ Top = calls[Len(calls)]
         /\ \A i \in 1..Len(calls) : i < Len(calls) => calls'[i] = calls[i]
         /\ calls'[Len(calls)].value = Top.value /\ calls'[Len(calls)].done = Taken /\ calls'[Len(calls)].node = Top.node
         /\ calls'[Len(calls)].lost = (Top.lost \/ (NextChoice /\ IsError /\ control.lost))
         /\ LayerOf(calls'[Len(calls)]) = LayerOf(Top)
  <1>1. /\ Returning /\ UNCHANGED <<adapted, input, frames, recognised, outcome>>
        /\ LayerAt(Top.node, Top.layer) = Core /\ Top.node.type \in {"union", "set"}
    BY DEF AgainStep, NextChoice, NextMember, LeavingNode, Leaving
  <1>2. control'.task = "call"
    BY DEF AgainStep, NextChoice, NextMember, Child, Todo
  <1>3. /\ calls \in Seq(CallRec(adapted)) /\ Len(calls) \in Nat \ {0} /\ Top = calls[Len(calls)] /\ LayerOf(Top) = LayerAt(Top.node, Top.layer)
        /\ Top.lost \in BOOLEAN
    BY <1>1, ReturnFacts
  <1>4. /\ ChoiceCall \in CallRec(adapted) /\ Line(ChoiceCall) = Line(Top) /\ ChoiceCall.done = Taken
        /\ ChoiceCall.lost = (Top.lost \/ (IsError /\ control.lost)) /\ LayerOf(ChoiceCall) = LayerOf(Top)
        /\ MemberCall \in CallRec(adapted) /\ Line(MemberCall) = Line(Top) /\ MemberCall.done = Taken
        /\ MemberCall.lost = Top.lost /\ LayerOf(MemberCall) = LayerOf(Top)
    BY <1>1, CallsAgain
  <1>5. ChoiceCall.value = Top.value /\ MemberCall.value = Top.value /\ ChoiceCall.node = Top.node /\ MemberCall.node = Top.node
    BY <1>4 DEF Line
  <1>6. Len(calls) \in 1..Len(calls)
    BY <1>3
  <1>7. CASE NextChoice
    <2>1. calls' = [calls EXCEPT ![Len(calls)] = ChoiceCall]
      BY <1>7 DEF NextChoice
    <2>2. /\ Len(calls') = Len(calls)
          /\ \A j \in 1..Len(calls) : calls'[j] = IF j = Len(calls) THEN ChoiceCall ELSE calls[j]
      BY <1>3, <1>4, <1>6, <2>1, Changed
    <2> QED
      BY <1>1, <1>2, <1>3, <1>4, <1>5, <1>6, <1>7, <2>2
  <1>8. CASE NextMember
    <2>1. calls' = [calls EXCEPT ![Len(calls)] = MemberCall]
      BY <1>8 DEF NextMember
    <2>2. /\ Len(calls') = Len(calls)
          /\ \A j \in 1..Len(calls) : calls'[j] = IF j = Len(calls) THEN MemberCall ELSE calls[j]
      BY <1>3, <1>4, <1>6, <2>1, Changed
    <2>3. ~NextChoice
      BY <1>8 DEF NextChoice, NextMember, LeavingNode
    <2> QED
      BY <1>1, <1>2, <1>3, <1>4, <1>5, <1>6, <2>2, <2>3
  <1> QED
    BY <1>7, <1>8 DEF AgainStep

\* What layers return.
LEMMA LayerResult ==
  ASSUME LayerStep
  PROVE  control' \in {control, Gives("stored"), Error("invariant", control.lost)}
  <1>1. CASE LeaveRetry
    BY <1>1 DEF LeaveRetry
  <1>2. CASE LeaveGuard
    BY <1>2 DEF LeaveGuard
  <1>3. CASE LeaveRecord
    BY <1>3 DEF LeaveRecord
  <1>4. CASE LeaveChoice
    BY <1>4 DEF LeaveChoice
  <1>5. CASE LeaveUnion
    BY <1>5 DEF LeaveUnion
  <1>6. CASE LeaveMapping
    BY <1>6 DEF LeaveMapping
  <1> QED
    BY <1>1, <1>2, <1>3, <1>4, <1>5, <1>6 DEF LayerStep

\* What functions of the application return.
LEMMA ApplicationResult ==
  ASSUME LeaveApplication
  PROVE  \/ IsError /\ control' = control
         \/ control' \in Exceptions
         \/ control' = Value("app", TRUE, control.lost) /\ (IsError => Top.node.type = "wrap")
         \/ control' = Error("validation", control.lost) /\ IsError /\ Top.node.type = "wrap"
         \/ /\ ~IsError
            /\ control' = Value(control.value, TRUE, control.lost \/ (Top.value = "set" /\ control.value = "smaller" /\ Top.node.type = "before"))
  BY DEF LeaveApplication

\* What returns is a value or an error.
LEMMA ReturnedTask ==
  ASSUME BaseInv, LayerStep \/ CoreStep
  PROVE  control.task \in {"value", "error"} /\ control'.task \in {"value", "error"}
  <1>1. Returning
    BY ReturnStepCalls
  <1>2. control.task \in {"value", "error"}
    BY <1>1 DEF Returning
  <1>3. \A v, app, lost : Value(v, app, lost).task = "value" /\ Gives(v).task = "value"
    BY DEF Value, Gives
  <1>4. \A kind, lost : Error(kind, lost).task = "error"
    BY DEF Error
  <1>5. CASE LayerStep
    BY <1>2, <1>3, <1>4, <1>5, LayerResult
  <1>6. CASE EndUnion
    <2>1. \A r \in ToSet(Taken) : r.task = "value"
      BY <1>1, TakenType DEF ValueRec
    <2> QED
      BY <1>2, <1>4, <1>6, <2>1 DEF EndUnion
  <1>7. CASE EndSet
    <2>1. control' = control \/ \E v, app, lost : control' = Value(v, app, lost)
      BY <1>7, Zenon DEF EndSet
    <2> QED
      BY <1>2, <1>3, <2>1
  <1>8. CASE LeaveApplication
    <2>1. \A e \in Exceptions : e.task = "error"
      BY <1>4 DEF Exceptions
    <2>2. \/ control' = control \/ control' \in Exceptions
          \/ (\E v, app, lost : control' = Value(v, app, lost))
          \/ (\E kind, lost : control' = Error(kind, lost))
      BY <1>8, ApplicationResult, Zenon
    <2> QED
      BY <1>2, <1>3, <1>4, <2>1, <2>2
  <1> QED
    BY <1>5, <1>6, <1>7, <1>8 DEF CoreStep

-----------------------------------------------------------------------------
(* A stored value: no set is involved, and nothing is lost. *)

PlainValue(v) == v.value \in {"stored", "alike", "app"} /\ ~v.lost
PlainTask(t) ==
  CASE t.task = "call" -> t.value \in {"stored", "app"}
    [] t.task = "value" -> PlainValue(t)
    [] t.task = "error" -> ~t.lost
    [] OTHER -> TRUE
PlainCall(c) == c.value \in {"stored", "app"} /\ ~c.lost /\ \A k \in DOMAIN c.done : PlainValue(c.done[k])
Plain == input = "stored" => PlainTask(control) /\ \A i \in 1..Len(calls) : PlainCall(calls[i])

\* Tasks of each kind.
LEMMA PlainTasks ==
  /\ \A n, l, v : v \in {"stored", "app"} => PlainTask(Todo(n, l, v))
  /\ \A v, app, lost : v \in {"stored", "alike", "app"} /\ ~lost => PlainTask(Value(v, app, lost))
  /\ \A kind, lost : ~lost => PlainTask(Error(kind, lost))
  BY DEF PlainTask, PlainValue, Todo, Value, Error

\* Calls pass plain values on.
LEMMA PlainCalls == BaseInv /\ Plain /\ CallStep => Plain'
  <1> SUFFICES ASSUME BaseInv, Plain, CallStep, input' = "stored"
               PROVE  PlainTask(control') /\ \A i \in 1..Len(calls') : PlainCall(calls'[i])
    BY DEF Plain
  <1>1. /\ outcome = "running" /\ control.task = "call" /\ input = "stored"
        /\ \A i \in 1..Len(calls') :
              \/ i \in 1..Len(calls) /\ calls'[i] = calls[i]
              \/ i = Len(calls) + 1 /\ \E k \in Nat : calls'[i] = Call(k)
    BY CallStepCalls
  <1>2. control.value \in {"stored", "app"} /\ \A i \in 1..Len(calls) : PlainCall(calls[i])
    BY <1>1 DEF Plain, PlainTask
  <1>3. \A k \in Nat : PlainCall(Call(k))
    <2> TAKE k \in Nat
    <2>1. Call(k).value = control.value /\ Call(k).done = <<>> /\ Call(k).lost = FALSE
      BY <1>1, CallType
    <2> QED
      BY <1>2, <2>1 DEF PlainCall
  <1>4. \A i \in 1..Len(calls') : PlainCall(calls'[i])
    BY <1>1, <1>2, <1>3
  <1>5. control.value \notin {"set", "smaller", "m1", "m2"}
    BY <1>2
  <1>6. PlainTask(Wrapped)
    BY <1>2, PlainTasks DEF Wrapped
  <1>7. PlainTask(Error("invariant", FALSE)) /\ PlainTask(Error("validation", FALSE)) /\ PlainTask(Error("other", FALSE)) /\ PlainTask(Fails)
    BY PlainTasks DEF Fails
  <1>8. \A n : PlainTask(Todo(n, 1, control.value)) /\ PlainTask(Todo(n, 1, "app"))
    BY <1>2, PlainTasks
  <1>9. \A app : PlainTask(Value(control.value, app, FALSE)) /\ PlainTask(Value("app", app, FALSE)) /\ PlainTask(Value("alike", app, FALSE))
    BY <1>2, PlainTasks
  <1>10. PlainTask(control')
    <2>1. CASE CallLayer
      BY <1>6, <2>1 DEF CallLayer
    <2>2. CASE Shield
      BY <1>6, <1>7, <2>2 DEF Shield
    <2>3. CASE CallNode
      <3>1. control' \in Results(node.type, control.value)
        BY <2>3 DEF CallNode
      <3>2. control' \in {Gives(control.value), Gives("alike"), Fails}
        BY <1>2, <3>1 DEF Results
      <3> QED
        BY <1>7, <1>9, <3>2 DEF Gives
    <2>4. CASE CallThrough
      BY <1>8, <2>4 DEF CallThrough
    <2>5. CASE CallReference
      BY <1>7, <1>8, <2>5 DEF CallReference
    <2>6. CASE CallParts
      BY <1>5, <1>8, <2>6 DEF CallParts
    <2>7. CASE CallApplication
      <3>1. Supplies(control.value) \subseteq {control.value, "app"}
        BY <1>5 DEF Supplies
      <3> QED
        BY <1>7, <1>8, <1>9, <2>7, <3>1 DEF CallApplication, Exceptions
    <2> QED
      BY <2>1, <2>2, <2>3, <2>4, <2>5, <2>6, <2>7 DEF CallStep
  <1> QED
    BY <1>4, <1>10

\* What a union or a set has taken is plain.
LEMMA PlainTaken ==
  ASSUME BaseInv, Plain, Returning, input = "stored"
  PROVE  /\ \A k \in DOMAIN Taken : PlainValue(Taken[k])
         /\ \A r \in ToSet(Taken) : PlainValue(r) /\ PlainTask(r)
         /\ Top.value \in {"stored", "app"} /\ ~Top.lost /\ ~control.lost
  <1>1. Top = calls[Len(calls)] /\ Len(calls) \in 1..Len(calls)
    BY ReturnFacts
  <1>2. PlainCall(Top)
    BY <1>1 DEF Plain
  <1>3. ~IsError => control.task = "value"
    BY DEF Returning, IsError
  <1>4. (~IsError => PlainValue(control)) /\ ~control.lost
    BY <1>3 DEF Plain, PlainTask, PlainValue, IsError
  <1>5. \A k \in DOMAIN Taken : PlainValue(Taken[k])
    BY <1>2, <1>4, TakenType DEF PlainCall
  <1>6. \A r \in ToSet(Taken) : PlainValue(r) /\ r.task = "value"
    BY <1>5, TakenType DEF ValueRec
  <1> QED
    BY <1>2, <1>4, <1>5, <1>6 DEF PlainCall, PlainTask

\* Plain values are returned.
LEMMA PlainReturns == BaseInv /\ Plain /\ (LayerStep \/ CoreStep) => Plain'
  <1> SUFFICES ASSUME BaseInv, Plain, LayerStep \/ CoreStep, input' = "stored"
               PROVE  PlainTask(control') /\ \A i \in 1..Len(calls') : PlainCall(calls'[i])
    BY DEF Plain
  <1>1. /\ Returning /\ input = "stored"
        /\ \A i \in 1..Len(calls') : i \in 1..Len(calls) /\ calls'[i] = calls[i]
        /\ Top = calls[Len(calls)] /\ Len(calls) \in 1..Len(calls)
    BY ReturnStepCalls
  <1>2. \A i \in 1..Len(calls') : PlainCall(calls'[i])
    BY <1>1 DEF Plain
  <1>3. PlainTask(control) /\ ~control.lost
    BY <1>1, PlainTaken DEF Plain
  <1>4. \A kind : PlainTask(Error(kind, control.lost))
    BY <1>3, PlainTasks
  <1>5. PlainTask(Gives("stored"))
    BY PlainTasks DEF Gives
  <1>6. CASE LayerStep
    <2>1. control' \in {control, Gives("stored"), Error("invariant", control.lost)}
      BY <1>6, LayerResult
    <2> QED
      BY <1>2, <1>3, <1>4, <1>5, <2>1
  <1>7. CASE EndUnion
    <2>1. ~(Top.lost \/ control.lost) /\ \A r \in ToSet(Taken) : PlainTask(r)
      BY <1>1, PlainTaken
    <2>2. \A kind : PlainTask(Error(kind, Top.lost \/ control.lost))
      BY <2>1, PlainTasks
    <2> QED
      BY <1>2, <1>3, <1>7, <2>1, <2>2 DEF EndUnion
  <1>8. CASE EndSet
    <2>1. IsCore(Top, {"set"}) /\ Counted(Top)
      BY <1>1, <1>8, ReturnFacts DEF EndSet, LeavingNode, Leaving, IsCore, BaseInv, Called
    <2>2. Top.value \in {"stored", "app"}
      BY <1>1, PlainTaken
    <2> QED
      BY <2>1, <2>2 DEF Counted
  <1>9. CASE LeaveApplication
    <2>1. Top.value # "set"
      BY <1>1, PlainTaken
    <2>2. PlainTask(Value("app", TRUE, control.lost))
      BY <1>3, PlainTasks
    <2>3. ~IsError => control.value \in {"stored", "alike", "app"}
      BY <1>1, <1>3 DEF PlainTask, PlainValue, Returning, IsError
    <2>4. ~IsError => PlainTask(Value(control.value, TRUE, control.lost \/ (Top.value = "set" /\ control.value = "smaller" /\ Top.node.type = "before")))
      <3>1. ~(control.lost \/ (Top.value = "set" /\ control.value = "smaller" /\ Top.node.type = "before"))
        BY <1>3, <2>1
      <3> QED
        BY <2>3, <3>1, PlainTasks
    <2>5. \A e \in Exceptions : PlainTask(e)
      BY PlainTasks DEF Exceptions
    <2> QED
      <3>1. \/ control' = control \/ control' = Value("app", TRUE, control.lost) \/ control' \in Exceptions
            \/ control' = Error("validation", control.lost)
            \/ ~IsError /\ control' = Value(control.value, TRUE, control.lost \/ (Top.value = "set" /\ control.value = "smaller" /\ Top.node.type = "before"))
        BY <1>9 DEF LeaveApplication
      <3> QED
        BY <1>2, <1>3, <1>4, <2>2, <2>4, <2>5, <3>1
  <1> QED
    BY <1>2, <1>6, <1>7, <1>8, <1>9 DEF CoreStep

\* A union tries a choice again with its own value.
LEMMA PlainAgain == BaseInv /\ Plain /\ AgainStep => Plain'
  <1> SUFFICES ASSUME BaseInv, Plain, AgainStep, input' = "stored"
               PROVE  PlainTask(control') /\ \A i \in 1..Len(calls') : PlainCall(calls'[i])
    BY DEF Plain
  <1>1. /\ Returning /\ input = "stored" /\ LayerOf(Top) = Core
        /\ Len(calls') = Len(calls) /\ Len(calls) \in Nat \ {0} /\ Top = calls[Len(calls)]
        /\ \A i \in 1..Len(calls) : i < Len(calls) => calls'[i] = calls[i]
        /\ calls'[Len(calls)].value = Top.value /\ calls'[Len(calls)].done = Taken
        /\ calls'[Len(calls)].lost = (Top.lost \/ (NextChoice /\ IsError /\ control.lost))
    BY AgainStepCalls
  <1>2. /\ \A k \in DOMAIN Taken : PlainValue(Taken[k])
        /\ Top.value \in {"stored", "app"} /\ ~Top.lost /\ ~control.lost
    BY <1>1, PlainTaken
  <1>3. PlainCall(calls'[Len(calls)])
    BY <1>1, <1>2 DEF PlainCall
  <1>4. \A i \in 1..Len(calls') : PlainCall(calls'[i])
    BY <1>1, <1>3 DEF Plain
  <1>5. CASE NextChoice
    <2>1. control' = Todo(Top.node.kids[Top.at + 1], 1, Top.value)
      BY <1>5 DEF NextChoice, Child
    <2> QED
      BY <1>2, <1>4, <2>1, PlainTasks
  <1>6. CASE NextMember
    <2>1. IsCore(Top, {"set"}) /\ Counted(Top)
      <3>1. IsCore(Top, {"set"})
        BY <1>1, <1>6 DEF NextMember, LeavingNode, IsCore
      <3>2. Len(calls) \in 1..Len(calls)
        BY <1>1
      <3> QED
        BY <1>1, <3>1, <3>2 DEF BaseInv, Called
    <2> QED
      BY <1>2, <2>1 DEF Counted
  <1> QED
    BY <1>4, <1>5, <1>6 DEF AgainStep

\* A stored value stays so.
LEMMA AlwaysPlain == Spec => []Plain
  <1>1. Init => Plain
    <2> SUFFICES ASSUME Init, input = "stored" PROVE PlainTask(control) /\ \A i \in 1..Len(calls) : PlainCall(calls[i])
      BY DEF Plain
    <2>1. calls = <<>> /\ (control = Nothing \/ control = Todo(adapted.root, 1, input))
      BY DEF Init
    <2>2. PlainTask(Nothing)
      BY DEF PlainTask, Nothing
    <2>3. PlainTask(Todo(adapted.root, 1, "stored"))
      BY PlainTasks
    <2> QED
      BY <2>1, <2>2, <2>3
  <1>2. BaseInv /\ Plain /\ [Next]_vars => Plain'
    <2>1. ASSUME Plain, End \/ UNCHANGED vars PROVE Plain'
      <3>1. UNCHANGED <<input, calls, control>>
        BY <2>1 DEF End, vars
      <3> QED
        BY <2>1, <3>1 DEF Plain
    <2> QED
      BY <2>1, PlainCalls, PlainReturns, PlainAgain DEF Next, Ended, CallStep, LayerStep, CoreStep, AgainStep
  <1> QED
    BY <1>1, <1>2, AlwaysBase, PTL DEF Spec

-----------------------------------------------------------------------------
(* What the calls that run say of one another. *)

\* A call that runs, as a part of the line.
LEMMA InLine ==
  ASSUME BaseInv, NEW i \in 1..Len(calls)
  PROVE  /\ Closed(adapted) /\ outcome = "running" /\ Len(calls) \in Nat /\ Len(calls) <= Len(Path) /\ Len(Path) \in Nat
         /\ i \in 1..Len(Path) /\ i \in Nat \ {0}
         /\ calls[i] \in CallRec(adapted) /\ calls[i].node \in NodesOf(adapted) /\ calls[i].layer \in Nat \ {0}
         /\ calls[i].value \in Arguments
         /\ Path[i] \in LineRec(adapted)
         /\ Path[i].node = calls[i].node /\ Path[i].layer = calls[i].layer /\ Path[i].value = calls[i].value
         /\ LayerOf(Path[i]) = LayerOf(calls[i]) /\ \A types : IsCore(Path[i], types) <=> IsCore(calls[i], types)
  <1>1. calls \in Seq(CallRec(adapted)) /\ control \in ControlRec(adapted) /\ calls # <<>>
    BY DEF BaseInv, Sorted
  <1>2. outcome = "running" /\ Len(calls) \in Nat
    BY <1>1 DEF BaseInv, Sorted
  <1>3. Closed(adapted)
    BY <1>2, SchemaFacts DEF BaseInv
  <1>4. /\ Lines(calls)[i].node = calls[i].node /\ Lines(calls)[i].layer = calls[i].layer /\ Lines(calls)[i].value = calls[i].value
        /\ LayerOf(Lines(calls)[i]) = LayerOf(calls[i])
        /\ \A types : IsCore(Lines(calls)[i], types) <=> IsCore(calls[i], types)
    BY <1>1, LinesType
  <1>5. /\ PathOf(calls, control) \in Seq(LineRec(adapted)) /\ PathOf(calls, control)[i] = Lines(calls)[i]
        /\ Len(PathOf(calls, control)) = Len(calls) \/ Len(PathOf(calls, control)) = Len(calls) + 1
    BY <1>1, PathType
  <1>6. Path \in Seq(LineRec(adapted)) /\ Path[i] = Lines(calls)[i] /\ (Len(Path) = Len(calls) \/ Len(Path) = Len(calls) + 1)
    BY <1>5 DEF Path
  <1>7. Len(Path) \in Nat /\ i \in 1..Len(Path) /\ Len(calls) <= Len(Path)
    BY <1>2, <1>6
  <1>8. calls[i] \in CallRec(adapted) /\ Path[i] \in LineRec(adapted)
    BY <1>1, <1>6, <1>7
  <1>9. calls[i].node \in NodesOf(adapted) /\ calls[i].layer \in Nat \ {0} /\ calls[i].value \in Arguments
    BY <1>8 DEF CallRec
  <1> QED
    BY <1>2, <1>3, <1>4, <1>6, <1>7, <1>8, <1>9

\* The last layer of a node is its core.
LEMMA CoreLayer ==
  ASSUME BaseInv, NEW i \in 1..Len(calls)
  PROVE  /\ Len(calls[i].node.layers) \in Nat /\ calls[i].layer <= Len(calls[i].node.layers) + 1
         /\ LayerOf(calls[i]) = Core <=> calls[i].layer = Len(calls[i].node.layers) + 1
         /\ LayerOf(calls[i]) # Core => calls[i].layer \in 1..Len(calls[i].node.layers)
                                      /\ LayerOf(calls[i]) = calls[i].node.layers[calls[i].layer]
  <1>1. /\ Closed(adapted) /\ i \in 1..Len(Path) /\ Path[i].node = calls[i].node /\ Path[i].layer = calls[i].layer
        /\ calls[i].node \in NodesOf(adapted) /\ calls[i].layer \in Nat \ {0}
    BY InLine
  <1>2. calls[i].layer <= Len(calls[i].node.layers) + 1
    BY <1>1 DEF BaseInv, Lined
  <1>3. /\ Len(calls[i].node.layers) \in Nat
        /\ LayerAt(calls[i].node, calls[i].layer) = Core <=> calls[i].layer > Len(calls[i].node.layers)
        /\ calls[i].layer <= Len(calls[i].node.layers) => LayerAt(calls[i].node, calls[i].layer) = calls[i].node.layers[calls[i].layer]
    BY <1>1, LayerFacts
  <1> QED
    BY <1>1, <1>2, <1>3 DEF LayerOf

\* What is called in a core is inside its node, and is called with what that passes on.
LEMMA CoreInside ==
  ASSUME BaseInv, NEW i \in 1..Len(calls), NEW j \in 1..Len(calls), i < j, LayerOf(calls[i]) = Core
  PROVE  /\ calls[j].node \in Inner(adapted, calls[i].node)
         /\ Inner(adapted, calls[j].node) \subseteq Inner(adapted, calls[i].node)
         /\ IsCore(calls[i], {"set"}) => calls[j].value # "set"
         /\ calls[i].value = "app" => calls[j].value = "app"
  <1>1. /\ Closed(adapted) /\ i \in 1..Len(Path) /\ Path[i].node = calls[i].node /\ Path[i].layer = calls[i].layer
        /\ Path[i].value = calls[i].value /\ calls[i].node \in NodesOf(adapted)
        /\ IsCore(Path[i], {"set"}) <=> IsCore(calls[i], {"set"})
    BY InLine
  <1>2. /\ j \in 1..Len(Path) /\ Path[j].node = calls[j].node /\ Path[j].layer = calls[j].layer
        /\ Path[j].value = calls[j].value /\ calls[j].layer \in Nat
    BY InLine
  <1>3. Descends(adapted, Path[i], Path[j]) /\ Passes(Path[i], Path[j])
    BY <1>1, <1>2 DEF BaseInv, Lined
  <1>4. calls[i].layer = Len(calls[i].node.layers) + 1 /\ calls[j].layer <= Len(calls[j].node.layers) + 1 /\ Len(calls[i].node.layers) \in Nat
    BY CoreLayer
  <1>5. calls[j].node \in Inner(adapted, calls[i].node)
    <2>1. calls[j].node = calls[i].node => ~(calls[j].layer > calls[i].layer)
      BY <1>2, <1>4
    <2> QED
      BY <1>1, <1>2, <1>3, <2>1 DEF Descends
  <1> QED
    BY <1>1, <1>2, <1>3, <1>5 DEF Passes, Closed

\* What is called inside a call is inside its node, or in another layer of it.
LEMMA LayerInside ==
  ASSUME BaseInv, NEW i \in 1..Len(calls), NEW j \in 1..Len(calls), i < j
  PROVE  calls[j].node = calls[i].node \/ calls[j].node \in Inner(adapted, calls[i].node)
  <1>1. i \in 1..Len(Path) /\ Path[i].node = calls[i].node
    BY InLine
  <1>2. j \in 1..Len(Path) /\ Path[j].node = calls[j].node
    BY InLine
  <1> QED
    BY <1>1, <1>2 DEF BaseInv, Lined, Descends

\* In the core of a node, the layers of the node run.
LEMMA LayersRun ==
  ASSUME BaseInv, NEW i \in 1..Len(calls), LayerOf(calls[i]) = Core,
         NEW l \in DOMAIN calls[i].node.layers, calls[i].node.layers[l] \notin Shielding
  PROVE  \E j \in 1..(i - 1) :
           /\ j \in 1..Len(calls) /\ calls[j].node = calls[i].node /\ calls[j].value = calls[i].value
           /\ calls[j].layer = l /\ LayerOf(calls[j]) = calls[i].node.layers[l]
           /\ \A k \in (j + 1)..(i - 1) : calls[k].node = calls[i].node /\ calls[k].layer > l /\ calls[k].layer < calls[i].layer
  <1>1. /\ Closed(adapted) /\ i \in 1..Len(Path) /\ Path[i].node = calls[i].node /\ Path[i].layer = calls[i].layer
        /\ Path[i].value = calls[i].value /\ calls[i].node \in NodesOf(adapted) /\ Len(calls) \in Nat
    BY InLine
  <1>2. calls[i].layer = Len(calls[i].node.layers) + 1
    BY CoreLayer
  <1>3. calls[i].node.layers \in Seq(Layers)
    BY <1>1 DEF Closed
  <1>4. l \in 1..Len(calls[i].node.layers) /\ Len(calls[i].node.layers) \in Nat
    BY <1>3
  <1>5. l \in 1..(Path[i].layer - 1) /\ Path[i].node.layers[l] \notin Shielding
    BY <1>1, <1>2, <1>4
  <1>6. Held(Path, i, l)
    BY <1>1, <1>5 DEF BaseInv, Lined
  <1>7. PICK j \in 1..(i - 1) :
          /\ Path[j].node = Path[i].node /\ Path[j].value = Path[i].value /\ Path[j].layer = l
          /\ \A k \in (j + 1)..(i - 1) : Path[k].node = Path[i].node /\ Path[k].layer > l /\ Path[k].layer < Path[i].layer
    BY <1>6 DEF Held
  <1>8. j \in 1..Len(calls) /\ \A k \in (j + 1)..(i - 1) : k \in 1..Len(calls)
    BY <1>1
  <1>9. \A k \in 1..Len(calls) : Path[k].node = calls[k].node /\ Path[k].layer = calls[k].layer /\ Path[k].value = calls[k].value
    BY InLine
  <1>10. calls[j].node = calls[i].node /\ calls[j].layer = l /\ calls[j].value = calls[i].value
    BY <1>1, <1>7, <1>8, <1>9
  <1>11. LayerOf(calls[j]) = calls[i].node.layers[l]
    BY <1>4, <1>10 DEF LayerOf, LayerAt
  <1>12. \A k \in (j + 1)..(i - 1) : calls[k].node = calls[i].node /\ calls[k].layer > l /\ calls[k].layer < calls[i].layer
    BY <1>1, <1>7, <1>8, <1>9
  <1> QED
    BY <1>8, <1>10, <1>11, <1>12

\* The innermost layer of a node runs just before its core.
LEMMA InnermostRuns ==
  ASSUME BaseInv, NEW i \in 1..Len(calls), LayerOf(calls[i]) = Core, NEW layer, layer \notin Shielding,
         Innermost(calls[i].node, layer)
  PROVE  /\ i - 1 \in 1..Len(calls) /\ calls[i - 1].node = calls[i].node /\ calls[i - 1].value = calls[i].value
         /\ LayerOf(calls[i - 1]) = layer
  <1> DEFINE l == Len(calls[i].node.layers)
  <1>1. Closed(adapted) /\ calls[i].node \in NodesOf(adapted) /\ Len(calls) \in Nat
    BY InLine
  <1>2. calls[i].node.layers \in Seq(Layers) /\ calls[i].node.layers # <<>>
    BY <1>1 DEF Closed, Innermost
  <1>3. l \in DOMAIN calls[i].node.layers /\ calls[i].node.layers[l] = layer /\ l \in Nat
    BY <1>2 DEF Innermost
  <1>4. calls[i].layer = l + 1
    BY CoreLayer
  <1>5. PICK j \in 1..(i - 1) :
           /\ j \in 1..Len(calls) /\ calls[j].node = calls[i].node /\ calls[j].value = calls[i].value
           /\ calls[j].layer = l /\ LayerOf(calls[j]) = calls[i].node.layers[l]
           /\ \A k \in (j + 1)..(i - 1) : calls[k].node = calls[i].node /\ calls[k].layer > l /\ calls[k].layer < calls[i].layer
    <2>1. calls[i].node.layers[l] \notin Shielding
      BY <1>3
    <2> HIDE DEF l
    <2> QED
      BY <1>3, <2>1, LayersRun
  <1>6. j = i - 1
    <2> SUFFICES ASSUME j # i - 1 PROVE FALSE
      OBVIOUS
    <2>1. j + 1 \in (j + 1)..(i - 1) /\ j + 1 \in 1..Len(calls)
      BY <1>1, <1>5
    <2>2. calls[j + 1].layer > l /\ calls[j + 1].layer < l + 1 /\ calls[j + 1].layer \in Nat
      BY <1>4, <1>5, <2>1, InLine
    <2> QED
      BY <1>3, <2>2
  <1> QED
    BY <1>3, <1>5, <1>6

\* Shields keep carriers from their node.
LEMMA ShieldedCore ==
  ASSUME BaseInv, NEW i \in 1..Len(calls), LayerOf(calls[i]) = Core, Has(calls[i].node, Shielding)
  PROVE  calls[i].value \notin Carriers
  <1>1. /\ Closed(adapted) /\ i \in 1..Len(Path) /\ Path[i].node = calls[i].node /\ Path[i].layer = calls[i].layer
        /\ Path[i].value = calls[i].value /\ calls[i].node \in NodesOf(adapted)
    BY InLine
  <1>2. calls[i].layer = Len(calls[i].node.layers) + 1
    BY CoreLayer
  <1>3. calls[i].node.layers \in Seq(Layers)
    BY <1>1 DEF Closed
  <1>4. PICK l \in DOMAIN calls[i].node.layers : calls[i].node.layers[l] \in Shielding
    BY DEF Has
  <1>5. l \in 1..(Path[i].layer - 1)
    BY <1>1, <1>2, <1>3
  <1> QED
    BY <1>1, <1>4, <1>5 DEF BaseInv, Lined, Shielded

\* What a watched union calls is a choice.
LEMMA WatchedCall ==
  ASSUME BaseInv, NEW i \in 1..Len(calls), i + 1 \in 1..Len(calls), IsCore(calls[i], {"union"}), WatchesChoices(calls[i].node)
  PROVE  LayerOf(calls[i + 1]) = "choice"
  <1>1. i \in 1..Len(Path) /\ i < Len(Path) /\ IsCore(Path[i], {"union"}) /\ Path[i].node = calls[i].node
    <2>1. i \in 1..Len(Path) /\ IsCore(Path[i], {"union"}) /\ Path[i].node = calls[i].node
      BY InLine
    <2>2. i + 1 \in 1..Len(Path) /\ Len(Path) \in Nat
      BY InLine
    <2> QED
      BY <2>1, <2>2
  <1>2. LayerOf(Path[i + 1]) = LayerOf(calls[i + 1])
    BY InLine
  <1> QED
    BY <1>1, <1>2 DEF BaseInv, Lined, Watching

\* Where ranks differ, there is a call of the layer in between; and a call has a rank.
LEMMA RankGap ==
  ASSUME NEW c, NEW layer, NEW i \in Nat, NEW k \in Nat, i <= k
  PROVE  /\ Rank(c, layer, i) # Rank(c, layer, k) => \E j \in (i + 1)..k : LayerOf(c[j]) = layer
         /\ \A j \in (i + 1)..k : LayerOf(c[j]) = layer => Rank(c, layer, i) < Rank(c, layer, k)
  <1>1. ASSUME \A j \in (i + 1)..k : LayerOf(c[j]) # layer PROVE Rank(c, layer, i) = Rank(c, layer, k)
    <2>1. {j \in 1..i : LayerOf(c[j]) = layer} = {j \in 1..k : LayerOf(c[j]) = layer}
      BY <1>1
    <2> QED
      BY <2>1 DEF Rank
  <1>2. ASSUME NEW j \in (i + 1)..k, LayerOf(c[j]) = layer PROVE Rank(c, layer, i) < Rank(c, layer, k)
    <2>1. j \in Nat /\ i < j /\ j <= k
      OBVIOUS
    <2>2. Rank(c, layer, i) < Rank(c, layer, j)
      BY <1>2, <2>1, RankBelow
    <2>3. Rank(c, layer, j) <= Rank(c, layer, k) /\ Rank(c, layer, j) \in Nat /\ Rank(c, layer, i) \in Nat /\ Rank(c, layer, k) \in Nat
      BY <2>1, RankMono
    <2> QED
      BY <2>2, <2>3
  <1> QED
    BY <1>1, <1>2

\* A layer that runs has pushed its frame.
LEMMA FrameOfCall ==
  ASSUME BaseInv, NEW i \in 1..Len(calls)
  PROVE  /\ \A layer : Rank(calls, layer, i) \in Nat /\ Rank(calls, layer, i) <= Rank(calls, layer, Len(calls))
         /\ \A layer : LayerOf(calls[i]) = layer => Rank(calls, layer, i) \in 1..Rank(calls, layer, Len(calls))
         /\ LayerOf(calls[i]) = "union" => unions # <<>> /\ Rank(calls, "union", i) \in 1..Len(unions)
         /\ LayerOf(calls[i]) = "choice" => choices # <<>> /\ Rank(calls, "choice", i) \in 1..Len(choices)
         /\ LayerOf(calls[i]) = "record" => apps # <<>> /\ Rank(calls, "record", i) \in 1..Len(apps)
  <1>1. Len(calls) \in Nat /\ i \in Nat /\ i <= Len(calls) /\ 0 \in Nat /\ 0 <= i /\ 0 < i
    BY InLine
  <1>2. \A layer : Rank(calls, layer, i) \in Nat /\ Rank(calls, layer, i) <= Rank(calls, layer, Len(calls)) /\ Rank(calls, layer, Len(calls)) \in Nat
    BY <1>1, RankMono
  <1>3. \A layer : LayerOf(calls[i]) = layer => 0 < Rank(calls, layer, i)
    <2> TAKE layer
    <2>1. LayerOf(calls[i]) = layer => Rank(calls, layer, 0) < Rank(calls, layer, i)
      BY <1>1, RankBelow
    <2> QED
      BY <2>1, RankZero
  <1>4. \A layer : LayerOf(calls[i]) = layer => Rank(calls, layer, i) \in 1..Rank(calls, layer, Len(calls))
    BY <1>2, <1>3
  <1>5. unions \in Seq(UnionRec) /\ choices \in Seq(ChoiceRec) /\ apps \in Seq(BOOLEAN)
    BY DEF BaseInv, Sorted
  <1>6. (unions = <<>> => Len(unions) = 0) /\ (choices = <<>> => Len(choices) = 0) /\ (apps = <<>> => Len(apps) = 0)
    OBVIOUS
  <1> QED
    BY <1>2, <1>4, <1>6 DEF BaseInv, Framed

-----------------------------------------------------------------------------
(* A set: what is known of one that lost a member. *)

\* Has the last choice, or have the applications, been told of a violation?
ChoiceViolated == choices # <<>> /\ choices[Len(choices)].violation
AppsViolated == \E k \in 1..Len(apps) : apps[k]

\* Only in a node that something inside may shrink is a set smaller.
Shrinks(a, c) == LayerOf(c) = Core => \E m \in Inner(a, c.node) : Shrinking(m)
Smaller ==
  /\ control.task = "value" /\ control.value = "smaller" => \A i \in 1..Len(calls) : Shrinks(adapted, calls[i])
  /\ \A i, j \in 1..Len(calls) : i <= j =>
       \A k \in DOMAIN calls[j].done : calls[j].done[k].value = "smaller" => Shrinks(adapted, calls[i])

\* A violation is told to the last choice only, and its calls have returned to that choice
\* before a union takes another one.
ChoicesMarked ==
  /\ \A k \in 1..Len(choices) : k < Len(choices) => ~choices[k].violation
  /\ ChoiceViolated =>
       /\ control.task # "call"
       /\ \A i \in 1..Len(calls) : IsCore(calls[i], {"union", "set"}) => Rank(calls, "choice", i) < Len(choices)

\* Outside choices, it is told to all applications, and no union could take anything else.
AppsMarked ==
  AppsViolated =>
    /\ choices = <<>> /\ control.task # "call" /\ \A k \in 1..Len(apps) : apps[k]
    /\ \A i \in 1..Len(calls) : ~IsCore(calls[i], {"union", "set"}) /\ (IsCore(calls[i], {"wrap"}) => Innermost(calls[i].node, "record"))

\* Where a set lost a member: a guard is about to see that; or the choice in which it did, and
\* every function around that could catch its error, is told; or all applications are; or
\* nothing can catch the error.
NoWrap == \A i \in 1..Len(calls) : ~IsCore(calls[i], {"wrap"})
Pending ==
  /\ control.task = "value" /\ control.value = "smaller"
  /\ \E g \in 1..Len(calls) :
       /\ LayerOf(calls[g]) = "guard" /\ calls[g].value = "set"
       /\ \A k \in (g + 1)..Len(calls) : LayerOf(calls[k]) = "record"
ChoiceTold == ChoiceViolated /\ \A i \in 1..Len(calls) : IsCore(calls[i], {"wrap"}) => Rank(calls, "choice", i) = Len(choices)
Noticed ==
  control.task \in {"value", "error"} /\ control.lost =>
    Pending \/ ChoiceTold \/ AppsViolated \/ (control.task = "error" /\ NoWrap)

\* What unions and sets remember.
LostBelow == \A i \in 1..Len(calls) : calls[i].lost => \A j \in 1..i : ~IsCore(calls[j], {"wrap"})
DoneKept == \A i \in 1..Len(calls) : \A k \in DOMAIN calls[i].done : ~calls[i].done[k].lost

SetsInv == input = "set" => Smaller /\ ChoicesMarked /\ AppsMarked /\ Noticed /\ LostBelow /\ DoneKept

\* What is known of schemas that guard sets.
LEMMA GuardFacts ==
  ASSUME SetsWatched, BaseInv, outcome = "running", input = "set"
  PROVE  Closed(adapted) /\ Placed(adapted) /\ Guards(adapted) /\ NothingSwallowed(adapted) /\ BeforeGuarded(adapted)
  <1>1. PICK s \in Schemas : adapted = AdaptationOf(s, input = "set") /\ ~adapted.refused
    BY DEF BaseInv, Known
  <1>2. (input = "set") = TRUE
    OBVIOUS
  <1>3. adapted = AdaptationOf(s, TRUE)
    BY <1>1, <1>2
  <1>4. NothingSwallowed(adapted) /\ BeforeGuarded(adapted)
    BY <1>1, <1>3 DEF SetsWatched
  <1> QED
    BY <1>4, SchemaFacts DEF BaseInv

\* While calls are made, nothing has been violated.
LEMMA Unviolated ==
  ASSUME BaseInv, SetsInv, input = "set", control.task = "call" \/ (~ChoiceViolated /\ ~AppsViolated)
  PROVE  (\A k \in 1..Len(choices) : ~choices[k].violation) /\ (\A k \in 1..Len(apps) : ~apps[k])
  <1>1. ~ChoiceViolated /\ ~AppsViolated
    BY DEF SetsInv, ChoicesMarked, AppsMarked
  <1>2. choices \in Seq(ChoiceRec)
    BY DEF BaseInv, Sorted
  <1>3. \A k \in 1..Len(choices) : k < Len(choices) \/ (k = Len(choices) /\ choices # <<>>)
    BY <1>2
  <1> QED
    BY <1>1, <1>3 DEF SetsInv, ChoicesMarked, ChoiceViolated, AppsViolated

\* Calls push frames without violations.
LEMMA SetsFrames ==
  ASSUME BaseInv, SetsInv, input = "set", CallStep
  PROVE  /\ choices' \in Seq(ChoiceRec)
         /\ \A k \in 1..Len(choices') : ~choices'[k].violation
         /\ \A k \in 1..Len(apps') : ~apps'[k]
  <1>1. control.task = "call"
    BY CallStepCalls
  <1>2. (\A k \in 1..Len(choices) : ~choices[k].violation) /\ (\A k \in 1..Len(apps) : ~apps[k])
    BY <1>1, Unviolated
  <1>3. choices \in Seq(ChoiceRec) /\ apps \in Seq(BOOLEAN)
    BY DEF BaseInv, Sorted
  <1>4. choices' \in {choices, Append(choices, NewChoiceFrame)} /\ apps' \in {apps, Append(apps, FALSE)}
    BY DEF CallStep, CallLayer, Shield, CallNode, CallThrough, CallReference, CallParts, CallApplication, frames
  <1>5. NewChoiceFrame \in ChoiceRec /\ NewChoiceFrame.violation = FALSE /\ FALSE \in BOOLEAN
    BY DEF NewChoiceFrame, ChoiceRec
  <1>6. choices' \in Seq(ChoiceRec) /\ \A k \in 1..Len(choices') : ~choices'[k].violation
    <2>1. CASE choices' = choices
      BY <1>2, <1>3, <2>1
    <2>2. CASE choices' = Append(choices, NewChoiceFrame)
      <3>1. /\ choices' \in Seq(ChoiceRec) /\ Len(choices') = Len(choices) + 1 /\ Len(choices) \in Nat
            /\ \A k \in 1..Len(choices) : choices'[k] = choices[k]
            /\ choices'[Len(choices) + 1] = NewChoiceFrame
        BY <1>3, <1>5, <2>2, Appended
      <3>2. \A k \in 1..Len(choices') : k \in 1..Len(choices) \/ k = Len(choices) + 1
        BY <3>1
      <3> QED
        BY <1>2, <1>5, <3>1, <3>2
    <2> QED
      BY <1>4, <2>1, <2>2
  <1>7. \A k \in 1..Len(apps') : ~apps'[k]
    <2>1. CASE apps' = apps
      BY <1>2, <2>1
    <2>2. CASE apps' = Append(apps, FALSE)
      <3>1. /\ Len(apps') = Len(apps) + 1 /\ Len(apps) \in Nat
            /\ \A k \in 1..Len(apps) : apps'[k] = apps[k]
            /\ apps'[Len(apps) + 1] = FALSE
        BY <1>3, <1>5, <2>2, Appended
      <3>2. \A k \in 1..Len(apps') : k \in 1..Len(apps) \/ k = Len(apps) + 1
        BY <3>1
      <3> QED
        BY <1>2, <3>1, <3>2
    <2> QED
      BY <1>4, <2>1, <2>2
  <1> QED
    BY <1>6, <1>7

\* What is to be done is inside the nodes that run, and shields keep carriers from it.
LEMMA ControlInside ==
  ASSUME BaseInv, outcome = "running", control.task = "call", Layer = Core
  PROVE  /\ \A i \in 1..Len(calls) : LayerOf(calls[i]) = Core => node \in Inner(adapted, calls[i].node)
         /\ Has(node, Shielding) => control.value \notin Carriers
  <1>1. /\ Closed(adapted) /\ Len(calls) \in Nat /\ Len(Path) = Len(calls) + 1 /\ Path[Len(Path)] = Line(control)
        /\ Line(control).node = control.node /\ Line(control).layer = control.layer
        /\ Line(control).value = control.value /\ LayerOf(Line(control)) = Layer
        /\ control.node \in NodesOf(adapted) /\ control.layer \in Nat \ {0}
    BY CallFacts
  <1> DEFINE n == Len(Path)
  <1>2. n \in 1..Len(Path) /\ n = Len(calls) + 1
    BY <1>1
  <1>3. Path[n].layer <= Len(Path[n].node.layers) + 1 /\ Shielded(Path[n])
    BY <1>2 DEF BaseInv, Lined
  <1>4. /\ Len(node.layers) \in Nat /\ control.layer > Len(node.layers) /\ control.layer <= Len(node.layers) + 1
        /\ node.layers \in Seq(Layers)
    BY <1>1, <1>3, LayerFacts DEF node, Layer, Closed
  <1>5. ASSUME NEW i \in 1..Len(calls), LayerOf(calls[i]) = Core PROVE node \in Inner(adapted, calls[i].node)
    <2>1. i \in 1..Len(Path) /\ Path[i].node = calls[i].node /\ Path[i].layer = calls[i].layer
      BY InLine
    <2>2. i < n
      BY <1>1
    <2>3. Descends(adapted, Path[i], Path[n])
      BY <1>2, <2>1, <2>2 DEF BaseInv, Lined
    <2>4. calls[i].layer = Len(calls[i].node.layers) + 1
      BY <1>5, CoreLayer
    <2>5. node = calls[i].node => ~(control.layer > calls[i].layer)
      BY <1>1, <1>4, <2>4
    <2> QED
      BY <1>1, <2>1, <2>3, <2>5 DEF Descends, node
  <1>6. ASSUME Has(node, Shielding) PROVE control.value \notin Carriers
    <2>1. PICK l \in DOMAIN node.layers : node.layers[l] \in Shielding
      BY <1>6 DEF Has
    <2>2. l \in 1..(control.layer - 1)
      BY <1>1, <1>4
    <2>3. l \in 1..(Path[n].layer - 1) /\ Path[n].node.layers[l] \in Shielding
      BY <1>1, <2>1, <2>2 DEF node
    <2> QED
      BY <1>1, <1>3, <2>3 DEF Shielded
  <1> QED
    BY <1>5, <1>6

\* A call gives nothing that lost a member, and a smaller set only where something shrinks it.
LEMMA SetsGiven ==
  ASSUME SetsWatched, BaseInv, input = "set", CallStep
  PROVE  /\ control'.task \in {"value", "error"} => ~control'.lost
         /\ control'.task = "value" /\ control'.value = "smaller" =>
              calls' = calls /\ \A i \in 1..Len(calls) : Shrinks(adapted, calls[i])
  <1>1. outcome = "running" /\ control.task = "call"
    BY CallStepCalls
  <1>2. Guards(adapted) /\ Closed(adapted) /\ node \in NodesOf(adapted)
    BY <1>1, GuardFacts, CallFacts DEF node
  <1>3. \A n, l, v : Todo(n, l, v).task = "call"
    BY DEF Todo
  <1>4. \A kind : Error(kind, FALSE).task = "error" /\ ~Error(kind, FALSE).lost
    BY DEF Error
  <1>5. CASE CallLayer \/ CallThrough \/ CallParts
    <2>1. control'.task = "call"
      <3>1. CASE CallLayer
        BY <1>3, <3>1 DEF CallLayer, Wrapped
      <3>2. CASE CallThrough
        BY <1>3, <3>2 DEF CallThrough
      <3>3. CASE CallParts
        BY <1>3, <3>3 DEF CallParts
      <3> QED
        BY <1>5, <3>1, <3>2, <3>3
    <2> QED
      BY <2>1
  <1>6. CASE Shield \/ CallReference
    <2>1. control'.task = "call" \/ (control'.task = "error" /\ ~control'.lost)
      <3>1. CASE Shield
        BY <1>3, <1>4, <3>1 DEF Shield, Wrapped
      <3>2. CASE CallReference
        BY <1>3, <1>4, <3>2 DEF CallReference, Fails
      <3> QED
        BY <1>6, <3>1, <3>2
    <2> QED
      BY <2>1
  <1>7. CASE CallNode
    <2>1. Layer = Core /\ calls' = calls /\ control' \in Results(node.type, control.value)
      BY <1>7 DEF CallNode, CallingNode, Calling
    <2>2. \/ control' = Fails
          \/ control' \in {Gives("alike"), Gives("same")}
          \/ control' = Gives(control.value) /\ (node.type = "any" \/ control.value # "smaller")
      BY <2>1 DEF Results
    <2>3. \A v : Gives(v).task = "value" /\ ~Gives(v).lost /\ Gives(v).value = v
      BY DEF Gives, Value
    <2>4. node.type = "any" => control.value # "smaller"
      <3>1. node.type = "any" => Has(node, Shielding)
        BY <1>2 DEF Guards
      <3> QED
        BY <1>1, <2>1, <3>1, ControlInside DEF Carriers
    <2>5. Fails.task = "error" /\ ~Fails.lost
      BY <1>4 DEF Fails
    <2> QED
      BY <2>2, <2>3, <2>4, <2>5
  <1>8. CASE CallApplication
    <2>1. Layer = Core
      BY <1>8 DEF CallApplication, CallingNode, Calling
    <2>2. \/ control'.task = "call"
          \/ control'.task = "error" /\ ~control'.lost
          \/ /\ node.type \in {"plain", "wrap"} /\ calls' = calls
             /\ \E v \in Supplies(control.value) : control' = Value(v, TRUE, FALSE)
      <3>1. \/ control' = Todo(node.kids[1], 1, control.value)
            \/ \E v \in Supplies(control.value) : control' = Todo(node.kids[1], 1, v)
            \/ control' \in Exceptions
            \/ /\ node.type \in {"plain", "wrap"} /\ calls' = calls
               /\ \E v \in Supplies(control.value) : control' = Value(v, TRUE, FALSE)
        <4>1. \/ control' = Todo(node.kids[1], 1, control.value)
              \/ \E v \in Supplies(control.value) : control' = Todo(node.kids[1], 1, v)
              \/ node.type \in {"plain", "wrap"} /\ (\E v \in Supplies(control.value) : control' = Value(v, TRUE, FALSE)) /\ UNCHANGED calls
              \/ control' \in Exceptions
          BY <1>8, Zenon DEF CallApplication
        <4> QED
          BY <4>1
      <3>2. \A e \in Exceptions : e.task = "error" /\ ~e.lost
        BY <1>4 DEF Exceptions
      <3>3. CASE control' = Todo(node.kids[1], 1, control.value) \/ \E v \in Supplies(control.value) : control' = Todo(node.kids[1], 1, v)
        <4>1. PICK v : control' = Todo(node.kids[1], 1, v)
          BY <3>3
        <4> QED
          BY <1>3, <4>1
      <3> QED
        BY <3>1, <3>2, <3>3, Zenon
    <2>3. CASE /\ node.type \in {"plain", "wrap"} /\ calls' = calls
               /\ \E v \in Supplies(control.value) : control' = Value(v, TRUE, FALSE)
      <3>1. PICK v \in Supplies(control.value) : control' = Value(v, TRUE, FALSE)
        BY <2>3
      <3>2. control'.value = v /\ ~control'.lost
        BY <3>1 DEF Value
      <3>3. v = "smaller" => control.value \in Carriers
        BY DEF Supplies, Carriers
      <3>4. v = "smaller" => Shrinking(node)
        BY <1>1, <2>1, <2>3, <3>3, ControlInside DEF Shrinking
      <3>5. v = "smaller" => \A i \in 1..Len(calls) : Shrinks(adapted, calls[i])
        BY <1>1, <2>1, <3>4, ControlInside DEF Shrinks
      <3> QED
        BY <2>3, <3>2, <3>5
    <2> QED
      BY <2>2, <2>3
  <1> QED
    BY <1>5, <1>6, <1>7, <1>8 DEF CallStep

\* Calls keep what is known of sets.
LEMMA SetsCalls == SetsWatched /\ BaseInv /\ SetsInv /\ CallStep => SetsInv'
  <1> SUFFICES ASSUME SetsWatched, BaseInv, SetsInv, CallStep, input' = "set" PROVE SetsInv'
    BY DEF SetsInv
  <1>1. /\ outcome = "running" /\ control.task = "call" /\ input = "set" /\ adapted' = adapted
        /\ \A i \in 1..Len(calls') :
              \/ i \in 1..Len(calls) /\ calls'[i] = calls[i]
              \/ i = Len(calls) + 1 /\ \E k \in Nat : calls'[i] = Call(k)
    BY CallStepCalls
  <1>2. Smaller /\ LostBelow /\ DoneKept /\ Len(calls) \in Nat
    BY <1>1, CallFacts DEF SetsInv
  <1>3. \A k \in Nat : Call(k).done = <<>> /\ Call(k).lost = FALSE
    BY <1>1, CallType
  <1>4. DOMAIN <<>> = {}
    OBVIOUS
  <1>5. LostBelow'
    <2> SUFFICES ASSUME NEW i \in 1..Len(calls'), calls'[i].lost, NEW j \in 1..i PROVE ~IsCore(calls'[j], {"wrap"})
      BY DEF LostBelow
    <2>1. i \in 1..Len(calls) /\ calls'[i] = calls[i]
      BY <1>1, <1>3
    <2>2. j \in 1..Len(calls) /\ j # Len(calls) + 1 /\ j \in 1..Len(calls')
      BY <1>2, <2>1
    <2>3. calls'[j] = calls[j]
      BY <1>1, <2>2
    <2> QED
      BY <1>2, <2>1, <2>3 DEF LostBelow
  <1>6. DoneKept'
    BY <1>1, <1>2, <1>3, <1>4 DEF DoneKept
  <1>7. Smaller'
    <2>1. ASSUME NEW i \in 1..Len(calls'), NEW j \in 1..Len(calls'), i <= j,
                 NEW k \in DOMAIN calls'[j].done, calls'[j].done[k].value = "smaller"
          PROVE  Shrinks(adapted, calls'[i])
      <3>1. j \in 1..Len(calls) /\ calls'[j] = calls[j]
        BY <1>1, <1>3, <1>4, <2>1
      <3>2. i \in 1..Len(calls) /\ i # Len(calls) + 1
        BY <1>2, <2>1, <3>1
      <3>3. calls'[i] = calls[i]
        BY <1>1, <3>2
      <3> QED
        BY <1>2, <2>1, <3>1, <3>2, <3>3 DEF Smaller
    <2>2. control'.task = "value" /\ control'.value = "smaller" => calls' = calls /\ \A i \in 1..Len(calls) : Shrinks(adapted, calls[i])
      BY <1>1, SetsGiven
    <2> QED
      BY <1>1, <2>1, <2>2 DEF Smaller
  <1>8. ChoicesMarked' /\ AppsMarked' /\ Noticed'
    <2>1. /\ choices' \in Seq(ChoiceRec)
          /\ \A k \in 1..Len(choices') : ~choices'[k].violation
          /\ \A k \in 1..Len(apps') : ~apps'[k]
      BY <1>1, SetsFrames
    <2>2. control'.task \in {"value", "error"} => ~control'.lost
      BY <1>1, SetsGiven
    <2>3. choices' # <<>> => Len(choices') \in 1..Len(choices')
      BY <2>1
    <2>4. ~ChoiceViolated' /\ ~AppsViolated'
      BY <2>1, <2>3 DEF ChoiceViolated, AppsViolated
    <2> QED
      BY <2>1, <2>2, <2>4 DEF ChoicesMarked, AppsMarked, Noticed
  <1> QED
    BY <1>5, <1>6, <1>7, <1>8 DEF SetsInv

\* When a call returns, the calls around it remember what they did.
LEMMA SetsReturned ==
  ASSUME BaseInv, SetsInv, input = "set", LayerStep \/ CoreStep,
         control'.task = "value" /\ control'.value = "smaller" =>
           \A i \in 1..Len(calls) : i < Len(calls) => Shrinks(adapted, calls[i])
  PROVE  Smaller' /\ LostBelow' /\ DoneKept'
  <1>1. /\ adapted' = adapted /\ Len(calls') = Len(calls) - 1 /\ Len(calls) \in Nat \ {0}
        /\ \A i \in 1..Len(calls') : i \in 1..Len(calls) /\ i < Len(calls) /\ calls'[i] = calls[i]
    BY ReturnStepCalls
  <1>2. Smaller /\ LostBelow /\ DoneKept
    BY DEF SetsInv
  <1>3. Smaller'
    BY <1>1, <1>2 DEF Smaller
  <1>4. LostBelow'
    <2> SUFFICES ASSUME NEW i \in 1..Len(calls'), calls'[i].lost, NEW j \in 1..i PROVE ~IsCore(calls'[j], {"wrap"})
      BY DEF LostBelow
    <2>1. j \in 1..Len(calls')
      BY <1>1
    <2> QED
      BY <1>1, <1>2, <2>1 DEF LostBelow
  <1>5. DoneKept'
    BY <1>1, <1>2 DEF DoneKept
  <1> QED
    BY <1>3, <1>4, <1>5

\* A guard that is about to see something has only records in it.
LEMMA NotPending ==
  ASSUME BaseInv, Returning, LayerOf(Top) \notin {"guard", "record"}
  PROVE  ~Pending
  <1> SUFFICES ASSUME NEW g \in 1..Len(calls), LayerOf(calls[g]) = "guard",
                      \A k \in (g + 1)..Len(calls) : LayerOf(calls[k]) = "record"
               PROVE  FALSE
    BY DEF Pending
  <1>1. Top = calls[Len(calls)] /\ Len(calls) \in Nat \ {0}
    BY ReturnFacts
  <1>2. g # Len(calls)
    BY <1>1
  <1>3. Len(calls) \in (g + 1)..Len(calls)
    BY <1>1, <1>2
  <1> QED
    BY <1>1, <1>3

\* At a union or a set, nothing is violated, and an error is all that may be lost.
LEMMA PartsUnviolated ==
  ASSUME BaseInv, SetsInv, input = "set", Returning, IsCore(Top, {"union", "set"})
  PROVE  /\ ~ChoiceViolated /\ ~AppsViolated
         /\ control.lost => IsError /\ NoWrap
         /\ Top.lost => NoWrap
         /\ \A k \in DOMAIN Taken :
              ~Taken[k].lost /\ (Taken[k].value = "smaller" => \A i \in 1..Len(calls) : Shrinks(adapted, calls[i]))
  <1>1. Top = calls[Len(calls)] /\ Len(calls) \in Nat \ {0} /\ Len(calls) \in 1..Len(calls)
    BY ReturnFacts
  <1>2. Len(choices) = Rank(calls, "choice", Len(calls)) /\ Rank(calls, "choice", Len(calls)) \in Nat
    BY <1>1, FrameOfCall DEF BaseInv, Framed
  <1>3. ~ChoiceViolated
    BY <1>1, <1>2 DEF SetsInv, ChoicesMarked
  <1>4. ~AppsViolated
    BY <1>1 DEF SetsInv, AppsMarked
  <1>5. ~Pending
    BY NotPending DEF IsCore, Core
  <1>6. control.lost => IsError /\ NoWrap
    BY <1>3, <1>4, <1>5 DEF SetsInv, Noticed, ChoiceTold, IsError, Returning
  <1>7. Top.lost => NoWrap
    BY <1>1 DEF SetsInv, LostBelow, NoWrap
  <1>8. ASSUME NEW k \in DOMAIN Taken
        PROVE  ~Taken[k].lost /\ (Taken[k].value = "smaller" => \A i \in 1..Len(calls) : Shrinks(adapted, calls[i]))
    <2>1. CASE \E j \in DOMAIN Top.done : Taken[k] = Top.done[j]
      <3>1. \A i \in 1..Len(calls) : i <= Len(calls)
        BY <1>1
      <3> QED
        BY <1>1, <2>1, <3>1 DEF SetsInv, DoneKept, Smaller
    <2>2. CASE ~IsError /\ Taken[k] = control
      <3>1. control.task = "value"
        BY <2>2 DEF Returning, IsError
      <3> QED
        BY <1>6, <2>2, <3>1 DEF SetsInv, Smaller
    <2> QED
      BY <2>1, <2>2, TakenType
  <1> QED
    BY <1>3, <1>4, <1>6, <1>7, <1>8

\* A union or a set calls again only when nothing is violated.
LEMMA SetsAgain == BaseInv /\ SetsInv /\ AgainStep => SetsInv'
  <1> SUFFICES ASSUME BaseInv, SetsInv, AgainStep, input' = "set" PROVE SetsInv'
    BY DEF SetsInv
  <1>1. /\ Returning /\ input = "set" /\ UNCHANGED <<adapted, frames>> /\ IsCore(Top, {"union", "set"}) /\ control'.task = "call"
        /\ Len(calls') = Len(calls) /\ Len(calls) \in Nat \ {0} /\ Top = calls[Len(calls)]
        /\ \A i \in 1..Len(calls) : i < Len(calls) => calls'[i] = calls[i]
        /\ calls'[Len(calls)].done = Taken /\ calls'[Len(calls)].node = Top.node
        /\ calls'[Len(calls)].lost = (Top.lost \/ (NextChoice /\ IsError /\ control.lost))
        /\ LayerOf(calls'[Len(calls)]) = LayerOf(Top)
    BY AgainStepCalls DEF IsCore
  <1>2. /\ ~ChoiceViolated /\ ~AppsViolated
        /\ control.lost => IsError /\ NoWrap
        /\ Top.lost => NoWrap
        /\ \A k \in DOMAIN Taken :
              ~Taken[k].lost /\ (Taken[k].value = "smaller" => \A i \in 1..Len(calls) : Shrinks(adapted, calls[i]))
    BY <1>1, PartsUnviolated
  <1>3. \A i \in 1..Len(calls) : /\ LayerOf(calls'[i]) = LayerOf(calls[i]) /\ calls'[i].node = calls[i].node
                                 /\ i < Len(calls) \/ i = Len(calls)
    BY <1>1
  <1>4. \A i \in 1..Len(calls) : /\ IsCore(calls'[i], {"wrap"}) <=> IsCore(calls[i], {"wrap"})
                                 /\ Shrinks(adapted, calls'[i]) <=> Shrinks(adapted, calls[i])
    BY <1>3 DEF IsCore, Shrinks
  <1>5. Smaller /\ LostBelow /\ DoneKept
    BY <1>1 DEF SetsInv
  <1>6. LostBelow'
    <2> SUFFICES ASSUME NEW i \in 1..Len(calls'), calls'[i].lost, NEW j \in 1..i PROVE ~IsCore(calls'[j], {"wrap"})
      BY DEF LostBelow
    <2>1. i \in 1..Len(calls) /\ j \in 1..Len(calls)
      BY <1>1
    <2>2. CASE i < Len(calls)
      BY <1>1, <1>4, <1>5, <2>1, <2>2 DEF LostBelow
    <2>3. CASE i = Len(calls)
      BY <1>1, <1>2, <1>4, <2>1, <2>3 DEF NoWrap
    <2> QED
      BY <1>1, <2>1, <2>2, <2>3
  <1>7. DoneKept'
    <2> SUFFICES ASSUME NEW i \in 1..Len(calls'), NEW k \in DOMAIN calls'[i].done PROVE ~calls'[i].done[k].lost
      BY DEF DoneKept
    <2>1. CASE i < Len(calls)
      BY <1>1, <1>5, <2>1 DEF DoneKept
    <2>2. CASE i = Len(calls)
      BY <1>1, <1>2, <2>2
    <2> QED
      BY <1>1, <2>1, <2>2
  <1>8. Smaller'
    <2>1. ASSUME NEW i \in 1..Len(calls'), NEW j \in 1..Len(calls'), i <= j,
                 NEW k \in DOMAIN calls'[j].done, calls'[j].done[k].value = "smaller"
          PROVE  Shrinks(adapted, calls'[i])
      <3>1. i \in 1..Len(calls) /\ j \in 1..Len(calls)
        BY <1>1
      <3>2. CASE j < Len(calls)
        BY <1>1, <1>4, <1>5, <2>1, <3>1, <3>2 DEF Smaller
      <3>3. CASE j = Len(calls)
        BY <1>1, <1>2, <1>4, <2>1, <3>1, <3>3
      <3> QED
        BY <1>1, <3>1, <3>2, <3>3
    <2> QED
      BY <1>1, <2>1 DEF Smaller
  <1>9. ~ChoiceViolated' /\ ~AppsViolated' /\ choices' = choices
    BY <1>1, <1>2 DEF ChoiceViolated, AppsViolated, frames
  <1>10. ChoicesMarked' /\ AppsMarked' /\ Noticed'
    BY <1>1, <1>9 DEF ChoicesMarked, AppsMarked, Noticed, SetsInv
  <1> QED
    BY <1>6, <1>7, <1>8, <1>10 DEF SetsInv

\* What leaves a core tells nobody of violations.
LEMMA SetsUnmarked ==
  ASSUME BaseInv, SetsInv, input = "set", CoreStep
  PROVE  /\ ChoicesMarked' /\ AppsMarked'
         /\ ChoiceViolated' = ChoiceViolated /\ AppsViolated' = AppsViolated
         /\ ChoiceTold => ChoiceTold'
         /\ NoWrap => NoWrap'
  <1>1. /\ choices' = choices /\ apps' = apps
    BY DEF CoreStep, EndUnion, EndSet, LeaveApplication, frames
  <1>2. /\ \A i \in 1..Len(calls') : i \in 1..Len(calls) /\ calls'[i] = calls[i]
        /\ \A i \in 1..Len(calls') : Rank(calls', "choice", i) = Rank(calls, "choice", i)
        /\ control'.task # "call"
    BY ReturnStepCalls, ReturnedTask
  <1>3. ChoiceViolated' = ChoiceViolated /\ AppsViolated' = AppsViolated
    BY <1>1 DEF ChoiceViolated, AppsViolated
  <1>4. ChoicesMarked /\ AppsMarked
    BY DEF SetsInv
  <1>5. ChoicesMarked'
    BY <1>1, <1>2, <1>3, <1>4 DEF ChoicesMarked
  <1>6. AppsMarked'
    BY <1>1, <1>2, <1>3, <1>4 DEF AppsMarked
  <1>7. ChoiceTold => ChoiceTold'
    BY <1>1, <1>2, <1>3 DEF ChoiceTold
  <1>8. NoWrap => NoWrap'
    BY <1>2 DEF NoWrap
  <1> QED
    BY <1>3, <1>5, <1>6, <1>7, <1>8

\* A union takes nothing that lost a member.
LEMMA SetsEndUnion == BaseInv /\ SetsInv /\ EndUnion => SetsInv'
  <1> SUFFICES ASSUME BaseInv, SetsInv, EndUnion, input' = "set" PROVE SetsInv'
    BY DEF SetsInv
  <1>1. CoreStep
    BY DEF CoreStep
  <1>2. Returning /\ input = "set" /\ IsCore(Top, {"union", "set"})
    BY <1>1, ReturnStepCalls, ReturnFacts DEF EndUnion, LeavingNode, Leaving, IsCore
  <1>3. /\ ~ChoiceViolated /\ ~AppsViolated
        /\ control.lost => IsError /\ NoWrap
        /\ Top.lost => NoWrap
        /\ \A k \in DOMAIN Taken :
              ~Taken[k].lost /\ (Taken[k].value = "smaller" => \A i \in 1..Len(calls) : Shrinks(adapted, calls[i]))
    BY <1>2, PartsUnviolated
  <1>4. ChoicesMarked' /\ AppsMarked' /\ (NoWrap => NoWrap')
    BY <1>1, <1>2, SetsUnmarked
  <1>5. \A kind, lost : Error(kind, lost).task = "error" /\ Error(kind, lost).lost = lost
    BY DEF Error
  <1>6. \/ IsError /\ control' = control
        \/ control' \in ToSet(Taken)
        \/ control' = Error(Worse(Top.kind, control.kind), Top.lost \/ control.lost)
    BY DEF EndUnion
  <1>7. CASE IsError /\ control' = control
    <2>1. control'.task = "error" /\ (control'.lost => NoWrap)
      BY <1>3, <1>7 DEF IsError
    <2>2. Smaller' /\ LostBelow' /\ DoneKept'
      BY <1>1, <1>2, <2>1, SetsReturned
    <2> QED
      BY <1>4, <2>1, <2>2 DEF SetsInv, Noticed
  <1>8. CASE control' \in ToSet(Taken)
    <2>1. PICK k \in DOMAIN Taken : control' = Taken[k]
      BY <1>2, <1>8, TakenType
    <2>2. Smaller' /\ LostBelow' /\ DoneKept'
      BY <1>1, <1>2, <1>3, <2>1, SetsReturned
    <2>3. ~control'.lost
      BY <1>3, <2>1
    <2> QED
      BY <1>4, <2>2, <2>3 DEF SetsInv, Noticed
  <1>9. CASE control' = Error(Worse(Top.kind, control.kind), Top.lost \/ control.lost)
    <2>1. control'.task = "error" /\ (control'.lost => NoWrap)
      BY <1>3, <1>5, <1>9
    <2>2. Smaller' /\ LostBelow' /\ DoneKept'
      BY <1>1, <1>2, <2>1, SetsReturned
    <2> QED
      BY <1>4, <2>1, <2>2 DEF SetsInv, Noticed
  <1> QED
    BY <1>6, <1>7, <1>8, <1>9

\* A set whose members became equal is one that a guard will see.
LEMMA SetsEndSet == SetsWatched /\ BaseInv /\ SetsInv /\ EndSet => SetsInv'
  <1> SUFFICES ASSUME SetsWatched, BaseInv, SetsInv, EndSet, input' = "set" PROVE SetsInv'
    BY DEF SetsInv
  <1>1. CoreStep
    BY DEF CoreStep
  <1>2. /\ Returning /\ input = "set" /\ IsCore(Top, {"union", "set"}) /\ IsCore(Top, {"set"}) /\ LayerOf(Top) = Core
        /\ Top.node.type = "set" /\ outcome = "running"
    BY <1>1, ReturnStepCalls, ReturnFacts DEF EndSet, LeavingNode, Leaving, IsCore, Returning
  <1>3. /\ ~ChoiceViolated /\ ~AppsViolated
        /\ control.lost => IsError /\ NoWrap
        /\ \A k \in DOMAIN Taken :
              ~Taken[k].lost /\ (Taken[k].value = "smaller" => \A i \in 1..Len(calls) : Shrinks(adapted, calls[i]))
    BY <1>2, PartsUnviolated
  <1>4. ChoicesMarked' /\ AppsMarked' /\ (NoWrap => NoWrap')
    BY <1>1, <1>2, SetsUnmarked
  <1>5. /\ Len(calls) \in 1..Len(calls) /\ Top = calls[Len(calls)] /\ Len(calls') = Len(calls) - 1
        /\ \A i \in 1..Len(calls') : i \in 1..Len(calls) /\ i < Len(calls) /\ calls'[i] = calls[i]
    BY <1>1, ReturnStepCalls
  <1>6. \A i \in 1..Len(calls) : i < Len(calls) => Shrinks(adapted, calls[i])
    <2> SUFFICES ASSUME NEW i \in 1..Len(calls), i < Len(calls), LayerOf(calls[i]) = Core
                 PROVE  \E m \in Inner(adapted, calls[i].node) : Shrinking(m)
      BY DEF Shrinks
    <2>1. Top.node \in Inner(adapted, calls[i].node)
      BY <1>5, CoreInside
    <2> QED
      BY <1>2, <2>1 DEF Shrinking
  <1>7. Smaller' /\ LostBelow' /\ DoneKept'
    BY <1>1, <1>2, <1>6, SetsReturned
  <1>8. CASE IsError /\ control' = control
    BY <1>3, <1>4, <1>7, <1>8 DEF SetsInv, Noticed, IsError
  <1>9. CASE /\ ~IsError /\ Top.at = Len(Members(Top.value))
             /\ control' = Value(IF Distinct THEN Top.value ELSE "smaller",
                                 \E i \in DOMAIN Taken : Taken[i].app,
                                 ~Distinct \/ \E i \in DOMAIN Taken : Taken[i].lost)
    <2>1. /\ control'.task = "value" /\ control'.value = (IF Distinct THEN Top.value ELSE "smaller")
          /\ control'.lost = (~Distinct \/ \E i \in DOMAIN Taken : Taken[i].lost)
      BY <1>9 DEF Value
    <2>2. CASE Distinct
      BY <1>3, <1>4, <1>7, <2>1, <2>2 DEF SetsInv, Noticed
    <2>3. CASE ~Distinct
      <3>1. Top.value = "set"
        <4>1. Counted(Top)
          BY <1>5 DEF BaseInv, Called
        <4>2. Top.value \in {"set", "smaller"} /\ Len(Top.done) + 1 = Top.at
          BY <1>2, <4>1 DEF Counted
        <4>3. ASSUME Top.value # "set" PROVE FALSE
          <5>1. Top.at = 1
            BY <1>9, <4>3 DEF Members
          <5>2. Top.done \in Seq(ValueRec) /\ Len(Top.done) = 0
            BY <1>2, <4>2, <5>1, ReturnFacts
          <5>3. Taken = Append(Top.done, control) /\ control \in ValueRec
            BY <1>2, <1>9, ReturnFacts DEF Taken
          <5>4. Len(Taken) = 1 /\ DOMAIN Taken = {1}
            BY <5>2, <5>3
          <5>5. {Taken[i].value : i \in DOMAIN Taken} = {Taken[1].value}
            BY <5>4
          <5>6. Cardinality({Taken[1].value}) = 1
            BY FS_Singleton
          <5> QED
            BY <2>3, <5>4, <5>5, <5>6 DEF Distinct
        <4> QED
          BY <4>3
      <3>2. Innermost(Top.node, "guard")
        BY <1>2, GuardFacts, ReturnFacts DEF Guards
      <3>3. "guard" \notin Shielding
        BY DEF Shielding
      <3>4. LayerOf(calls[Len(calls)]) = Core /\ Innermost(calls[Len(calls)].node, "guard")
        BY <1>2, <1>5, <3>2
      <3>5. /\ Len(calls) - 1 \in 1..Len(calls) /\ calls[Len(calls) - 1].value = calls[Len(calls)].value
            /\ LayerOf(calls[Len(calls) - 1]) = "guard"
        BY <1>5, <3>3, <3>4, InnermostRuns
      <3>6. Len(calls') \in 1..Len(calls') /\ LayerOf(calls'[Len(calls')]) = "guard" /\ calls'[Len(calls')].value = "set"
        BY <1>5, <3>1, <3>5
      <3>7. \A k \in (Len(calls') + 1)..Len(calls') : LayerOf(calls'[k]) = "record"
        BY <3>6
      <3>8. Pending'
        BY <2>1, <2>3, <3>6, <3>7 DEF Pending
      <3> QED
        BY <1>4, <1>7, <3>8 DEF SetsInv, Noticed
    <2> QED
      BY <2>2, <2>3
  <1> QED
    BY <1>8, <1>9 DEF EndSet

\* A function before a schema that shrinks sets is one whose guard is about to see that.
LEMMA BeforePending ==
  ASSUME SetsWatched, BaseInv, SetsInv, input = "set", LeaveApplication, Top.node.type = "before", Top.value = "set",
         control.task = "value", control.value = "smaller", control'.task = "value", control'.value = "smaller"
  PROVE  Pending'
  <1>1. CoreStep
    BY DEF CoreStep
  <1>2. Returning /\ LayerOf(Top) = Core /\ outcome = "running"
    BY <1>1, ReturnStepCalls, ReturnFacts DEF LeaveApplication, LeavingNode, Leaving, Returning
  <1>3. /\ Len(calls) \in 1..Len(calls) /\ Len(calls) \in Nat /\ Top = calls[Len(calls)] /\ Len(calls') = Len(calls) - 1
        /\ \A i \in 1..Len(calls') : i \in 1..Len(calls) /\ i < Len(calls) /\ calls'[i] = calls[i]
    BY <1>1, ReturnStepCalls
  <1>4. \E m \in Inner(adapted, Top.node) : Shrinking(m)
    BY <1>2, <1>3 DEF SetsInv, Smaller, Shrinks
  <1>5. ~Has(Top.node, Shielding)
    BY <1>2, <1>3, ShieldedCore DEF Carriers
  <1>6. PICK l \in DOMAIN Top.node.layers :
          Top.node.layers[l] = "guard" /\ \A j \in DOMAIN Top.node.layers : j > l => Top.node.layers[j] = "record"
    BY <1>2, <1>4, <1>5, GuardFacts, ReturnFacts DEF BeforeGuarded
  <1>7. Top.node.layers[l] \notin Shielding
    BY <1>6 DEF Shielding
  <1>8. /\ LayerOf(calls[Len(calls)]) = Core /\ l \in DOMAIN calls[Len(calls)].node.layers
        /\ calls[Len(calls)].node.layers[l] \notin Shielding
    BY <1>2, <1>3, <1>6, <1>7
  <1>9. PICK g \in 1..(Len(calls) - 1) :
           /\ g \in 1..Len(calls) /\ calls[g].node = Top.node /\ calls[g].value = Top.value
           /\ calls[g].layer = l /\ LayerOf(calls[g]) = Top.node.layers[l]
           /\ \A k \in (g + 1)..(Len(calls) - 1) : calls[k].node = Top.node /\ calls[k].layer > l /\ calls[k].layer < Top.layer
    BY <1>3, <1>8, LayersRun
  <1>10. ASSUME NEW k \in (g + 1)..(Len(calls) - 1) PROVE LayerOf(calls[k]) = "record"
    <2>1. k \in 1..Len(calls)
      BY <1>3
    <2>2. calls[k].node = Top.node /\ calls[k].layer > l /\ calls[k].layer < Top.layer
      BY <1>9
    <2>3. Top.layer = Len(Top.node.layers) + 1 /\ Len(Top.node.layers) \in Nat
      BY <1>2, <1>3, CoreLayer
    <2>4. LayerOf(calls[k]) = Core => calls[k].layer = Len(Top.node.layers) + 1
      BY <2>1, <2>2, CoreLayer
    <2>5. LayerOf(calls[k]) # Core
      BY <2>2, <2>3, <2>4
    <2>6. calls[k].layer \in 1..Len(Top.node.layers) /\ LayerOf(calls[k]) = Top.node.layers[calls[k].layer]
      BY <2>1, <2>2, <2>5, CoreLayer
    <2>7. Top.node.layers \in Seq(Layers)
      BY <1>2, <1>3, ReturnFacts DEF Closed
    <2> QED
      BY <1>6, <2>2, <2>6, <2>7
  <1>11. /\ g \in 1..Len(calls') /\ LayerOf(calls'[g]) = "guard" /\ calls'[g].value = "set"
         /\ \A k \in (g + 1)..Len(calls') : LayerOf(calls'[k]) = "record"
    <2>1. g \in 1..Len(calls') /\ calls'[g] = calls[g]
      BY <1>3
    <2>2. \A k \in (g + 1)..Len(calls') : k \in 1..Len(calls') /\ k \in (g + 1)..(Len(calls) - 1)
      BY <1>3, <2>1
    <2> QED
      BY <1>3, <1>6, <1>9, <1>10, <2>1, <2>2
  <1> QED
    BY <1>11 DEF Pending

\* A function of the application that replaces, or catches, what lost a member does so where
\* the violation is known.
LEMMA SetsApplication == SetsWatched /\ BaseInv /\ SetsInv /\ LeaveApplication => SetsInv'
  <1> SUFFICES ASSUME SetsWatched, BaseInv, SetsInv, LeaveApplication, input' = "set" PROVE SetsInv'
    BY DEF SetsInv
  <1>1. CoreStep
    BY DEF CoreStep
  <1>2. Returning /\ LayerOf(Top) = Core /\ outcome = "running" /\ input = "set" /\ control.task \in {"value", "error"}
    BY <1>1, ReturnStepCalls, ReturnFacts, ReturnedTask DEF LeaveApplication, LeavingNode, Leaving, Returning
  <1>3. /\ ChoicesMarked' /\ AppsMarked'
        /\ AppsViolated => AppsViolated'
        /\ ChoiceTold => ChoiceTold'
        /\ NoWrap => NoWrap'
    BY <1>1, <1>2, SetsUnmarked
  <1>4. ~Pending
    BY <1>2, NotPending DEF Core
  <1>5. control.lost => ChoiceTold \/ AppsViolated \/ (IsError /\ NoWrap)
    BY <1>2, <1>4 DEF SetsInv, Noticed, IsError
  <1>6. NoWrap => Top.node.type # "wrap"
    <2>1. Top = calls[Len(calls)] /\ Len(calls) \in 1..Len(calls)
      BY <1>1, ReturnStepCalls
    <2> QED
      BY <1>2, <2>1 DEF NoWrap, IsCore
  <1>7. \A v, app, lost : Value(v, app, lost).task = "value" /\ Value(v, app, lost).value = v /\ Value(v, app, lost).lost = lost
    BY DEF Value
  <1>8. \A kind, lost : Error(kind, lost).task = "error" /\ Error(kind, lost).lost = lost
    BY DEF Error
  <1>9. \A i \in 1..Len(calls) : control.task = "value" /\ control.value = "smaller" => Shrinks(adapted, calls[i])
    BY <1>2 DEF SetsInv, Smaller
  <1>10. SUFFICES Smaller' /\ LostBelow' /\ DoneKept' /\ Noticed'
    BY <1>3 DEF SetsInv
  <1>11. CASE control' = control
    <2>1. Smaller' /\ LostBelow' /\ DoneKept'
      BY <1>1, <1>2, <1>9, <1>11, SetsReturned
    <2> QED
      BY <1>3, <1>5, <1>11, <2>1 DEF Noticed, IsError
  <1>12. CASE control' \in Exceptions
    <2>1. control'.task = "error" /\ ~control'.lost
      BY <1>8, <1>12 DEF Exceptions
    <2>2. Smaller' /\ LostBelow' /\ DoneKept'
      BY <1>1, <1>2, <2>1, SetsReturned
    <2> QED
      BY <2>1, <2>2 DEF Noticed
  <1>13. CASE \/ control' = Value("app", TRUE, control.lost) /\ (IsError => Top.node.type = "wrap")
              \/ control' = Error("validation", control.lost) /\ IsError /\ Top.node.type = "wrap"
    <2>1. /\ control'.lost = control.lost /\ (control'.task = "error" \/ (control'.task = "value" /\ control'.value = "app"))
          /\ IsError => Top.node.type = "wrap"
      BY <1>13 DEF Value, Error
    <2>2. Smaller' /\ LostBelow' /\ DoneKept'
      BY <1>1, <1>2, <2>1, SetsReturned
    <2> QED
      BY <1>3, <1>5, <1>6, <2>1, <2>2 DEF Noticed
  <1>14. CASE /\ ~IsError
              /\ control' = Value(control.value, TRUE, control.lost \/ (Top.value = "set" /\ control.value = "smaller" /\ Top.node.type = "before"))
    <2>1. /\ control'.task = "value" /\ control'.value = control.value /\ control.task = "value"
          /\ control'.lost = (control.lost \/ (Top.value = "set" /\ control.value = "smaller" /\ Top.node.type = "before"))
      BY <1>2, <1>14 DEF IsError, Value
    <2>2. Smaller' /\ LostBelow' /\ DoneKept'
      BY <1>1, <1>2, <1>9, <2>1, SetsReturned
    <2>3. Top.value = "set" /\ control.value = "smaller" /\ Top.node.type = "before" => Pending'
      BY <1>2, <2>1, BeforePending
    <2> QED
      BY <1>3, <1>5, <1>14, <2>1, <2>2, <2>3 DEF Noticed
  <1> QED
    BY <1>11, <1>12, <1>13, <1>14, ApplicationResult

\* That a function took part says nothing of violations.
LEMMA RanFrames ==
  ASSUME BaseInv, choices' \in {choices, Ran(choices)}
  PROVE  /\ Len(choices') = Len(choices) /\ Len(choices) \in Nat /\ (choices' = <<>> <=> choices = <<>>)
         /\ \A k \in 1..Len(choices) : choices'[k].violation = choices[k].violation
  <1>1. choices \in Seq(ChoiceRec)
    BY DEF BaseInv, Sorted
  <1>2. Ran(choices) \in Seq(ChoiceRec) /\ Len(Ran(choices)) = Len(choices)
        /\ \A i \in 1..Len(choices) : Ran(choices)[i] = [choices[i] EXCEPT !.ran = @ \/ i = Len(choices)]
    BY <1>1, FrameTypes
  <1>3. \A k \in 1..Len(choices) : Ran(choices)[k].violation = choices[k].violation
    <2> TAKE k \in 1..Len(choices)
    <2>1. choices[k] \in ChoiceRec
      BY <1>1
    <2> QED
      BY <1>2, <2>1 DEF ChoiceRec
  <1>4. choices = <<>> <=> Len(choices) = 0
    BY <1>1, EmptySeq
  <1>5. Ran(choices) = <<>> <=> Len(Ran(choices)) = 0
    BY <1>2, EmptySeq
  <1> QED
    BY <1>1, <1>2, <1>3, <1>4, <1>5

\* Marks of choices that stay.
LEMMA ChoicesStay ==
  ASSUME BaseInv, SetsInv, input = "set", LayerStep, choices' \in {choices, Ran(choices)}
  PROVE  ChoicesMarked' /\ ChoiceViolated' = ChoiceViolated /\ (ChoiceTold => ChoiceTold') /\ (NoWrap => NoWrap')
  <1>1. /\ Len(choices') = Len(choices) /\ Len(choices) \in Nat /\ (choices' = <<>> <=> choices = <<>>)
        /\ \A k \in 1..Len(choices) : choices'[k].violation = choices[k].violation
    BY RanFrames
  <1>2. /\ \A i \in 1..Len(calls') : i \in 1..Len(calls) /\ calls'[i] = calls[i]
        /\ \A i \in 1..Len(calls') : Rank(calls', "choice", i) = Rank(calls, "choice", i)
        /\ control'.task # "call"
    BY ReturnStepCalls, ReturnedTask
  <1>3. choices # <<>> => Len(choices) \in 1..Len(choices)
    <2>1. choices \in Seq(ChoiceRec)
      BY DEF BaseInv, Sorted
    <2> QED
      BY <2>1
  <1>4. ChoiceViolated' = ChoiceViolated
    BY <1>1, <1>3 DEF ChoiceViolated
  <1>5. ChoicesMarked'
    BY <1>1, <1>2, <1>4 DEF ChoicesMarked, SetsInv
  <1>6. ChoiceTold => ChoiceTold'
    BY <1>1, <1>2, <1>4 DEF ChoiceTold
  <1>7. NoWrap => NoWrap'
    BY <1>2 DEF NoWrap
  <1> QED
    BY <1>4, <1>5, <1>6, <1>7

\* What is smaller when a layer returned was so before.
LEMMA SetsLayerDone ==
  ASSUME BaseInv, SetsInv, input = "set", LayerStep
  PROVE  Smaller' /\ LostBelow' /\ DoneKept'
  <1>1. control'.task = "value" /\ control'.value = "smaller" => control' = control
    BY LayerResult DEF Gives, Value, Error
  <1>2. control'.task = "value" /\ control'.value = "smaller" => \A i \in 1..Len(calls) : i < Len(calls) => Shrinks(adapted, calls[i])
    BY <1>1 DEF SetsInv, Smaller
  <1> QED
    BY <1>2, SetsReturned

\* Layers that tell nobody of violations, where no guard is about to see one.
LEMMA SetsPassOn ==
  ASSUME BaseInv, SetsInv, input = "set", LayerStep, ~Pending,
         apps' = apps, choices' \in {choices, Ran(choices)}
  PROVE  SetsInv'
  <1>1. Smaller' /\ LostBelow' /\ DoneKept'
    BY SetsLayerDone
  <1>2. ChoicesMarked' /\ ChoiceViolated' = ChoiceViolated /\ (ChoiceTold => ChoiceTold') /\ (NoWrap => NoWrap')
    BY ChoicesStay
  <1>3. AppsViolated' = AppsViolated
    BY DEF AppsViolated
  <1>4. /\ Returning /\ \A i \in 1..Len(calls') : i \in 1..Len(calls) /\ calls'[i] = calls[i]
        /\ control'.task # "call" /\ control.task \in {"value", "error"}
    BY ReturnStepCalls, ReturnedTask
  <1>5. choices' = <<>> <=> choices = <<>>
    BY RanFrames
  <1>6. AppsMarked'
    BY <1>3, <1>4, <1>5 DEF AppsMarked, SetsInv
  <1>7. Noticed'
    <2>1. control.lost => ChoiceTold \/ AppsViolated \/ (control.task = "error" /\ NoWrap)
      BY <1>4 DEF SetsInv, Noticed
    <2>2. CASE control' = control
      BY <1>2, <1>3, <2>1, <2>2 DEF Noticed
    <2>3. CASE control' = Gives("stored")
      BY <2>3 DEF Noticed, Gives, Value
    <2>4. CASE control' = Error("invariant", control.lost)
      <3>1. control'.task = "error" /\ (control'.lost => control.lost)
        BY <2>4 DEF Error
      <3> QED
        BY <1>2, <1>3, <2>1, <3>1 DEF Noticed
    <2> QED
      BY <2>2, <2>3, <2>4, LayerResult
  <1> QED
    BY <1>1, <1>2, <1>6, <1>7 DEF SetsInv

\* A function around a schema that is recorded has a frame.
LEMMA RecordedWrap ==
  ASSUME BaseInv, NEW i \in 1..Len(calls), IsCore(calls[i], {"wrap"}), Innermost(calls[i].node, "record")
  PROVE  i - 1 \in 1..Len(calls) /\ LayerOf(calls[i - 1]) = "record"
  <1>1. LayerOf(calls[i]) = Core /\ "record" \notin Shielding
    BY DEF IsCore, Shielding
  <1> QED
    BY <1>1, InnermostRuns

\* A record of an application turns a result into an error when a violation is known.
LEMMA SetsRecord == BaseInv /\ SetsInv /\ LeaveRecord => SetsInv'
  <1> SUFFICES ASSUME BaseInv, SetsInv, LeaveRecord, input' = "set" PROVE SetsInv'
    BY DEF SetsInv
  <1>1. LayerStep
    BY DEF LayerStep
  <1>2. /\ Returning /\ input = "set" /\ control.task \in {"value", "error"} /\ control'.task # "call" /\ LayerOf(Top) = "record"
        /\ Len(calls) \in Nat \ {0} /\ Len(calls') = Len(calls) - 1 /\ calls \in Seq(CallRec(adapted))
        /\ \A i \in 1..Len(calls') : i \in 1..Len(calls) /\ i < Len(calls) /\ calls'[i] = calls[i]
    BY <1>1, ReturnStepCalls, ReturnFacts, ReturnedTask DEF LeaveRecord, Leaving
  <1>3. /\ apps' = Front(apps)
        /\ control' = IF ~IsError /\ Last(apps) THEN Error("invariant", control.lost) ELSE control
        /\ choices' \in {choices, Ran(choices)}
    BY DEF LeaveRecord, Popped
  <1>4. /\ apps # <<>> /\ Len(apps) \in Nat \ {0} /\ Last(apps) = apps[Len(apps)] /\ Len(Front(apps)) = Len(apps) - 1
        /\ \A i \in 1..(Len(apps) - 1) : Front(apps)[i] = apps[i]
    BY <1>2, FramesThere, FrontOf
  <1>5. Smaller' /\ LostBelow' /\ DoneKept'
    BY <1>1, <1>2, SetsLayerDone
  <1>6. ChoicesMarked' /\ ChoiceViolated' = ChoiceViolated /\ (ChoiceTold => ChoiceTold') /\ (NoWrap => NoWrap')
    BY <1>1, <1>2, <1>3, ChoicesStay
  <1>7. choices' = <<>> <=> choices = <<>>
    BY <1>3, RanFrames
  <1>8. AppsViolated' => AppsViolated
    BY <1>3, <1>4 DEF AppsViolated
  <1>9. AppsMarked'
    BY <1>2, <1>3, <1>4, <1>7, <1>8 DEF AppsMarked, SetsInv
  <1>10. AppsViolated => Last(apps) /\ (AppsViolated' \/ NoWrap')
    <2> SUFFICES ASSUME AppsViolated PROVE Last(apps) /\ (AppsViolated' \/ NoWrap')
      OBVIOUS
    <2>1. \A k \in 1..Len(apps) : apps[k]
      BY <1>2 DEF SetsInv, AppsMarked
    <2>2. CASE Len(apps) = 1
      <3>1. ASSUME NEW i \in 1..Len(calls'), IsCore(calls'[i], {"wrap"}) PROVE FALSE
        <4>1. Innermost(calls[i].node, "record") /\ IsCore(calls[i], {"wrap"}) /\ i \in 1..Len(calls)
          BY <1>2, <3>1 DEF SetsInv, AppsMarked
        <4>2. i - 1 \in 1..Len(calls) /\ LayerOf(calls[i - 1]) = "record"
          BY <4>1, RecordedWrap
        <4>3. i - 1 < Len(calls) /\ i - 1 \in Nat /\ LayerOf(calls[Len(calls)]) = "record"
          BY <1>2, <4>1, <4>2, ReturnFacts
        <4>4. Rank(calls, "record", i - 1) < Rank(calls, "record", Len(calls)) /\ Rank(calls, "record", i - 1) \in 1..Len(apps)
          BY <1>2, <4>2, <4>3, RankBelow, FrameOfCall
        <4>5. Rank(calls, "record", Len(calls)) = 1
          BY <2>2 DEF BaseInv, Framed
        <4> QED
          BY <2>2, <4>4, <4>5
      <3> QED
        BY <1>4, <2>1, <2>2, <3>1 DEF NoWrap
    <2>3. CASE Len(apps) # 1
      <3>1. 1 \in 1..Len(apps') /\ apps'[1] = apps[1] /\ 1 \in 1..Len(apps)
        BY <1>3, <1>4, <2>3
      <3> QED
        BY <1>4, <2>1, <3>1 DEF AppsViolated
    <2> QED
      BY <2>2, <2>3
  <1>11. Pending /\ control' = control => Pending'
    <2> SUFFICES ASSUME NEW g \in 1..Len(calls), LayerOf(calls[g]) = "guard", calls[g].value = "set",
                        \A k \in (g + 1)..Len(calls) : LayerOf(calls[k]) = "record",
                        control.task = "value", control.value = "smaller", control' = control
                 PROVE  Pending'
      BY DEF Pending
    <2>1. g # Len(calls)
      BY <1>2, ReturnFacts
    <2>2. g \in 1..Len(calls') /\ calls'[g] = calls[g]
      BY <1>2, <2>1
    <2>3. \A k \in (g + 1)..Len(calls') : k \in 1..Len(calls') /\ k \in (g + 1)..Len(calls)
      BY <1>2
    <2>4. \A k \in (g + 1)..Len(calls') : LayerOf(calls'[k]) = "record"
      BY <1>2, <2>3
    <2> QED
      BY <2>2, <2>4 DEF Pending
  <1>12. Noticed'
    <2>1. control.lost => Pending \/ ChoiceTold \/ AppsViolated \/ (control.task = "error" /\ NoWrap)
      BY <1>2 DEF SetsInv, Noticed
    <2>2. CASE ~IsError /\ Last(apps)
      <3>1. control'.task = "error" /\ (control'.lost => control.lost)
        <4>1. control' = Error("invariant", control.lost)
          BY <1>3, <2>2
        <4> QED
          BY <4>1 DEF Error
      <3>2. AppsViolated
        <4>1. Len(apps) \in 1..Len(apps)
          BY <1>4
        <4>2. apps[Len(apps)]
          BY <1>4, <2>2
        <4> QED
          BY <4>1, <4>2 DEF AppsViolated
      <3> QED
        BY <1>10, <3>1, <3>2 DEF Noticed
    <2>3. CASE ~(~IsError /\ Last(apps))
      <3>1. control' = control
        BY <1>3, <2>3
      <3>2. AppsViolated => IsError
        BY <1>10, <2>3
      <3> QED
        BY <1>6, <1>10, <1>11, <2>1, <3>1, <3>2 DEF Noticed, IsError
    <2> QED
      BY <2>2, <2>3
  <1> QED
    BY <1>5, <1>6, <1>9, <1>12 DEF SetsInv

\* The choice in which a set was made smaller, or else the applications, are told of it.
LEMMA SetsGuardTells ==
  ASSUME SetsWatched, BaseInv, SetsInv, LeaveGuard, input = "set", Top.value = "set", ~IsError,
         control' = Error("invariant", control.lost),
         choices' = IF choices # <<>> THEN Marked(choices) ELSE choices,
         apps' = IF choices = <<>> THEN [i \in DOMAIN apps |-> TRUE] ELSE apps
  PROVE  SetsInv'
  <1>1. LayerStep
    BY DEF LayerStep
  <1>2. /\ Returning /\ outcome = "running" /\ LayerOf(Top) = "guard" /\ Top = calls[Len(calls)]
        /\ Len(calls) \in Nat \ {0} /\ Len(calls') = Len(calls) - 1 /\ Top.node \in NodesOf(adapted)
        /\ \A i \in 1..Len(calls') : i \in 1..Len(calls) /\ i < Len(calls) /\ calls'[i] = calls[i]
        /\ \A i \in 1..Len(calls') : Rank(calls', "choice", i) = Rank(calls, "choice", i)
    BY <1>1, ReturnStepCalls, ReturnFacts DEF LeaveGuard, Leaving, Returning
  <1>3. control'.task = "error"
    BY DEF Error
  <1>4. Smaller' /\ LostBelow' /\ DoneKept'
    BY <1>1, SetsLayerDone
  <1>5. Guards(adapted) /\ NothingSwallowed(adapted)
    BY <1>2, GuardFacts
  <1>6. choices \in Seq(ChoiceRec) /\ apps \in Seq(BOOLEAN) /\ Len(choices) = Rank(calls, "choice", Len(calls)) /\ Len(choices) \in Nat
    BY DEF BaseInv, Sorted, Framed
  <1>7. Has(Top.node, {"guard"})
    <2>1. /\ Top.layer \in 1..Len(Top.node.layers) /\ Top.node.layers[Top.layer] = "guard"
      BY <1>2, CoreLayer DEF Core
    <2>2. Top.node.layers \in Seq(Layers)
      BY <1>2, ReturnFacts DEF Closed
    <2>3. Top.layer \in DOMAIN Top.node.layers
      BY <2>1, <2>2
    <2> QED
      BY <2>1, <2>3 DEF Has
  <1>8. ASSUME NEW i \in 1..Len(calls), i < Len(calls), LayerOf(calls[i]) = Core
        PROVE  /\ HasInside(adapted, calls[i].node, {"guard"}) /\ calls[i].node.type # "set"
               /\ calls[i].node.type = "union" => Rank(calls, "choice", i) < Rank(calls, "choice", Len(calls))
               /\ calls[i].node.type = "wrap" => Innermost(calls[i].node, "record")
               /\ calls[i].node.type = "wrap" => Rank(calls, "choice", i) = Rank(calls, "choice", Len(calls))
    <2>0. Len(calls) \in 1..Len(calls) /\ i \in Nat /\ Len(calls) \in Nat /\ calls[i].node \in NodesOf(adapted)
      BY <1>2, <1>8, InLine
    <2>1. Top.node \in Inner(adapted, calls[i].node) /\ (IsCore(calls[i], {"set"}) => Top.value # "set")
      BY <1>2, <1>8, <2>0, CoreInside
    <2>2. HasInside(adapted, calls[i].node, {"guard"})
      BY <1>7, <2>1 DEF HasInside
    <2>3. calls[i].node.type # "set"
      BY <1>8, <2>1 DEF IsCore
    <2>4. ASSUME calls[i].node.type = "union" PROVE Rank(calls, "choice", i) < Rank(calls, "choice", Len(calls))
      <3>1. WatchesChoices(calls[i].node) /\ IsCore(calls[i], {"union"})
        BY <1>5, <1>8, <2>0, <2>2, <2>4 DEF Guards, IsCore
      <3>2. i + 1 \in 1..Len(calls)
        BY <1>8, <2>0
      <3>3. LayerOf(calls[i + 1]) = "choice"
        BY <3>1, <3>2, WatchedCall
      <3>4. i + 1 \in (i + 1)..Len(calls) /\ i <= Len(calls)
        BY <2>0, <3>2
      <3> QED
        BY <2>0, <3>3, <3>4, RankGap
    <2>5. ASSUME calls[i].node.type = "wrap" PROVE Innermost(calls[i].node, "record")
      BY <1>5, <2>0, <2>2, <2>5 DEF Guards
    <2>6. ASSUME calls[i].node.type = "wrap", Rank(calls, "choice", i) # Rank(calls, "choice", Len(calls)) PROVE FALSE
      <3>1. PICK j \in (i + 1)..Len(calls) : LayerOf(calls[j]) = "choice"
        BY <1>8, <2>0, <2>6, RankGap
      <3>2. j \in 1..Len(calls) /\ i < j /\ j # Len(calls) /\ j < Len(calls)
        BY <1>2, <2>0, <3>1
      <3>3. calls[j].node \in Inner(adapted, calls[i].node)
        BY <1>8, <3>2, CoreInside
      <3>4. Has(calls[j].node, {"choice"})
        <4>1. /\ calls[j].layer \in 1..Len(calls[j].node.layers) /\ calls[j].node.layers[calls[j].layer] = "choice"
          BY <3>1, <3>2, CoreLayer DEF Core
        <4>2. Closed(adapted) /\ calls[j].node \in NodesOf(adapted)
          BY <3>2, InLine
        <4>3. calls[j].node.layers \in Seq(Layers)
          BY <4>2 DEF Closed
        <4>4. calls[j].layer \in DOMAIN calls[j].node.layers
          BY <4>1, <4>3
        <4> QED
          BY <4>1, <4>4 DEF Has
      <3>5. ~Has(calls[j].node, {"guard"}) /\ ~HasInside(adapted, calls[j].node, {"guard"})
        BY <1>5, <2>0, <2>6, <3>3, <3>4 DEF NothingSwallowed
      <3>6. Top.node = calls[j].node \/ Top.node \in Inner(adapted, calls[j].node)
        BY <1>2, <2>0, <3>2, LayerInside
      <3> QED
        BY <1>7, <3>5, <3>6 DEF HasInside
    <2> QED
      BY <2>2, <2>3, <2>4, <2>5, <2>6
  <1>9. \A i \in 1..Len(calls') :
          /\ IsCore(calls'[i], {"union", "set"}) => calls[i].node.type = "union" /\ Rank(calls', "choice", i) < Len(choices)
          /\ IsCore(calls'[i], {"wrap"}) => Innermost(calls'[i].node, "record") /\ Rank(calls', "choice", i) = Len(choices)
    BY <1>2, <1>6, <1>8 DEF IsCore
  <1>10. CASE choices # <<>>
    <2>1. /\ choices' \in Seq(ChoiceRec) /\ Len(choices') = Len(choices)
          /\ \A i \in 1..Len(choices) : choices'[i] = [choices[i] EXCEPT !.violation = @ \/ i = Len(choices)]
      BY <1>6, <1>10, FrameTypes
    <2>2. apps' = apps /\ Len(choices) # 0
      BY <1>6, <1>10, EmptySeq
    <2>3. \A i \in 1..Len(choices) :
            /\ i = Len(choices) => choices'[i].violation
            /\ i # Len(choices) => choices'[i].violation = choices[i].violation
      <3> TAKE i \in 1..Len(choices)
      <3>1. choices[i] \in ChoiceRec
        BY <1>6
      <3> QED
        BY <2>1, <3>1 DEF ChoiceRec
    <2>4. ChoiceViolated'
      <3>1. Len(choices) \in 1..Len(choices) /\ Len(<<>>) = 0
        BY <1>6, <2>2
      <3>2. choices' # <<>>
        BY <2>1, <2>2, <3>1
      <3> QED
        BY <2>1, <2>3, <3>1, <3>2 DEF ChoiceViolated
    <2>5. ChoicesMarked'
      <3>1. \A k \in 1..Len(choices') : k < Len(choices') => ~choices'[k].violation
        <4> TAKE k \in 1..Len(choices')
        <4>1. k < Len(choices) => ~choices[k].violation /\ k # Len(choices)
          BY <1>6, <2>1 DEF SetsInv, ChoicesMarked
        <4> QED
          BY <2>1, <2>3, <4>1
      <3> QED
        BY <1>3, <1>9, <2>1, <3>1 DEF ChoicesMarked
    <2>6. AppsMarked'
      <3>1. ~AppsViolated
        BY <1>10 DEF SetsInv, AppsMarked
      <3> QED
        BY <2>2, <3>1 DEF AppsMarked, AppsViolated
    <2>7. ChoiceTold'
      BY <1>9, <2>1, <2>4 DEF ChoiceTold
    <2> QED
      BY <1>4, <2>5, <2>6, <2>7 DEF SetsInv, Noticed
  <1>11. CASE choices = <<>>
    <2>1. choices' = <<>> /\ Len(choices) = 0 /\ Len(choices') = 0
      BY <1>11
    <2>2. Len(apps') = Len(apps) /\ (\A k \in 1..Len(apps) : apps'[k]) /\ Len(apps) \in Nat
      BY <1>6, <1>11
    <2>3. \A i \in 1..Len(calls') : ~IsCore(calls'[i], {"union", "set"})
      <3>1. \A i \in 1..Len(calls') : Rank(calls', "choice", i) \in Nat
        BY <1>2, FrameOfCall
      <3> QED
        BY <1>9, <2>1, <3>1
    <2>4. ChoicesMarked'
      BY <2>1 DEF ChoicesMarked, ChoiceViolated
    <2>5. AppsMarked'
      BY <1>3, <1>9, <2>1, <2>2, <2>3 DEF AppsMarked
    <2>6. AppsViolated' \/ NoWrap'
      <3>1. CASE Len(apps) = 0
        <4>1. ASSUME NEW i \in 1..Len(calls'), IsCore(calls'[i], {"wrap"}) PROVE FALSE
          <5>1. i \in 1..Len(calls) /\ IsCore(calls[i], {"wrap"}) /\ Innermost(calls[i].node, "record")
            BY <1>2, <1>9, <4>1
          <5>2. i - 1 \in 1..Len(calls) /\ LayerOf(calls[i - 1]) = "record"
            BY <5>1, RecordedWrap
          <5>3. Rank(calls, "record", i - 1) \in 1..Len(apps)
            BY <5>2, FrameOfCall
          <5> QED
            BY <3>1, <5>3
        <4> QED
          BY <4>1 DEF NoWrap
      <3>2. CASE Len(apps) # 0
        <4>1. 1 \in 1..Len(apps') /\ apps'[1]
          BY <2>2, <3>2
        <4> QED
          BY <4>1 DEF AppsViolated
      <3> QED
        BY <3>1, <3>2
    <2> QED
      BY <1>3, <1>4, <2>4, <2>5, <2>6 DEF SetsInv, Noticed
  <1> QED
    BY <1>10, <1>11

\* A guard compares the set with what became of it.
LEMMA SetsGuard == SetsWatched /\ BaseInv /\ SetsInv /\ LeaveGuard => SetsInv'
  <1> SUFFICES ASSUME SetsWatched, BaseInv, SetsInv, LeaveGuard, input' = "set" PROVE SetsInv'
    BY DEF SetsInv
  <1>1. LayerStep
    BY DEF LayerStep
  <1>2. /\ Returning /\ input = "set" /\ LayerOf(Top) = "guard" /\ Top = calls[Len(calls)] /\ Len(calls) \in Nat \ {0}
        /\ control.task \in {"value", "error"}
    BY <1>1, ReturnStepCalls, ReturnFacts, ReturnedTask DEF LeaveGuard, Leaving
  <1>3. PICK differs \in IF IsError THEN {FALSE} ELSE Differs(Top.value, control.value) :
       /\ control' = IF differs THEN Error("invariant", control.lost) ELSE control
       /\ choices' = IF differs /\ choices # <<>> THEN Marked(choices) ELSE choices
       /\ apps' = IF differs /\ choices = <<>> THEN [i \in DOMAIN apps |-> TRUE] ELSE apps
    BY DEF LeaveGuard
  <1>4. /\ differs => ~IsError /\ Top.value = "set"
        /\ ~IsError /\ Top.value = "set" /\ control.value = "smaller" => differs
    BY <1>3 DEF Differs
  <1>5. CASE differs
    BY <1>2, <1>3, <1>4, <1>5, SetsGuardTells
  <1>6. CASE ~differs
    <2>1. ~Pending
      <3> SUFFICES ASSUME control.task = "value", control.value = "smaller",
                          NEW g \in 1..Len(calls), LayerOf(calls[g]) = "guard", calls[g].value = "set",
                          \A k \in (g + 1)..Len(calls) : LayerOf(calls[k]) = "record"
                   PROVE  FALSE
        BY DEF Pending
      <3>1. ~IsError
        BY DEF IsError
      <3>2. g # Len(calls)
        BY <1>2, <1>4, <1>6, <3>1
      <3>3. Len(calls) \in (g + 1)..Len(calls)
        BY <1>2, <3>2
      <3> QED
        BY <1>2, <3>3
    <2>2. choices' = choices /\ apps' = apps
      BY <1>3, <1>6
    <2> QED
      BY <1>1, <1>2, <2>1, <2>2, SetsPassOn
  <1> QED
    BY <1>5, <1>6

\* A choice in which a set was made smaller gives an error, and nothing around it is told.
LEMMA SetsChoice == BaseInv /\ SetsInv /\ LeaveChoice => SetsInv'
  <1> SUFFICES ASSUME BaseInv, SetsInv, LeaveChoice, input' = "set" PROVE SetsInv'
    BY DEF SetsInv
  <1>1. LayerStep
    BY DEF LayerStep
  <1>2. /\ Returning /\ input = "set" /\ LayerOf(Top) = "choice" /\ Top = calls[Len(calls)]
        /\ control.task \in {"value", "error"} /\ control'.task # "call"
        /\ Len(calls) \in Nat \ {0} /\ Len(calls') = Len(calls) - 1
        /\ \A i \in 1..Len(calls') : i \in 1..Len(calls) /\ i < Len(calls) /\ calls'[i] = calls[i]
        /\ \A i \in 1..Len(calls') : Rank(calls', "choice", i) = Rank(calls, "choice", i)
    BY <1>1, ReturnStepCalls, ReturnFacts, ReturnedTask DEF LeaveChoice, Leaving
  <1>3. /\ choices' = Front(choices) /\ apps' = apps
        /\ control' = IF ~IsError /\ Last(choices).violation THEN Error("invariant", control.lost) ELSE control
    BY DEF LeaveChoice, Popped
  <1>4. /\ choices # <<>> /\ choices \in Seq(ChoiceRec) /\ Len(choices) \in Nat \ {0} /\ Last(choices) = choices[Len(choices)]
        /\ Front(choices) \in Seq(ChoiceRec)
        /\ Len(Front(choices)) = Len(choices) - 1 /\ \A i \in 1..(Len(choices) - 1) : Front(choices)[i] = choices[i]
    BY <1>2, FramesThere, FrontOf
  <1>5. Smaller' /\ LostBelow' /\ DoneKept'
    BY <1>1, <1>2, SetsLayerDone
  <1>6. \A k \in 1..Len(choices') : ~choices'[k].violation
    BY <1>2, <1>3, <1>4 DEF SetsInv, ChoicesMarked
  <1>7. ~ChoiceViolated'
    <2>1. choices' # <<>> => Len(choices') \in 1..Len(choices')
      BY <1>3, <1>4
    <2> QED
      BY <1>6, <2>1 DEF ChoiceViolated
  <1>8. ~AppsViolated /\ ~AppsViolated'
    BY <1>2, <1>3, <1>4 DEF SetsInv, AppsMarked, AppsViolated
  <1>9. ~Pending
    BY <1>2, NotPending
  <1>10. ChoiceTold => NoWrap'
    <2> SUFFICES ASSUME ChoiceTold, NEW i \in 1..Len(calls'), IsCore(calls'[i], {"wrap"}) PROVE FALSE
      BY DEF NoWrap
    <2>1. i \in 1..Len(calls) /\ i < Len(calls) /\ IsCore(calls[i], {"wrap"}) /\ i \in Nat
      BY <1>2
    <2>2. Rank(calls, "choice", i) = Len(choices)
      BY <2>1 DEF ChoiceTold
    <2>3. Rank(calls, "choice", i) < Rank(calls, "choice", Len(calls))
      BY <1>2, <2>1, RankBelow
    <2> QED
      BY <1>4, <2>2, <2>3 DEF BaseInv, Framed
  <1>11. ChoiceTold => control'.task = "error"
    <2>1. ChoiceTold => Last(choices).violation
      BY <1>4 DEF ChoiceTold, ChoiceViolated
    <2>2. \A lost : Error("invariant", lost).task = "error"
      BY DEF Error
    <2> QED
      BY <1>2, <1>3, <2>1, <2>2 DEF IsError
  <1>12. NoWrap => NoWrap'
    BY <1>2 DEF NoWrap
  <1>13. Noticed'
    <2>1. control.lost => ChoiceTold \/ (control.task = "error" /\ NoWrap)
      BY <1>2, <1>8, <1>9 DEF SetsInv, Noticed
    <2>2. control'.lost => control.lost
      BY <1>3 DEF Error
    <2>3. control.task = "error" => control' = control
      BY <1>3 DEF IsError
    <2> QED
      BY <1>10, <1>11, <1>12, <2>1, <2>2, <2>3 DEF Noticed
  <1> QED
    BY <1>5, <1>6, <1>7, <1>8, <1>13 DEF SetsInv, ChoicesMarked, AppsMarked

\* Layers that know nothing of sets.
LEMMA SetsOther == BaseInv /\ SetsInv /\ (LeaveRetry \/ LeaveUnion \/ LeaveMapping) => SetsInv'
  <1> SUFFICES ASSUME BaseInv, SetsInv, LeaveRetry \/ LeaveUnion \/ LeaveMapping, input' = "set" PROVE SetsInv'
    BY DEF SetsInv
  <1>1. LayerStep
    BY DEF LayerStep
  <1>2. Returning /\ input = "set" /\ LayerOf(Top) = LayerAt(Top.node, Top.layer)
    BY <1>1, ReturnStepCalls, ReturnFacts
  <1>3. LayerOf(Top) \in {"retry", "union", "mapping"}
    BY <1>2 DEF LeaveRetry, LeaveUnion, LeaveMapping, Leaving
  <1>4. ~Pending
    BY <1>2, <1>3, NotPending
  <1>5. apps' = apps /\ choices' \in {choices, Ran(choices)}
    BY DEF LeaveRetry, LeaveUnion, LeaveMapping, frames
  <1> QED
    BY <1>1, <1>2, <1>4, <1>5, SetsPassOn

\* Whatever lost a member is known to have, or nothing can catch its error.
LEMMA AlwaysSets ==
  ASSUME SetsWatched
  PROVE  Spec => []SetsInv
  <1>1. Init => SetsInv
    <2> SUFFICES ASSUME Init PROVE SetsInv
      OBVIOUS
    <2>1. calls = <<>> /\ choices = <<>> /\ apps = <<>> /\ (control = Nothing \/ control = Todo(adapted.root, 1, input))
      BY DEF Init
    <2>2. control.task \notin {"value", "error"} /\ Len(calls) = 0 /\ Len(choices) = 0 /\ Len(apps) = 0
      BY <2>1 DEF Nothing, Todo
    <2>3. Smaller /\ LostBelow /\ DoneKept
      BY <2>2 DEF Smaller, LostBelow, DoneKept
    <2>4. ChoicesMarked /\ AppsMarked /\ Noticed
      BY <2>1, <2>2 DEF ChoicesMarked, ChoiceViolated, AppsMarked, AppsViolated, Noticed
    <2> QED
      BY <2>3, <2>4 DEF SetsInv
  <1>2. BaseInv /\ SetsInv /\ [Next]_vars => SetsInv'
    <2>1. ASSUME SetsInv, End \/ UNCHANGED vars PROVE SetsInv'
      <3>1. UNCHANGED <<adapted, input, calls, control, choices, apps>>
        BY <2>1 DEF End, vars, frames
      <3>2. \A i \in 1..Len(calls) : Rank(calls', "choice", i) = Rank(calls, "choice", i)
        BY <3>1
      <3> QED
        BY <2>1, <3>1, <3>2 DEF SetsInv, Smaller, LostBelow, DoneKept, ChoicesMarked, ChoiceViolated, AppsMarked, AppsViolated,
                                Noticed, Pending, ChoiceTold, NoWrap
    <2> QED
      BY <2>1, SetsCalls, SetsAgain, SetsEndUnion, SetsEndSet, SetsApplication, SetsRecord, SetsGuard, SetsChoice, SetsOther
      DEF Next, Ended, CallStep, AgainStep
  <1> QED
    BY <1>1, <1>2, AlwaysBase, PTL DEF Spec

\* No set is delivered that lost a member, whatever functions of the application catch, in
\* schemas in which functions around unions, and before guarded sets, are as SetsWatched says:
\* SetsKept of CanonicalValidation.
THEOREM NoMemberIsLost ==
  ASSUME SetsWatched
  PROVE  Spec => []SetsKept
  <1>1. BaseInv /\ Plain /\ SetsInv => SetsKept
    <2> SUFFICES ASSUME BaseInv, Plain, SetsInv, outcome = "delivered" PROVE ~control.lost
      BY DEF SetsKept
    <2>1. control.task = "value" /\ calls = <<>> /\ input \in {"stored", "set"} /\ Len(calls) = 0
      BY InputsAssumption DEF BaseInv, Sorted, Known
    <2>2. CASE input = "stored"
      BY <2>1, <2>2 DEF Plain, PlainTask, PlainValue
    <2>3. CASE input = "set"
      <3>1. Len(choices) = 0 /\ Len(apps) = 0
        BY <2>1, RankZero DEF BaseInv, Framed
      <3>2. choices \in Seq(ChoiceRec)
        BY DEF BaseInv, Sorted
      <3>3. ~ChoiceViolated /\ ~AppsViolated
        BY <3>1, <3>2, EmptySeq DEF ChoiceViolated, AppsViolated
      <3>4. ~Pending
        BY <2>1 DEF Pending
      <3> QED
        BY <2>1, <2>3, <3>3, <3>4 DEF SetsInv, Noticed, ChoiceTold
    <2> QED
      BY <2>1, <2>2, <2>3
  <1> QED
    BY <1>1, AlwaysBase, AlwaysPlain, AlwaysSets, PTL

-----------------------------------------------------------------------------
(* The frames of unions and the records of applications are just outside cores. *)

Framing(x) == LayerOf(x) \in {"union", "record"}
CoreOf(x, y) == LayerOf(y) = Core /\ y.node = x.node
Nested ==
  \A i \in 1..Len(calls) : Framing(calls[i]) =>
    /\ i < Len(calls) => CoreOf(calls[i], calls[i + 1])
    /\ i = Len(calls) /\ control.task = "call" => CoreOf(calls[i], control)

\* Such a layer is the last one of a union, or of a function of the application.
LEMMA FramingPlace ==
  ASSUME NEW a, Closed(a), Placed(a), NEW n \in NodesOf(a), NEW l \in Nat \ {0}, LayerAt(n, l) \in {"union", "record"}
  PROVE  /\ LayerAt(n, l + 1) = Core
         /\ LayerAt(n, l) = "union" => n.type = "union"
         /\ LayerAt(n, l) = "record" => n.type \in Applications
         /\ Has(n, {LayerAt(n, l)})
  <1>1. /\ Len(n.layers) \in Nat
        /\ LayerAt(n, l) = Core <=> l > Len(n.layers)
        /\ l <= Len(n.layers) => LayerAt(n, l) = n.layers[l]
        /\ LayerAt(n, l + 1) = Core <=> l + 1 > Len(n.layers)
    BY LayerFacts
  <1>2. l <= Len(n.layers) /\ LayerAt(n, l) = n.layers[l]
    BY <1>1 DEF Core
  <1>3. n.layers \in Seq(Layers)
    BY DEF Closed
  <1>4. l \in DOMAIN n.layers
    BY <1>1, <1>2, <1>3
  <1>5. l = Len(n.layers)
    BY <1>2, <1>4 DEF Placed
  <1> QED
    BY <1>1, <1>2, <1>4, <1>5 DEF Placed, Has

\* What is called there is what these layers wrap.
LEMMA NestedCalls == BaseInv /\ Nested /\ CallStep => Nested'
  <1> SUFFICES ASSUME BaseInv, Nested, CallStep, NEW i \in 1..Len(calls'), Framing(calls'[i])
               PROVE  /\ i < Len(calls') => CoreOf(calls'[i], calls'[i + 1])
                      /\ i = Len(calls') /\ control'.task = "call" => CoreOf(calls'[i], control')
    BY DEF Nested
  <1>1. /\ outcome = "running" /\ control.task = "call" /\ adapted' = adapted
        /\ \A j \in 1..Len(calls') :
              \/ j \in 1..Len(calls) /\ calls'[j] = calls[j]
              \/ j = Len(calls) + 1 /\ \E k \in Nat : calls'[j] = Call(k)
    BY CallStepCalls
  <1>2. /\ Closed(adapted) /\ Placed(adapted) /\ control.node \in NodesOf(adapted) /\ control.layer \in Nat \ {0}
        /\ Len(calls) \in Nat /\ LayerOf(control) = Layer /\ node = control.node
    BY <1>1, CallFacts DEF LayerOf, Layer, node
  <1>3. \A k \in Nat : Call(k).node = node /\ LayerOf(Call(k)) = Layer
    BY <1>1, CallType DEF node
  <1>4. PICK k \in Nat : calls' = calls \/ calls' = Append(calls, Call(k))
    BY CallStepCalls
  <1>5. calls \in Seq(CallRec(adapted)) /\ Call(k) \in CallRec(adapted)
    BY <1>1, CallFacts, CallType
  <1>6. CASE i \in 1..Len(calls) /\ calls' = calls
    <2>1. calls'[i] = calls[i] /\ (i < Len(calls) => CoreOf(calls[i], calls[i + 1]))
      BY <1>6 DEF Nested
    <2>2. ASSUME i = Len(calls), control'.task = "call" PROVE FALSE
      <3>1. Framing(calls[i]) /\ CoreOf(calls[i], control)
        BY <1>1, <1>6, <2>2 DEF Nested
      <3>2. calls[i].node \in NodesOf(adapted) /\ calls[i].layer \in Nat \ {0}
        BY <1>6, InLine
      <3>3. calls[i].node.type \in Applications \cup {"union"}
        BY <1>2, <3>1, <3>2, FramingPlace DEF Framing, LayerOf
      <3>4. Layer = Core /\ node.type \in {"wrap", "after", "before", "plain", "union"}
        BY <1>2, <3>1, <3>3 DEF CoreOf, Applications
      <3>5. CallNode \/ CallApplication
        <4>1. ~CallLayer /\ ~Shield
          BY <3>4 DEF CallLayer, Shield, Calling, Core
        <4>2. ~CallThrough /\ ~CallReference
          BY <3>4 DEF CallThrough, CallReference, CallingNode, Models
        <4>3. ~CallParts
          <5>1. 1 \in Nat
            OBVIOUS
          <5>2. Call(1) \in CallRec(adapted)
            BY <1>1, <5>1, CallType
          <5>3. calls # Append(calls, Call(1))
            BY <1>5, <5>2, Appended
          <5> QED
            BY <1>6, <5>3 DEF CallParts
        <4> QED
          BY <4>1, <4>2, <4>3 DEF CallStep
      <3>6. calls' # Append(calls, Call(0))
        <4>1. 0 \in Nat
          OBVIOUS
        <4>2. Call(0) \in CallRec(adapted)
          BY <1>1, <4>1, CallType
        <4> QED
          BY <1>5, <1>6, <4>2, Appended
      <3>7. \A v, app, lost : Value(v, app, lost).task # "call" /\ Gives(v).task # "call"
        BY DEF Value, Gives
      <3>8. Fails.task # "call" /\ \A e \in Exceptions : e.task # "call"
        BY DEF Error, Fails, Exceptions
      <3>9. CASE CallNode
        <4>1. \A type, v : \A r \in Results(type, v) : r = Fails \/ \E w : r = Gives(w)
          BY DEF Results
        <4> QED
          BY <2>2, <3>7, <3>8, <3>9, <4>1 DEF CallNode
      <3>10. CASE CallApplication
        <4>1. (\E v \in Supplies(control.value) : control' = Value(v, TRUE, FALSE)) \/ control' \in Exceptions
          BY <3>6, <3>10, Zenon DEF CallApplication
        <4> QED
          BY <2>2, <3>7, <3>8, <4>1
      <3> QED
        BY <3>5, <3>9, <3>10
    <2> QED
      BY <1>2, <1>6, <2>1, <2>2
  <1>7. CASE calls' = Append(calls, Call(k))
    <2>1. /\ Len(calls') = Len(calls) + 1
          /\ \A j \in 1..Len(calls) : calls'[j] = calls[j]
          /\ calls'[Len(calls) + 1] = Call(k)
      BY <1>5, <1>7, Appended
    <2>2. CASE i < Len(calls)
      <3>1. i \in 1..Len(calls) /\ i + 1 \in 1..Len(calls) /\ calls'[i] = calls[i] /\ calls'[i + 1] = calls[i + 1]
        BY <1>2, <2>1, <2>2
      <3> QED
        BY <1>2, <2>1, <2>2, <3>1 DEF Nested
    <2>3. CASE i = Len(calls)
      <3>1. i \in 1..Len(calls) /\ calls'[i] = calls[i] /\ calls'[i + 1] = Call(k)
        BY <2>1, <2>3
      <3>2. CoreOf(calls[i], control)
        BY <1>1, <2>3, <3>1 DEF Nested
      <3> QED
        BY <1>2, <1>3, <2>1, <2>3, <3>1, <3>2 DEF CoreOf
    <2>4. CASE i = Len(calls) + 1
      <3>1. Layer \in {"union", "record"}
        BY <1>3, <2>1, <2>4 DEF Framing
      <3>2. control' = Wrapped
        BY <3>1, Zenon DEF CallStep, CallLayer, Shield, CallNode, CallThrough, CallReference, CallParts, CallApplication, CallingNode, Calling, Core
      <3>3. LayerAt(control.node, control.layer + 1) = Core
        BY <1>2, <3>1, FramingPlace DEF Layer, node
      <3>4. control'.node = control.node /\ control'.layer = control.layer + 1
        BY <3>2 DEF Wrapped, Todo, node
      <3> QED
        BY <1>2, <1>3, <2>1, <2>4, <3>3, <3>4 DEF CoreOf, LayerOf
    <2> QED
      BY <1>2, <2>1, <2>2, <2>3, <2>4
  <1> QED
    BY <1>1, <1>4, <1>6, <1>7

\* Returns leave the calls around as they are.
LEMMA NestedReturns == BaseInv /\ Nested /\ (LayerStep \/ CoreStep \/ AgainStep) => Nested'
  <1> SUFFICES ASSUME BaseInv, Nested, LayerStep \/ CoreStep \/ AgainStep, NEW i \in 1..Len(calls'), Framing(calls'[i])
               PROVE  /\ i < Len(calls') => CoreOf(calls'[i], calls'[i + 1])
                      /\ i = Len(calls') /\ control'.task = "call" => CoreOf(calls'[i], control')
    BY DEF Nested
  <1>1. CASE LayerStep \/ CoreStep
    <2>1. /\ Len(calls') = Len(calls) - 1 /\ Len(calls) \in Nat \ {0}
          /\ \A j \in 1..Len(calls') : j \in 1..Len(calls) /\ j < Len(calls) /\ calls'[j] = calls[j]
          /\ control'.task # "call"
      BY <1>1, ReturnStepCalls, ReturnedTask
    <2>2. i < Len(calls') => i + 1 \in 1..Len(calls')
      BY <2>1
    <2> QED
      BY <2>1, <2>2 DEF Nested
  <1>2. CASE AgainStep
    <2>1. /\ Len(calls') = Len(calls) /\ Len(calls) \in Nat \ {0} /\ Top = calls[Len(calls)] /\ LayerOf(Top) = Core
          /\ \A j \in 1..Len(calls) : j < Len(calls) => calls'[j] = calls[j]
          /\ calls'[Len(calls)].node = Top.node /\ LayerOf(calls'[Len(calls)]) = LayerOf(Top)
      BY <1>2, AgainStepCalls
    <2>2. i # Len(calls) /\ i < Len(calls) /\ i + 1 \in 1..Len(calls)
      BY <2>1 DEF Framing, Core
    <2>3. CoreOf(calls[i], calls[i + 1]) /\ calls'[i] = calls[i]
      BY <2>1, <2>2 DEF Nested
    <2>4. CASE i + 1 < Len(calls)
      BY <2>1, <2>2, <2>3, <2>4
    <2>5. CASE i + 1 = Len(calls)
      BY <2>1, <2>2, <2>3, <2>5 DEF CoreOf
    <2> QED
      BY <2>1, <2>2, <2>4, <2>5
  <1> QED
    BY <1>1, <1>2

\* Always, they are.
LEMMA AlwaysNested == Spec => []Nested
  <1>1. Init => Nested
    <2> SUFFICES ASSUME Init PROVE Nested
      OBVIOUS
    <2>1. Len(calls) = 0
      BY DEF Init
    <2> QED
      BY <2>1 DEF Nested
  <1>2. BaseInv /\ Nested /\ [Next]_vars => Nested'
    <2>1. ASSUME Nested, End \/ UNCHANGED vars PROVE Nested'
      <3>1. UNCHANGED <<calls, control>>
        BY <2>1 DEF End, vars
      <3> QED
        BY <2>1, <3>1 DEF Nested
    <2> QED
      BY <2>1, NestedCalls, NestedReturns DEF Next, Ended, CallStep, LayerStep, CoreStep, AgainStep
  <1> QED
    BY <1>1, <1>2, AlwaysBase, PTL DEF Spec

-----------------------------------------------------------------------------
(* A stored value: what is known when it was recognised as that of one enum member. *)

\* Is it the member that is returned, or what a function of the application took part in?
Good(v) == v.task = "value" => v.value = "stored" \/ v.app

\* Outside unions, the member is what was returned, and no union could take anything else.
Straight ==
  recognised /\ unions = <<>> =>
    control.task # "call" /\ Good(control) /\ \A i \in 1..Len(calls) : ~IsCore(calls[i], {"union"})

\* Inside, the outermost union was told, and got the stored value.
Told ==
  recognised /\ unions # <<>> =>
    /\ unions[1].suppressed
    /\ \A i \in 1..Len(calls) : LayerOf(calls[i]) = "union" /\ Rank(calls, "union", i) = 1 => calls[i].value = "stored"

\* A choice is known to have run a function only while it returns what that took part in.
ChoiceRan == choices # <<>> /\ choices[Len(choices)].ran
RanLast ==
  /\ \A k \in 1..Len(choices) : k < Len(choices) => ~choices[k].ran
  /\ ChoiceRan =>
       /\ control.task # "call" /\ Good(control)
       /\ \A i \in 1..Len(calls) : IsCore(calls[i], {"union"}) => Rank(calls, "choice", i) < Len(choices)

\* A union that watches its choices has a result for each value that they gave, which says
\* that a function ran only of good ones.
Fits(v, frame) == \E r \in frame.results : r[1] = v.value /\ (r[2] => Good(v))
Watched(c) == LayerOf(c) = "union" /\ WatchesChoices(c.node)
FrameOf(i) == unions[Rank(calls, "union", i)]
Recorded ==
  \A i \in 1..Len(calls) : Watched(calls[i]) =>
    /\ i < Len(calls) => \A k \in DOMAIN calls[i + 1].done : Fits(calls[i + 1].done[k], FrameOf(i))
    /\ i + 1 >= Len(calls) /\ control.task = "value" => Fits(control, FrameOf(i))

\* Only where functions are recorded are they said to have run.
Records(a, n) == Has(n, {"record"}) \/ HasInside(a, n, {"record"})
Traced ==
  /\ \A i \in 1..Len(calls) : LayerOf(calls[i]) = "union" =>
       \A r \in FrameOf(i).results : r[2] => HasInside(adapted, calls[i].node, {"record"})
  /\ \A i \in 1..Len(calls) : LayerOf(calls[i]) = "choice" /\ choices[Rank(calls, "choice", i)].ran => Records(adapted, calls[i].node)

\* What is returned to a record is what the function of the application gave.
Supplied == control.task = "value" /\ calls # <<>> /\ LayerOf(calls[Len(calls)]) = "record" => control.app

EnumsInv == input = "stored" => Straight /\ Told /\ RanLast /\ Recorded /\ Traced /\ Supplied

\* What is known of the schema of a stored value.
LEMMA EnumFacts ==
  ASSUME EnumsWatched, BaseInv, outcome = "running", input = "stored"
  PROVE  RepairsFramed(adapted) /\ RecordsWatched(adapted)
  <1>1. PICK s \in Schemas : adapted = AdaptationOf(s, input = "set") /\ ~adapted.refused
    BY DEF BaseInv, Known
  <1>2. (input = "set") = FALSE
    OBVIOUS
  <1>3. adapted = AdaptationOf(s, FALSE)
    BY <1>1, <1>2
  <1> QED
    BY <1>1, <1>3 DEF EnumsWatched

\* A layer that runs is one of its node.
LEMMA HasLayer ==
  ASSUME BaseInv, NEW i \in 1..Len(calls), LayerOf(calls[i]) # Core
  PROVE  Has(calls[i].node, {LayerOf(calls[i])})
  <1>1. Closed(adapted) /\ calls[i].node \in NodesOf(adapted)
    BY InLine
  <1>2. calls[i].layer \in 1..Len(calls[i].node.layers) /\ LayerOf(calls[i]) = calls[i].node.layers[calls[i].layer]
    BY CoreLayer
  <1>3. calls[i].node.layers \in Seq(Layers)
    BY <1>1 DEF Closed
  <1>4. calls[i].layer \in DOMAIN calls[i].node.layers
    BY <1>2, <1>3
  <1> QED
    BY <1>2, <1>4 DEF Has

\* A choice that encloses a union which leads to a record is watched by that union, so it is
\* not the innermost one.
LEMMA ChoiceBelow ==
  ASSUME BaseInv, RecordsWatched(adapted), choices # <<>>,
         NEW i \in 1..Len(calls), i < Len(calls), IsCore(calls[i], {"union"}),
         HasInside(adapted, calls[i].node, {"record"})
  PROVE  Rank(calls, "choice", i) < Len(choices)
  <1>1. /\ Closed(adapted) /\ calls[i].node \in NodesOf(adapted) /\ Len(calls) \in Nat /\ i \in Nat \ {0}
        /\ LayerOf(calls[i]) = Core /\ calls[i].node.type = "union"
    BY InLine DEF IsCore
  <1>2. Len(choices) = Rank(calls, "choice", Len(calls)) /\ Rank(calls, "choice", i) \in Nat
        /\ Rank(calls, "choice", i) <= Rank(calls, "choice", Len(calls))
    BY FrameOfCall DEF BaseInv, Framed
  <1>3. CASE WatchesChoices(calls[i].node)
    <2>1. i + 1 \in 1..Len(calls) /\ i + 1 \in (i + 1)..Len(calls)
      BY <1>1
    <2>2. LayerOf(calls[i + 1]) = "choice"
      BY <1>3, <2>1, WatchedCall
    <2> QED
      BY <1>1, <1>2, <2>1, <2>2, RankGap
  <1>4. CASE ~Has(calls[i].node, {"union", "choice"}) /\ \A m \in NodesOf(adapted) : Has(m, {"choice"}) => calls[i].node \notin Inner(adapted, m)
    <2>1. SUFFICES ASSUME Rank(calls, "choice", i) = Len(choices) PROVE FALSE
      BY <1>2
    <2>2. Rank(calls, "choice", 0) # Rank(calls, "choice", i)
      <3>1. choices \in Seq(ChoiceRec)
        BY DEF BaseInv, Sorted
      <3> QED
        BY <2>1, <3>1, EmptySeq, RankZero
    <2>3. PICK j \in (0 + 1)..i : LayerOf(calls[j]) = "choice"
      BY <1>1, <2>2, RankGap
    <2>4. j \in 1..Len(calls) /\ j < i
      BY <1>1, <2>3 DEF Core
    <2>5. calls[j].node \in NodesOf(adapted) /\ Has(calls[j].node, {"choice"}) /\ Has(calls[j].node, {"union", "choice"})
      <3>1. calls[j].node \in NodesOf(adapted)
        BY <2>4, InLine
      <3>2. Has(calls[j].node, {"choice"})
        BY <2>3, <2>4, HasLayer DEF Core
      <3> QED
        BY <3>1, <3>2 DEF Has
    <2>6. calls[i].node = calls[j].node \/ calls[i].node \in Inner(adapted, calls[j].node)
      BY <2>4, LayerInside
    <2> QED
      BY <1>4, <2>5, <2>6
  <1> QED
    BY <1>1, <1>3, <1>4 DEF RecordsWatched

\* Just inside the frame of a union is its core, and inside that a choice if they are watched.
LEMMA FramedUnion ==
  ASSUME BaseInv, Nested, NEW i \in 1..Len(calls), Watched(calls[i])
  PROVE  /\ i + 1 \in 1..Len(calls) => IsCore(calls[i + 1], {"union"}) /\ calls[i + 1].node = calls[i].node
         /\ i + 2 \in 1..Len(calls) => LayerOf(calls[i + 2]) = "choice"
  <1>1. /\ Closed(adapted) /\ Placed(adapted) /\ calls[i].node \in NodesOf(adapted) /\ calls[i].layer \in Nat \ {0}
        /\ Len(calls) \in Nat /\ LayerAt(calls[i].node, calls[i].layer) = "union" /\ WatchesChoices(calls[i].node)
    BY InLine, SchemaFacts DEF BaseInv, Watched, LayerOf
  <1>2. calls[i].node.type = "union"
    BY <1>1, FramingPlace
  <1>3. ASSUME i + 1 \in 1..Len(calls) PROVE IsCore(calls[i + 1], {"union"}) /\ calls[i + 1].node = calls[i].node
    <2>1. i < Len(calls)
      BY <1>1, <1>3
    <2>2. CoreOf(calls[i], calls[i + 1])
      BY <2>1 DEF Nested, Framing, Watched
    <2> QED
      BY <1>2, <2>2 DEF CoreOf, IsCore
  <1>4. ASSUME i + 2 \in 1..Len(calls) PROVE LayerOf(calls[i + 2]) = "choice"
    <2>1. i + 1 \in 1..Len(calls) /\ (i + 1) + 1 = i + 2
      BY <1>1, <1>4
    <2> QED
      BY <1>1, <1>3, <1>4, <2>1, WatchedCall
  <1> QED
    BY <1>3, <1>4

\* What returns has what was known before of the member, if it is still good.
LEMMA StraightReturned ==
  ASSUME BaseInv, EnumsInv, input = "stored", LayerStep \/ CoreStep, recognised' = recognised,
         unions' = <<>> <=> unions = <<>>, unions # <<>> => unions'[1].suppressed = unions[1].suppressed,
         recognised /\ unions = <<>> => Good(control')
  PROVE  Straight' /\ Told'
  <1>1. /\ \A i \in 1..Len(calls') : i \in 1..Len(calls) /\ calls'[i] = calls[i]
        /\ \A i \in 1..Len(calls') : Rank(calls', "union", i) = Rank(calls, "union", i)
        /\ control'.task # "call"
    BY ReturnStepCalls, ReturnedTask
  <1>2. Straight /\ Told
    BY DEF EnumsInv
  <1>3. Good(control)' <=> Good(control')
    BY DEF Good
  <1>4. Straight'
    BY <1>1, <1>2, <1>3 DEF Straight
  <1>5. Told'
    BY <1>1, <1>2 DEF Told
  <1> QED
    BY <1>4, <1>5

\* And of the choices, if these are the same.
LEMMA RanReturned ==
  ASSUME BaseInv, EnumsInv, input = "stored", LayerStep \/ CoreStep, choices' = choices, ChoiceRan => Good(control')
  PROVE  RanLast'
  <1>1. /\ \A i \in 1..Len(calls') : i \in 1..Len(calls) /\ calls'[i] = calls[i]
        /\ \A i \in 1..Len(calls') : Rank(calls', "choice", i) = Rank(calls, "choice", i)
        /\ control'.task # "call"
    BY ReturnStepCalls, ReturnedTask
  <1>2. RanLast
    BY DEF EnumsInv
  <1>3. Good(control)' <=> Good(control')
    BY DEF Good
  <1>4. ChoiceRan' <=> ChoiceRan
    BY DEF ChoiceRan
  <1> QED
    BY <1>1, <1>2, <1>3, <1>4 DEF RanLast

\* The results of unions that still run are those there were, and perhaps more.
LEMMA RecordedReturned ==
  ASSUME BaseInv, EnumsInv, input = "stored", LayerStep \/ CoreStep,
         \A k \in 1..Len(unions) : (LayerOf(Top) = "union" => k < Len(unions)) => unions[k].results \subseteq unions'[k].results,
         \A i \in 1..Len(calls) : i < Len(calls) /\ i + 2 >= Len(calls) /\ Watched(calls[i]) /\ control'.task = "value" =>
           Fits(control', unions'[Rank(calls, "union", i)])
  PROVE  Recorded'
  <1>1. /\ Len(calls') = Len(calls) - 1 /\ Len(calls) \in Nat \ {0} /\ Top = calls[Len(calls)]
        /\ \A i \in 1..Len(calls') : i \in 1..Len(calls) /\ i < Len(calls) /\ calls'[i] = calls[i]
        /\ \A i \in 1..Len(calls') : Rank(calls', "union", i) = Rank(calls, "union", i)
    BY ReturnStepCalls
  <1>2. Recorded
    BY DEF EnumsInv
  <1> SUFFICES ASSUME NEW i \in 1..Len(calls'), Watched(calls'[i])
               PROVE  /\ i < Len(calls') => \A k \in DOMAIN calls'[i + 1].done : Fits(calls'[i + 1].done[k], unions'[Rank(calls', "union", i)])
                      /\ i + 1 >= Len(calls') /\ control'.task = "value" => Fits(control', unions'[Rank(calls', "union", i)])
    BY DEF Recorded, FrameOf, Fits, Good
  <1>3. i \in 1..Len(calls) /\ i < Len(calls) /\ calls'[i] = calls[i] /\ Rank(calls', "union", i) = Rank(calls, "union", i) /\ Watched(calls[i])
    BY <1>1
  <1>4. FrameOf(i).results \subseteq unions'[Rank(calls, "union", i)].results
    <2>1. Rank(calls, "union", i) \in 1..Len(unions)
      BY <1>3, FrameOfCall DEF Watched
    <2>2. LayerOf(Top) = "union" => Rank(calls, "union", i) < Len(unions)
      <3>1. LayerOf(calls[Len(calls)]) = "union" => Rank(calls, "union", i) < Rank(calls, "union", Len(calls))
        BY <1>1, <1>3, RankBelow
      <3> QED
        BY <1>1, <3>1 DEF BaseInv, Framed
    <2> QED
      BY <2>1, <2>2 DEF FrameOf
  <1>5. ASSUME i < Len(calls'), NEW k \in DOMAIN calls'[i + 1].done
        PROVE  Fits(calls'[i + 1].done[k], unions'[Rank(calls', "union", i)])
    <2>1. i + 1 \in 1..Len(calls') /\ calls'[i + 1] = calls[i + 1]
      BY <1>1, <1>5
    <2>2. Fits(calls[i + 1].done[k], FrameOf(i))
      BY <1>2, <1>3, <1>5, <2>1 DEF Recorded
    <2> QED
      BY <1>3, <1>4, <2>1, <2>2 DEF Fits
  <1>6. i + 1 >= Len(calls') /\ control'.task = "value" => Fits(control', unions'[Rank(calls', "union", i)])
    <2>1. i + 1 >= Len(calls') => i + 2 >= Len(calls)
      BY <1>1
    <2> QED
      BY <1>3, <2>1
  <1> QED
    BY <1>5, <1>6

\* What returns to a union that watches its choices comes from one, or from the union itself.
LEMMA NotRecorded ==
  ASSUME BaseInv, Nested, Returning, LayerOf(Top) # "choice", ~IsCore(Top, {"union"}), NEW i \in 1..Len(calls),
         i < Len(calls), i + 2 >= Len(calls)
  PROVE  ~Watched(calls[i])
  <1>1. Top = calls[Len(calls)] /\ Len(calls) \in Nat \ {0} /\ Len(calls) \in 1..Len(calls)
    BY ReturnFacts
  <1>2. i + 1 = Len(calls) \/ i + 2 = Len(calls)
    BY <1>1
  <1> QED
    BY <1>1, <1>2, FramedUnion

\* What ran is known of functions that are recorded, whatever the results are now.
LEMMA TracedReturned ==
  ASSUME BaseInv, EnumsInv, input = "stored", LayerStep \/ CoreStep,
         \A i \in 1..Len(calls) : i < Len(calls) /\ LayerOf(calls[i]) = "union" =>
           \A r \in unions'[Rank(calls, "union", i)].results : r \in FrameOf(i).results \/ (r[2] => HasInside(adapted, calls[i].node, {"record"})),
         \A i \in 1..Len(calls) : i < Len(calls) /\ LayerOf(calls[i]) = "choice" /\ choices'[Rank(calls, "choice", i)].ran =>
           choices[Rank(calls, "choice", i)].ran \/ Records(adapted, calls[i].node)
  PROVE  Traced'
  <1>1. /\ adapted' = adapted
        /\ \A i \in 1..Len(calls') : i \in 1..Len(calls) /\ i < Len(calls) /\ calls'[i] = calls[i]
        /\ \A i \in 1..Len(calls') : \A layer : Rank(calls', layer, i) = Rank(calls, layer, i)
    BY ReturnStepCalls
  <1>2. Traced
    BY DEF EnumsInv
  <1>3. ASSUME NEW i \in 1..Len(calls'), LayerOf(calls'[i]) = "union", NEW r \in unions'[Rank(calls', "union", i)].results, r[2]
        PROVE  HasInside(adapted, calls'[i].node, {"record"})
    BY <1>1, <1>2, <1>3 DEF Traced
  <1>4. ASSUME NEW i \in 1..Len(calls'), LayerOf(calls'[i]) = "choice", choices'[Rank(calls', "choice", i)].ran
        PROVE  Records(adapted, calls'[i].node)
    BY <1>1, <1>2, <1>4 DEF Traced
  <1> QED
    BY <1>1, <1>3, <1>4 DEF Traced, FrameOf

\* A layer that returns is in no record.
LEMMA SuppliedReturned ==
  ASSUME BaseInv, Nested, LayerStep \/ CoreStep,
         LayerOf(Top) # Core \/ Top.node.type \notin Applications \/ (control'.task = "value" => control'.app)
  PROVE  Supplied'
  <1>1. /\ Len(calls') = Len(calls) - 1 /\ Len(calls) \in Nat \ {0} /\ Top = calls[Len(calls)]
        /\ \A i \in 1..Len(calls') : i \in 1..Len(calls) /\ i < Len(calls) /\ calls'[i] = calls[i]
        /\ Closed(adapted) /\ Placed(adapted) /\ calls' \in Seq(CallRec(adapted))
    BY ReturnStepCalls, ReturnFacts
  <1> SUFFICES ASSUME control'.task = "value", calls' # <<>>, LayerOf(calls'[Len(calls')]) = "record" PROVE control'.app
    BY DEF Supplied
  <1> DEFINE i == Len(calls')
  <1>2. i \in 1..Len(calls') /\ i + 1 = Len(calls)
    BY <1>1, EmptySeq
  <1>3. calls'[i] = calls[i] /\ LayerOf(calls[i]) = "record" /\ i \in 1..Len(calls) /\ i < Len(calls)
    BY <1>1, <1>2
  <1>4. CoreOf(calls[i], Top)
    BY <1>1, <1>2, <1>3 DEF Nested, Framing
  <1>5. calls[i].node \in NodesOf(adapted) /\ calls[i].layer \in Nat \ {0}
    BY <1>3, InLine
  <1>6. calls[i].node.type \in Applications
    BY <1>1, <1>3, <1>5, FramingPlace DEF LayerOf
  <1> QED
    BY <1>4, <1>6 DEF CoreOf

\* Returns that change no frame, and give nothing worse, keep what is known of the member.
LEMMA EnumsPassOn ==
  ASSUME BaseInv, Nested, EnumsInv, input = "stored", LayerStep \/ CoreStep, UNCHANGED <<unions, choices, recognised>>,
         (recognised /\ unions = <<>>) \/ ChoiceRan => Good(control'),
         \A i \in 1..Len(calls) : i < Len(calls) /\ i + 2 >= Len(calls) /\ Watched(calls[i]) /\ control'.task = "value" =>
           Fits(control', FrameOf(i)),
         LayerOf(Top) # Core \/ Top.node.type \notin Applications \/ (control'.task = "value" => control'.app)
  PROVE  EnumsInv'
  <1>1. Straight' /\ Told'
    BY StraightReturned
  <1>2. RanLast'
    BY RanReturned
  <1>3. Recorded'
    BY RecordedReturned DEF FrameOf
  <1>4. Traced'
    BY TracedReturned DEF FrameOf
  <1>5. Supplied'
    BY SuppliedReturned
  <1> QED
    BY <1>1, <1>2, <1>3, <1>4, <1>5 DEF EnumsInv

\* At a union, nothing is known yet.
LEMMA AtUnion ==
  ASSUME BaseInv, Nested, EnumsInv, input = "stored", Returning, IsCore(Top, {"union"})
  PROVE  /\ ~(recognised /\ unions = <<>>) /\ ~ChoiceRan
         /\ \A i \in 1..Len(calls) : Watched(calls[i]) /\ i < Len(calls) =>
              i + 1 = Len(calls) \/ ~(i + 2 >= Len(calls))
         /\ \A i \in 1..Len(calls) : Watched(calls[i]) /\ i + 1 = Len(calls) =>
              \A k \in DOMAIN Taken : Fits(Taken[k], FrameOf(i))
  <1>1. Top = calls[Len(calls)] /\ Len(calls) \in Nat \ {0} /\ Len(calls) \in 1..Len(calls)
    BY ReturnFacts
  <1>2. ~(recognised /\ unions = <<>>)
    BY <1>1 DEF EnumsInv, Straight
  <1>3. ~ChoiceRan
    <2>1. Rank(calls, "choice", Len(calls)) \in Nat
      BY <1>1, FrameOfCall
    <2> QED
      BY <1>1, <2>1 DEF EnumsInv, RanLast, BaseInv, Framed
  <1>4. ASSUME NEW i \in 1..Len(calls), Watched(calls[i]), i < Len(calls), i + 2 >= Len(calls) PROVE i + 1 = Len(calls)
    <2>1. i + 1 = Len(calls) \/ i + 2 = Len(calls)
      BY <1>1, <1>4
    <2>2. LayerOf(Top) = Core
      BY DEF IsCore
    <2> QED
      BY <1>1, <1>4, <2>1, <2>2, FramedUnion DEF Core
  <1>5. ASSUME NEW i \in 1..Len(calls), Watched(calls[i]), i + 1 = Len(calls), NEW k \in DOMAIN Taken PROVE Fits(Taken[k], FrameOf(i))
    <2>1. Recorded /\ i < Len(calls) /\ i + 1 >= Len(calls) /\ calls[i + 1] = Top
      BY <1>1, <1>5 DEF EnumsInv
    <2>2. (\E j \in DOMAIN Top.done : Taken[k] = Top.done[j]) \/ (~IsError /\ Taken[k] = control)
      BY TakenType
    <2>3. ~IsError => control.task = "value"
      BY DEF Returning, IsError
    <2> QED
      BY <1>5, <2>1, <2>2, <2>3 DEF Recorded
  <1> QED
    BY <1>2, <1>3, <1>4, <1>5

\* A union takes one of the results that its frame has.
LEMMA EnumsEndUnion == BaseInv /\ Nested /\ EnumsInv /\ EndUnion => EnumsInv'
  <1> SUFFICES ASSUME BaseInv, Nested, EnumsInv, EndUnion, input' = "stored" PROVE EnumsInv'
    BY DEF EnumsInv
  <1>1. CoreStep
    BY DEF CoreStep
  <1>2. Returning /\ input = "stored" /\ IsCore(Top, {"union"}) /\ Top.node.type = "union"
    BY <1>1, ReturnStepCalls, ReturnFacts DEF EndUnion, LeavingNode, Leaving, IsCore
  <1>3. UNCHANGED <<unions, choices, recognised>>
    BY DEF EndUnion, frames
  <1>4. Top.node.type \notin Applications
    BY <1>2 DEF Applications
  <1>5. ASSUME control'.task = "value" PROVE \E k \in DOMAIN Taken : control' = Taken[k]
    <2>1. \A kind, lost : Error(kind, lost).task = "error"
      BY DEF Error
    <2>2. control' \in ToSet(Taken)
      BY <1>5, <2>1 DEF EndUnion, IsError
    <2> QED
      BY <1>2, <2>2, TakenType
  <1>6. ASSUME NEW i \in 1..Len(calls), i < Len(calls), i + 2 >= Len(calls), Watched(calls[i]), control'.task = "value"
        PROVE  Fits(control', FrameOf(i))
    BY <1>2, <1>5, <1>6, AtUnion
  <1>7. ~(recognised /\ unions = <<>>) /\ ~ChoiceRan
    BY <1>2, AtUnion
  <1> QED
    BY <1>1, <1>2, <1>3, <1>4, <1>6, <1>7, EnumsPassOn

\* A function of the application takes part in what it returns.
LEMMA EnumsApplication == BaseInv /\ Nested /\ EnumsInv /\ LeaveApplication => EnumsInv'
  <1> SUFFICES ASSUME BaseInv, Nested, EnumsInv, LeaveApplication, input' = "stored" PROVE EnumsInv'
    BY DEF EnumsInv
  <1>1. CoreStep
    BY DEF CoreStep
  <1>2. Returning /\ input = "stored" /\ LayerOf(Top) = Core /\ Top.node.type \in Applications
    BY <1>1, ReturnStepCalls, ReturnFacts DEF LeaveApplication, LeavingNode, Leaving
  <1>3. UNCHANGED <<unions, choices, recognised>>
    BY DEF LeaveApplication, frames
  <1>4. control'.task = "value" => control'.app
    <2>1. \A v, lost : Value(v, TRUE, lost).app
      BY DEF Value
    <2>2. \A kind, lost : Error(kind, lost).task = "error"
      BY DEF Error
    <2>3. \A e \in Exceptions : e.task = "error"
      BY <2>2 DEF Exceptions
    <2> QED
      BY <2>1, <2>2, <2>3, ApplicationResult DEF IsError
  <1>5. Good(control')
    BY <1>4 DEF Good
  <1>6. LayerOf(Top) # "choice" /\ ~IsCore(Top, {"union"})
    BY <1>2 DEF Core, IsCore, Applications
  <1>7. \A i \in 1..Len(calls) : i < Len(calls) /\ i + 2 >= Len(calls) => ~Watched(calls[i])
    BY <1>2, <1>6, NotRecorded
  <1> QED
    BY <1>1, <1>2, <1>3, <1>4, <1>5, <1>7, EnumsPassOn

\* Calls push new frames, for the new call, and leave those there were.
LEMMA CallStepFrames ==
  ASSUME BaseInv, CallStep
  PROVE  /\ unions' \in {unions, Append(unions, NewUnionFrame)} /\ choices' \in {choices, Append(choices, NewChoiceFrame)}
         /\ unions \in Seq(UnionRec) /\ choices \in Seq(ChoiceRec) /\ Len(unions) \in Nat /\ Len(choices) \in Nat
         /\ \A k \in 1..Len(unions) : unions'[k] = unions[k]
         /\ \A k \in 1..Len(choices) : choices'[k] = choices[k]
         /\ \A i \in 1..Len(calls') :
              \/ i \in 1..Len(calls) /\ calls'[i] = calls[i] /\ \A layer : Rank(calls', layer, i) = Rank(calls, layer, i)
              \/ /\ i = Len(calls) + 1 /\ \E k \in Nat : calls'[i] = Call(k)
                 /\ LayerOf(calls'[i]) = "union" => Rank(calls', "union", i) = Len(unions) + 1 /\ unions' = Append(unions, NewUnionFrame)
                 /\ LayerOf(calls'[i]) = "choice" => Rank(calls', "choice", i) = Len(choices) + 1 /\ choices' = Append(choices, NewChoiceFrame)
  <1>1. unions \in Seq(UnionRec) /\ choices \in Seq(ChoiceRec) /\ Len(unions) \in Nat /\ Len(choices) \in Nat
    BY DEF BaseInv, Sorted
  <1>2. NewUnionFrame \in UnionRec /\ NewChoiceFrame \in ChoiceRec
    BY DEF NewUnionFrame, NewChoiceFrame, UnionRec, ChoiceRec
  <1>3. unions' \in {unions, Append(unions, NewUnionFrame)} /\ choices' \in {choices, Append(choices, NewChoiceFrame)}
    BY DEF CallStep, CallLayer, Shield, CallNode, CallThrough, CallReference, CallParts, CallApplication, frames
  <1>4. \A k \in 1..Len(unions) : unions'[k] = unions[k]
    BY <1>1, <1>2, <1>3, Appended
  <1>5. \A k \in 1..Len(choices) : choices'[k] = choices[k]
    BY <1>1, <1>2, <1>3, Appended
  <1>6. /\ outcome = "running" /\ control.task = "call"
        /\ \A i \in 1..Len(calls') :
              \/ i \in 1..Len(calls) /\ calls'[i] = calls[i]
              \/ i = Len(calls) + 1 /\ \E k \in Nat : calls'[i] = Call(k)
    BY CallStepCalls
  <1>7. PICK k \in Nat : calls' = calls \/ calls' = Append(calls, Call(k))
    BY CallStepCalls
  <1>8. calls \in Seq(CallRec(adapted)) /\ Call(k) \in CallRec(adapted) /\ LayerOf(Call(k)) = Layer /\ Len(calls) \in Nat
    BY <1>6, CallFacts, CallType
  <1>9. ASSUME NEW i \in 1..Len(calls'), i \in 1..Len(calls), NEW layer PROVE Rank(calls', layer, i) = Rank(calls, layer, i)
    <2>1. \A j \in 1..i : j \in 1..Len(calls') /\ j \in 1..Len(calls) /\ j # Len(calls) + 1
      BY <1>8, <1>9
    <2>2. \A j \in 1..i : LayerOf(calls'[j]) = LayerOf(calls[j])
      BY <1>6, <2>1
    <2> QED
      BY <2>2, RankSame
  <1>10. ASSUME NEW i \in 1..Len(calls'), i = Len(calls) + 1
         PROVE  /\ LayerOf(calls'[i]) = "union" => Rank(calls', "union", i) = Len(unions) + 1 /\ unions' = Append(unions, NewUnionFrame)
                /\ LayerOf(calls'[i]) = "choice" => Rank(calls', "choice", i) = Len(choices) + 1 /\ choices' = Append(choices, NewChoiceFrame)
    <2>1. calls' = Append(calls, Call(k))
      BY <1>7, <1>8, <1>10
    <2>2. Len(calls') = Len(calls) + 1 /\ calls'[i] = Call(k)
      BY <1>8, <1>10, <2>1, Appended
    <2>3. \A layer : Rank(calls', layer, Len(calls')) = Rank(calls, layer, Len(calls)) + (IF LayerOf(Call(k)) = layer THEN 1 ELSE 0)
      BY <1>8, <2>1, RankPushed
    <2>4. LayerOf(Call(k)) = "union" => Rank(calls', "union", i) = Len(unions) + 1
      BY <1>8, <1>10, <2>2, <2>3 DEF BaseInv, Framed
    <2>5. LayerOf(Call(k)) = "choice" => Rank(calls', "choice", i) = Len(choices) + 1
      BY <1>8, <1>10, <2>2, <2>3 DEF BaseInv, Framed
    <2>6. Layer \in {"union", "choice"} => CallLayer
      BY DEF CallStep, Shield, CallNode, CallThrough, CallReference, CallParts, CallApplication, CallingNode, Calling, Core
    <2>7. Layer = "union" => unions' = Append(unions, NewUnionFrame)
      BY <2>6 DEF CallLayer, Calling
    <2>8. Layer = "choice" => choices' = Append(choices, NewChoiceFrame)
      BY <2>6 DEF CallLayer, Calling
    <2> QED
      BY <1>8, <2>2, <2>4, <2>5, <2>7, <2>8
  <1> QED
    BY <1>1, <1>3, <1>4, <1>5, <1>6, <1>9, <1>10

\* Only in a core, and not in that of a union, is a value given at once.
LEMMA ValueGiven ==
  ASSUME BaseInv, CallStep, control'.task = "value"
  PROVE  calls' = calls /\ Layer = Core /\ node.type # "union" /\ (node.type \in Applications => control'.app)
  <1>1. \A n, l, v : Todo(n, l, v).task # "value"
    BY DEF Todo
  <1>2. \A kind, lost : Error(kind, lost).task # "value"
    BY DEF Error
  <1>3. Wrapped.task # "value" /\ Fails.task # "value" /\ \A e \in Exceptions : e.task # "value"
    BY <1>1, <1>2 DEF Wrapped, Fails, Exceptions
  <1>4. ~CallLayer
    BY <1>3 DEF CallLayer
  <1>5. ~Shield
    BY <1>2, <1>3 DEF Shield
  <1>6. ~CallThrough
    BY <1>1 DEF CallThrough
  <1>7. ~CallReference
    BY <1>1, <1>3 DEF CallReference
  <1>8. ~CallParts
    BY <1>1 DEF CallParts
  <1>9. CASE CallNode
    <2>1. calls' = calls /\ Layer = Core /\ node.type \in {"any", "enum", "scalar", "item", "set"}
      BY <1>9 DEF CallNode, CallingNode, Calling
    <2> QED
      BY <2>1 DEF Applications
  <1>10. CASE CallApplication
    <2>1. Layer = Core /\ node.type \in Applications
      BY <1>10 DEF CallApplication, CallingNode, Calling
    <2>2. \/ control' = Todo(node.kids[1], 1, control.value)
          \/ \E v \in Supplies(control.value) : control' = Todo(node.kids[1], 1, v)
          \/ (\E v \in Supplies(control.value) : control' = Value(v, TRUE, FALSE)) /\ calls' = calls
          \/ control' \in Exceptions
      BY <1>10, Zenon DEF CallApplication
    <2>3. PICK v : control' = Value(v, TRUE, FALSE)
      BY <1>1, <1>3, <2>2
    <2>4. control'.app
      BY <2>3 DEF Value
    <2>5. calls' = calls
      BY <1>1, <1>3, <2>2
    <2> QED
      BY <2>1, <2>4, <2>5 DEF Applications
  <1> QED
    BY <1>4, <1>5, <1>6, <1>7, <1>8, <1>9, <1>10 DEF CallStep

\* A value that is given at once is given to no union that watches its choices.
LEMMA GivenElsewhere ==
  ASSUME BaseInv, Nested, CallStep, control'.task = "value", NEW i \in 1..Len(calls), i + 1 >= Len(calls)
  PROVE  ~Watched(calls[i])
  <1>1. /\ outcome = "running" /\ control.task = "call" /\ Len(calls) \in Nat
        /\ Closed(adapted) /\ Placed(adapted) /\ LayerOf(control) = Layer /\ node = control.node
    BY CallStepCalls, CallFacts DEF LayerOf, Layer, node
  <1>2. Layer = Core /\ node.type # "union"
    BY ValueGiven
  <1> SUFFICES ASSUME Watched(calls[i]) PROVE FALSE
    OBVIOUS
  <1>3. CASE i = Len(calls)
    <2>1. CoreOf(calls[i], control)
      BY <1>1, <1>3 DEF Nested, Watched, Framing
    <2>2. calls[i].node \in NodesOf(adapted) /\ calls[i].layer \in Nat \ {0}
      BY InLine
    <2>3. calls[i].node.type = "union"
      BY <1>1, <2>2, FramingPlace DEF Watched, LayerOf
    <2> QED
      BY <1>1, <1>2, <2>1, <2>3 DEF CoreOf
  <1>4. CASE i + 1 = Len(calls)
    <2>1. i + 1 \in 1..Len(calls)
      BY <1>1, <1>4
    <2>2. IsCore(calls[i + 1], {"union"}) /\ WatchesChoices(calls[i + 1].node)
      BY <2>1, FramedUnion DEF Watched
    <2>3. IsCore(Path[i + 1], {"union"}) /\ Path[i + 1].node = calls[i + 1].node
      BY <2>1, <2>2, InLine
    <2>4. Len(Path) = Len(calls) + 1 /\ Path[Len(Path)] = Line(control) /\ LayerOf(Line(control)) = Layer /\ Lined(adapted, Path)
      BY <1>1, CallFacts
    <2>5. Watching(Path[i + 1]) /\ i + 1 \in 1..Len(Path) /\ i + 1 < Len(Path) /\ (i + 1) + 1 = Len(Path)
      BY <1>1, <1>4, <2>2, <2>3, <2>4 DEF Watching
    <2>6. LayerOf(Path[(i + 1) + 1]) = "choice"
      BY <2>4, <2>5 DEF Lined
    <2> QED
      BY <1>2, <2>4, <2>5, <2>6 DEF Core
  <1> QED
    BY <1>1, <1>3, <1>4

\* Calls keep what is known of the member.
LEMMA EnumsCalls == BaseInv /\ Nested /\ EnumsInv /\ CallStep => EnumsInv'
  <1> SUFFICES ASSUME BaseInv, Nested, EnumsInv, CallStep, input' = "stored" PROVE EnumsInv'
    BY DEF EnumsInv
  <1>1. /\ outcome = "running" /\ control.task = "call" /\ UNCHANGED <<adapted, input, recognised>> /\ Len(calls) \in Nat
        /\ Closed(adapted) /\ Placed(adapted) /\ LayerOf(control) = Layer /\ node = control.node
    BY CallStepCalls, CallFacts DEF LayerOf, Layer, node
  <1>2. /\ unions' \in {unions, Append(unions, NewUnionFrame)} /\ choices' \in {choices, Append(choices, NewChoiceFrame)}
        /\ unions \in Seq(UnionRec) /\ choices \in Seq(ChoiceRec) /\ Len(unions) \in Nat /\ Len(choices) \in Nat
        /\ \A k \in 1..Len(unions) : unions'[k] = unions[k]
        /\ \A k \in 1..Len(choices) : choices'[k] = choices[k]
    BY CallStepFrames
  <1>3. \A i \in 1..Len(calls') :
              \/ i \in 1..Len(calls) /\ calls'[i] = calls[i] /\ \A layer : Rank(calls', layer, i) = Rank(calls, layer, i)
              \/ /\ i = Len(calls) + 1 /\ \E k \in Nat : calls'[i] = Call(k)
                 /\ LayerOf(calls'[i]) = "union" => Rank(calls', "union", i) = Len(unions) + 1 /\ unions' = Append(unions, NewUnionFrame)
                 /\ LayerOf(calls'[i]) = "choice" => Rank(calls', "choice", i) = Len(choices) + 1 /\ choices' = Append(choices, NewChoiceFrame)
    BY CallStepFrames
  <1>4. Straight /\ Told /\ RanLast /\ Recorded /\ Traced
    BY <1>1 DEF EnumsInv
  <1>5. NewUnionFrame \in UnionRec /\ NewChoiceFrame \in ChoiceRec /\ NewUnionFrame.results = {} /\ ~NewChoiceFrame.ran
    BY DEF NewUnionFrame, NewChoiceFrame, UnionRec, ChoiceRec
  <1>6. unions' = Append(unions, NewUnionFrame) => unions'[Len(unions) + 1].results = {}
    BY <1>2, <1>5, Appended
  <1>7. choices' = Append(choices, NewChoiceFrame) => ~choices'[Len(choices) + 1].ran /\ Len(choices') = Len(choices) + 1
    BY <1>2, <1>5, Appended
  <1>8. recognised => unions # <<>> /\ Len(unions) >= 1 /\ unions'[1] = unions[1]
    <2>1. recognised => unions # <<>>
      BY <1>1, <1>4 DEF Straight
    <2>2. unions # <<>> => Len(unions) # 0
      BY <1>2, EmptySeq
    <2>3. unions # <<>> => Len(unions) >= 1 /\ 1 \in 1..Len(unions)
      BY <1>2, <2>2
    <2> QED
      BY <1>2, <2>1, <2>3
  <1>9. Straight'
    <2>1. unions # <<>> => unions' # <<>>
      BY <1>2, <1>5, Appended, EmptySeq
    <2> QED
      BY <1>1, <1>8, <2>1 DEF Straight
  <1>10. Told'
    <2> SUFFICES ASSUME recognised
                 PROVE  /\ unions'[1].suppressed
                        /\ \A i \in 1..Len(calls') : LayerOf(calls'[i]) = "union" /\ Rank(calls', "union", i) = 1 => calls'[i].value = "stored"
      BY <1>1 DEF Told
    <2>1. unions'[1].suppressed
      BY <1>4, <1>8 DEF Told
    <2>2. ASSUME NEW i \in 1..Len(calls'), LayerOf(calls'[i]) = "union", Rank(calls', "union", i) = 1 PROVE calls'[i].value = "stored"
      <3>1. Rank(calls', "union", i) # Len(unions) + 1
        BY <1>2, <1>8, <2>2
      <3>2. i \in 1..Len(calls) /\ calls'[i] = calls[i] /\ Rank(calls', "union", i) = Rank(calls, "union", i)
        BY <1>3, <2>2, <3>1
      <3> QED
        BY <1>4, <1>8, <2>2, <3>2 DEF Told
    <2> QED
      BY <2>1, <2>2
  <1>11. \A k \in 1..Len(choices') : ~choices'[k].ran
    <2>1. \A k \in 1..Len(choices) : ~choices[k].ran
      <3> TAKE k \in 1..Len(choices)
      <3>1. k < Len(choices) \/ (k = Len(choices) /\ choices # <<>>)
        BY <1>2, EmptySeq
      <3> QED
        BY <1>1, <1>4, <3>1 DEF RanLast, ChoiceRan
    <2> SUFFICES ASSUME NEW k \in 1..Len(choices') PROVE ~choices'[k].ran
      OBVIOUS
    <2>2. CASE k \in 1..Len(choices)
      BY <1>2, <2>1, <2>2
    <2>3. CASE k \notin 1..Len(choices)
      <3>1. choices' = Append(choices, NewChoiceFrame)
        BY <1>2, <2>3
      <3>2. k = Len(choices) + 1
        BY <1>2, <1>7, <2>3, <3>1
      <3> QED
        BY <1>7, <3>1, <3>2
    <2> QED
      BY <2>2, <2>3
  <1>12. RanLast'
    <2>1. choices' # <<>> => Len(choices') \in 1..Len(choices')
      <3>1. choices' \in Seq(ChoiceRec)
        BY <1>2, <1>5, Appended
      <3> QED
        BY <3>1, EmptySeq
    <2> QED
      BY <1>11, <2>1 DEF RanLast, ChoiceRan
  <1>13. Recorded'
    <2> SUFFICES ASSUME NEW i \in 1..Len(calls'), Watched(calls'[i])
                 PROVE  /\ i < Len(calls') => \A k \in DOMAIN calls'[i + 1].done : Fits(calls'[i + 1].done[k], unions'[Rank(calls', "union", i)])
                        /\ i + 1 >= Len(calls') /\ control'.task = "value" => Fits(control', unions'[Rank(calls', "union", i)])
      BY DEF Recorded, FrameOf, Fits, Good
    <2>1. ASSUME i < Len(calls'), NEW k \in DOMAIN calls'[i + 1].done
          PROVE  Fits(calls'[i + 1].done[k], unions'[Rank(calls', "union", i)])
      <3>1. i + 1 \in 1..Len(calls')
        BY <2>1
      <3>2. \A n \in Nat : Call(n).done = <<>>
        BY <1>1, CallType
      <3>3. calls'[i + 1].done # <<>>
        BY <2>1
      <3>4. i + 1 \in 1..Len(calls) /\ calls'[i + 1] = calls[i + 1]
        BY <1>3, <3>1, <3>2, <3>3
      <3>5. i \in 1..Len(calls) /\ i < Len(calls) /\ i # Len(calls) + 1
        BY <1>1, <3>4
      <3>6. calls'[i] = calls[i] /\ Rank(calls', "union", i) = Rank(calls, "union", i)
        BY <1>3, <3>5
      <3>7. Rank(calls, "union", i) \in 1..Len(unions)
        BY <3>5, <3>6, FrameOfCall DEF Watched
      <3>8. Fits(calls[i + 1].done[k], FrameOf(i))
        BY <1>4, <2>1, <3>4, <3>5, <3>6 DEF Recorded
      <3> QED
        BY <1>2, <3>4, <3>6, <3>7, <3>8 DEF FrameOf
    <2>2. ASSUME i + 1 >= Len(calls'), control'.task = "value" PROVE FALSE
      <3>1. calls' = calls
        BY <2>2, ValueGiven
      <3> QED
        BY <2>2, <3>1, GivenElsewhere
    <2> QED
      BY <2>1, <2>2
  <1>14. Traced'
    <2>1. ASSUME NEW i \in 1..Len(calls'), LayerOf(calls'[i]) = "union", NEW r \in unions'[Rank(calls', "union", i)].results, r[2]
          PROVE  HasInside(adapted, calls'[i].node, {"record"})
      <3>1. i \in 1..Len(calls) /\ calls'[i] = calls[i] /\ Rank(calls', "union", i) = Rank(calls, "union", i)
        BY <1>3, <1>6, <2>1
      <3>2. Rank(calls, "union", i) \in 1..Len(unions)
        BY <2>1, <3>1, FrameOfCall
      <3> QED
        BY <1>2, <1>4, <2>1, <3>1, <3>2 DEF Traced, FrameOf
    <2>2. ASSUME NEW i \in 1..Len(calls'), LayerOf(calls'[i]) = "choice", choices'[Rank(calls', "choice", i)].ran
          PROVE  Records(adapted, calls'[i].node)
      <3>1. i \in 1..Len(calls) /\ calls'[i] = calls[i] /\ Rank(calls', "choice", i) = Rank(calls, "choice", i)
        BY <1>3, <1>7, <2>2
      <3>2. Rank(calls, "choice", i) \in 1..Len(choices)
        BY <2>2, <3>1, FrameOfCall
      <3> QED
        BY <1>2, <1>4, <2>2, <3>1, <3>2 DEF Traced
    <2> QED
      BY <1>1, <2>1, <2>2 DEF Traced, FrameOf
  <1>15. Supplied'
    <2> SUFFICES ASSUME control'.task = "value", calls' # <<>>, LayerOf(calls'[Len(calls')]) = "record" PROVE control'.app
      BY DEF Supplied
    <2>1. calls' = calls /\ (node.type \in Applications => control'.app)
      BY ValueGiven
    <2>2. Len(calls) \in 1..Len(calls)
      <3>1. calls \in Seq(CallRec(adapted))
        BY <1>1, CallFacts
      <3> QED
        BY <2>1, <3>1, EmptySeq
    <2>3. CoreOf(calls[Len(calls)], control)
      BY <1>1, <2>1, <2>2 DEF Nested, Framing
    <2>4. calls[Len(calls)].node \in NodesOf(adapted) /\ calls[Len(calls)].layer \in Nat \ {0}
      BY <2>2, InLine
    <2>5. calls[Len(calls)].node.type \in Applications
      BY <1>1, <2>1, <2>4, FramingPlace DEF LayerOf
    <2> QED
      BY <1>1, <2>1, <2>3, <2>5 DEF CoreOf
  <1> QED
    BY <1>9, <1>10, <1>12, <1>13, <1>14, <1>15 DEF EnumsInv

\* A stored value is no set, so that only unions try again.
LEMMA StoredNoSet ==
  ASSUME BaseInv, Plain, input = "stored", Returning
  PROVE  ~IsCore(Top, {"set"})
  <1> SUFFICES ASSUME IsCore(Top, {"set"}) PROVE FALSE
    OBVIOUS
  <1>1. Top = calls[Len(calls)] /\ Len(calls) \in 1..Len(calls)
    BY ReturnFacts
  <1>2. Counted(Top)
    BY <1>1 DEF BaseInv, Called
  <1>3. Top.value \in {"stored", "app"}
    BY PlainTaken
  <1> QED
    BY <1>2, <1>3 DEF Counted

\* A union that tries another choice keeps what it has taken.
LEMMA EnumsAgain == BaseInv /\ Plain /\ Nested /\ EnumsInv /\ AgainStep => EnumsInv'
  <1> SUFFICES ASSUME BaseInv, Plain, Nested, EnumsInv, AgainStep, input' = "stored" PROVE EnumsInv'
    BY DEF EnumsInv
  <1>1. /\ Returning /\ UNCHANGED <<adapted, input, recognised, unions, choices>> /\ LayerOf(Top) = Core
        /\ Top.node.type \in {"union", "set"} /\ control'.task = "call" /\ input = "stored"
        /\ Len(calls') = Len(calls) /\ Len(calls) \in Nat \ {0} /\ Top = calls[Len(calls)]
        /\ \A i \in 1..Len(calls) : i < Len(calls) => calls'[i] = calls[i]
        /\ calls'[Len(calls)].value = Top.value /\ calls'[Len(calls)].done = Taken /\ calls'[Len(calls)].node = Top.node
        /\ LayerOf(calls'[Len(calls)]) = LayerOf(Top)
    BY AgainStepCalls DEF frames
  <1>2. IsCore(Top, {"union"})
    BY <1>1, StoredNoSet DEF IsCore
  <1>3. /\ ~(recognised /\ unions = <<>>) /\ ~ChoiceRan
        /\ \A i \in 1..Len(calls) : Watched(calls[i]) /\ i + 1 = Len(calls) =>
              \A k \in DOMAIN Taken : Fits(Taken[k], FrameOf(i))
    BY <1>1, <1>2, AtUnion
  <1>4. Straight /\ Told /\ RanLast /\ Recorded /\ Traced
    BY <1>1 DEF EnumsInv
  <1>5. \A i \in 1..Len(calls) : /\ LayerOf(calls'[i]) = LayerOf(calls[i]) /\ calls'[i].node = calls[i].node /\ calls'[i].value = calls[i].value
                                 /\ i < Len(calls) \/ i = Len(calls)
    BY <1>1
  <1>6. \A i \in 1..Len(calls) : \A layer : Rank(calls', layer, i) = Rank(calls, layer, i)
    <2> TAKE i \in 1..Len(calls)
    <2> TAKE layer
    <2>1. \A j \in 1..i : j \in 1..Len(calls)
      BY <1>1
    <2>2. \A j \in 1..i : LayerOf(calls'[j]) = LayerOf(calls[j])
      BY <1>5, <2>1
    <2> QED
      BY <2>2, RankSame
  <1>7. Straight' /\ Told'
    BY <1>1, <1>3, <1>4, <1>5, <1>6 DEF Straight, Told
  <1>8. RanLast'
    BY <1>1, <1>3, <1>4 DEF RanLast, ChoiceRan
  <1>9. Recorded'
    <2> SUFFICES ASSUME NEW i \in 1..Len(calls'), Watched(calls'[i]), i < Len(calls'), NEW k \in DOMAIN calls'[i + 1].done
                 PROVE  Fits(calls'[i + 1].done[k], unions'[Rank(calls', "union", i)])
      BY <1>1 DEF Recorded, FrameOf, Fits, Good
    <2>1. i \in 1..Len(calls) /\ i + 1 \in 1..Len(calls) /\ Watched(calls[i]) /\ unions'[Rank(calls', "union", i)] = FrameOf(i)
      BY <1>1, <1>5, <1>6 DEF Watched, FrameOf
    <2>2. CASE i + 1 = Len(calls)
      BY <1>1, <1>3, <2>1, <2>2
    <2>3. CASE i + 1 < Len(calls)
      BY <1>1, <1>4, <2>1, <2>3 DEF Recorded
    <2> QED
      BY <1>5, <2>1, <2>2, <2>3
  <1>10. Traced'
    BY <1>1, <1>4, <1>5, <1>6 DEF Traced, FrameOf
  <1>11. Supplied'
    BY <1>1 DEF Supplied
  <1> QED
    BY <1>7, <1>8, <1>9, <1>10, <1>11 DEF EnumsInv

\* What a layer that returns stands in.
LEMMA LayerLeft ==
  ASSUME BaseInv, Nested, input = "stored", LayerStep, NEW layer, layer # Core, LayerAt(Top.node, Top.layer) = layer
  PROVE  /\ LayerOf(Top) = layer /\ LayerOf(Top) # Core /\ Returning /\ outcome = "running" /\ Len(calls) \in 1..Len(calls)
         /\ Top = calls[Len(calls)] /\ Len(calls) \in Nat
         /\ layer # "choice" => \A i \in 1..Len(calls) : i < Len(calls) /\ i + 2 >= Len(calls) => ~Watched(calls[i])
  <1>1. /\ Returning /\ LayerOf(Top) = layer /\ Len(calls) \in Nat /\ Len(calls) \in 1..Len(calls) /\ Top = calls[Len(calls)]
    BY ReturnStepCalls, ReturnFacts
  <1>2. ~IsCore(Top, {"union"})
    BY <1>1 DEF IsCore
  <1> QED
    BY <1>1, <1>2, NotRecorded DEF Returning

\* Layers that let stored values through.
LEMMA EnumsThrough ==
  ASSUME BaseInv, Plain, Nested, EnumsInv, input = "stored",
         LeaveGuard \/ LeaveMapping \/ (LeaveRetry /\ UNCHANGED <<control, unions, recognised>>)
  PROVE  EnumsInv'
  <1>1. LayerStep
    BY DEF LayerStep
  <1>2. control' = control /\ UNCHANGED <<unions, choices, recognised>>
    <2>1. CASE LeaveGuard
      <3>1. Returning
        BY <1>1, ReturnStepCalls
      <3>2. Top.value # "set"
        BY <3>1, PlainTaken
      <3> QED
        BY <2>1, <3>2 DEF LeaveGuard, Differs
    <2>2. CASE LeaveMapping
      BY <2>2 DEF LeaveMapping, frames
    <2>3. CASE LeaveRetry /\ UNCHANGED <<control, unions, recognised>>
      BY <2>3 DEF LeaveRetry
    <2> QED
      BY <2>1, <2>2, <2>3
  <1>3. PICK layer \in {"guard", "mapping", "retry"} : LayerAt(Top.node, Top.layer) = layer
    BY DEF LeaveGuard, LeaveMapping, LeaveRetry, Leaving
  <1>4. /\ LayerOf(Top) # Core
        /\ \A i \in 1..Len(calls) : i < Len(calls) /\ i + 2 >= Len(calls) => ~Watched(calls[i])
    BY <1>1, <1>3, LayerLeft DEF Core
  <1>5. (recognised /\ unions = <<>>) \/ ChoiceRan => Good(control')
    BY <1>2 DEF EnumsInv, Straight, RanLast
  <1> QED
    BY <1>1, <1>2, <1>4, <1>5, EnumsPassOn

\* Validation by a union that leads to a repair, or to a union that has a frame, has a frame.
LEMMA FrameAround ==
  ASSUME BaseInv, RepairsFramed(adapted), NEW i \in 1..Len(calls), i < Len(calls), IsCore(calls[i], {"union"}),
         LayerOf(Top) \in {"retry", "union"}, Top = calls[Len(calls)]
  PROVE  \E j \in 1..Len(calls) : j < Len(calls) /\ LayerOf(calls[j]) = "union"
  <1>1. Len(calls) \in Nat /\ Len(calls) \in 1..Len(calls) /\ LayerOf(calls[i]) = Core /\ calls[i].node.type = "union"
    BY InLine DEF IsCore
  <1>2. Has(Top.node, {"retry", "union"})
    <2>1. Has(Top.node, {LayerOf(Top)})
      BY <1>1, HasLayer DEF Core
    <2> QED
      BY <2>1 DEF Has
  <1>3. Top.node \in Inner(adapted, calls[i].node)
    BY <1>1, CoreInside
  <1>4. Has(calls[i].node, {"union"})
    BY <1>1, <1>2, <1>3, InLine DEF RepairsFramed, HasInside
  <1>5. PICK l \in DOMAIN calls[i].node.layers : calls[i].node.layers[l] = "union"
    BY <1>4 DEF Has
  <1>6. calls[i].node.layers[l] \notin Shielding
    BY <1>5 DEF Shielding
  <1>7. PICK j \in 1..(i - 1) : j \in 1..Len(calls) /\ LayerOf(calls[j]) = calls[i].node.layers[l]
    BY <1>1, <1>6, LayersRun
  <1> QED
    BY <1>1, <1>5, <1>7

\* A repair tells the unions around of the member, or returns it.
LEMMA EnumsRetry == EnumsWatched /\ BaseInv /\ Plain /\ Nested /\ EnumsInv /\ LeaveRetry => EnumsInv'
  <1> SUFFICES ASSUME EnumsWatched, BaseInv, Plain, Nested, EnumsInv, LeaveRetry, input' = "stored" PROVE EnumsInv'
    BY DEF EnumsInv
  <1>1. LayerStep /\ input = "stored"
    BY DEF LayerStep, LeaveRetry
  <1>2. CASE UNCHANGED <<control, unions, recognised>>
    BY <1>1, <1>2, EnumsThrough
  <1>3. CASE ~UNCHANGED <<control, unions, recognised>>
    <2>1. /\ Top.value = "stored" /\ recognised' = TRUE /\ unions' = Suppressed(unions) /\ choices' = choices
          /\ control' = IF unions = <<>> THEN Gives("stored") ELSE control
      BY <1>3 DEF LeaveRetry
    <2>2. /\ LayerOf(Top) = "retry" /\ LayerOf(Top) # Core /\ Returning /\ outcome = "running" /\ Len(calls) \in 1..Len(calls)
          /\ Top = calls[Len(calls)] /\ Len(calls) \in Nat
          /\ \A i \in 1..Len(calls) : i < Len(calls) /\ i + 2 >= Len(calls) => ~Watched(calls[i])
      <3>1. LayerAt(Top.node, Top.layer) = "retry" /\ "retry" # Core
        BY DEF LeaveRetry, Leaving, Core
      <3> QED
        BY <1>1, <3>1, LayerLeft
    <2>3. /\ \A i \in 1..Len(calls') : i \in 1..Len(calls) /\ i < Len(calls) /\ calls'[i] = calls[i]
          /\ \A i \in 1..Len(calls') : Rank(calls', "union", i) = Rank(calls, "union", i)
          /\ control'.task # "call"
      BY <1>1, ReturnStepCalls, ReturnedTask
    <2>4. unions \in Seq(UnionRec) /\ Len(unions) \in Nat
      BY DEF BaseInv, Sorted
    <2>5. /\ unions' \in Seq(UnionRec) /\ Len(unions') = Len(unions)
          /\ \A k \in 1..Len(unions) : unions'[k].suppressed /\ unions'[k].results = unions[k].results
      <3>1. unions' \in Seq(UnionRec) /\ Len(unions') = Len(unions) /\ \A k \in 1..Len(unions) : unions'[k] = [unions[k] EXCEPT !.suppressed = TRUE]
        BY <2>1, <2>4, FrameTypes
      <3>2. ASSUME NEW k \in 1..Len(unions) PROVE unions'[k].suppressed /\ unions'[k].results = unions[k].results
        <4>1. unions[k] \in UnionRec
          BY <2>4
        <4> QED
          BY <3>1, <4>1 DEF UnionRec
      <3> QED
        BY <3>1, <3>2
    <2>6. unions' = <<>> <=> unions = <<>>
      BY <2>4, <2>5, EmptySeq
    <2>7. RepairsFramed(adapted)
      BY <1>1, <2>2, EnumFacts
    <2>8. Good(Gives("stored"))
      BY DEF Good, Gives, Value
    <2>9. Straight'
      <3> SUFFICES ASSUME unions = <<>> PROVE control'.task # "call" /\ Good(control') /\ \A i \in 1..Len(calls') : ~IsCore(calls'[i], {"union"})
        BY <2>6 DEF Straight, Good
      <3>1. ASSUME NEW i \in 1..Len(calls'), IsCore(calls'[i], {"union"}) PROVE FALSE
        <4>1. i \in 1..Len(calls) /\ i < Len(calls) /\ IsCore(calls[i], {"union"})
          BY <2>3, <3>1
        <4>2. PICK j \in 1..Len(calls) : LayerOf(calls[j]) = "union"
          BY <2>2, <2>7, <4>1, FrameAround
        <4> QED
          BY <4>2, FrameOfCall
      <3> QED
        BY <2>1, <2>3, <2>8, <3>1
    <2>10. Told'
      <3> SUFFICES ASSUME unions # <<>>
                   PROVE  /\ unions'[1].suppressed
                          /\ \A i \in 1..Len(calls') : LayerOf(calls'[i]) = "union" => calls'[i].value = "stored"
        BY <2>6 DEF Told
      <3>1. 1 \in 1..Len(unions)
        BY <2>4, EmptySeq
      <3>2. ASSUME NEW i \in 1..Len(calls') PROVE calls'[i].value = "stored"
        <4>1. i \in 1..Len(calls) /\ i < Len(calls) /\ calls'[i] = calls[i]
          BY <2>3
        <4>2. calls[i].value \in {"stored", "app"}
          BY <1>1, <4>1 DEF Plain, PlainCall
        <4>3. i \in 1..Len(Path) /\ Path[i].value = calls[i].value
          BY <4>1, InLine
        <4>4. Len(calls) \in 1..Len(Path) /\ Path[Len(calls)].value = Top.value
          BY <2>2, InLine
        <4>5. Passes(Path[i], Path[Len(calls)])
          BY <4>1, <4>3, <4>4 DEF BaseInv, Lined
        <4> QED
          BY <2>1, <4>1, <4>2, <4>3, <4>4, <4>5 DEF Passes
      <3> QED
        BY <2>5, <3>1, <3>2
    <2>11. RanLast'
      <3>1. ChoiceRan => Good(control')
        BY <1>1, <2>1, <2>8 DEF EnumsInv, RanLast
      <3> QED
        BY <1>1, <2>1, <3>1, RanReturned
    <2>12. Recorded'
      BY <1>1, <2>2, <2>5, RecordedReturned
    <2>13. Traced'
      <3>1. \A i \in 1..Len(calls) : LayerOf(calls[i]) = "union" => unions'[Rank(calls, "union", i)].results = FrameOf(i).results
        BY <2>5, FrameOfCall DEF FrameOf
      <3> QED
        BY <1>1, <2>1, <3>1, TracedReturned
    <2>14. Supplied'
      BY <1>1, <2>2, SuppliedReturned
    <2> QED
      BY <2>9, <2>10, <2>11, <2>12, <2>13, <2>14 DEF EnumsInv
  <1> QED
    BY <1>2, <1>3

\* What is around leads to the records that are inside.
LEMMA RecordsUp ==
  ASSUME BaseInv, NEW i \in 1..Len(calls), NEW j \in 1..Len(calls), i < j, Records(adapted, calls[j].node)
  PROVE  /\ Records(adapted, calls[i].node)
         /\ LayerOf(calls[i]) = Core => HasInside(adapted, calls[i].node, {"record"})
  <1>1. Closed(adapted) /\ calls[i].node \in NodesOf(adapted)
    BY InLine
  <1>2. ASSUME calls[j].node \in Inner(adapted, calls[i].node) PROVE HasInside(adapted, calls[i].node, {"record"})
    <2>1. Inner(adapted, calls[j].node) \subseteq Inner(adapted, calls[i].node)
      BY <1>1, <1>2 DEF Closed
    <2> QED
      BY <1>2, <2>1 DEF Records, HasInside
  <1>3. calls[j].node = calls[i].node \/ calls[j].node \in Inner(adapted, calls[i].node)
    BY LayerInside
  <1>4. LayerOf(calls[i]) = Core => calls[j].node \in Inner(adapted, calls[i].node)
    BY CoreInside
  <1> QED
    BY <1>2, <1>3, <1>4 DEF Records

\* The innermost choice is told that a function ran, whose result is returned.
LEMMA ChoiceIsTold ==
  ASSUME BaseInv, RecordsWatched(adapted), EnumsInv, input = "stored", LayerStep,
         choices' = Ran(choices), Good(control'), Records(adapted, Top.node)
  PROVE  /\ RanLast'
         /\ \A i \in 1..Len(calls) : i < Len(calls) /\ LayerOf(calls[i]) = "choice" /\ choices'[Rank(calls, "choice", i)].ran =>
              Records(adapted, calls[i].node)
  <1>1. /\ \A i \in 1..Len(calls') : i \in 1..Len(calls) /\ i < Len(calls) /\ calls'[i] = calls[i]
        /\ \A i \in 1..Len(calls') : Rank(calls', "choice", i) = Rank(calls, "choice", i)
        /\ control'.task # "call" /\ Top = calls[Len(calls)] /\ Len(calls) \in Nat \ {0}
    BY ReturnStepCalls, ReturnedTask
  <1>2. choices \in Seq(ChoiceRec) /\ Len(choices) \in Nat
    BY DEF BaseInv, Sorted
  <1>3. /\ choices' \in Seq(ChoiceRec) /\ Len(choices') = Len(choices)
        /\ \A k \in 1..Len(choices) : choices'[k].ran = (choices[k].ran \/ k = Len(choices))
    <2>1. /\ choices' \in Seq(ChoiceRec) /\ Len(choices') = Len(choices)
          /\ \A k \in 1..Len(choices) : choices'[k] = [choices[k] EXCEPT !.ran = @ \/ k = Len(choices)]
      BY <1>2, FrameTypes
    <2>2. ASSUME NEW k \in 1..Len(choices) PROVE choices'[k].ran = (choices[k].ran \/ k = Len(choices))
      <3>1. choices[k] \in ChoiceRec
        BY <1>2
      <3> QED
        BY <2>1, <3>1 DEF ChoiceRec
    <2> QED
      BY <2>1, <2>2
  <1>4. \A k \in 1..Len(choices') : k < Len(choices') => ~choices'[k].ran
    <2> TAKE k \in 1..Len(choices')
    <2>1. k < Len(choices') => ~choices[k].ran /\ ~(k = Len(choices))
      BY <1>2, <1>3 DEF EnumsInv, RanLast
    <2> QED
      BY <1>3, <2>1
  <1>5. Len(calls) \in 1..Len(calls)
    BY <1>1
  <1>6. ASSUME choices' # <<>>, NEW i \in 1..Len(calls'), IsCore(calls'[i], {"union"}) PROVE Rank(calls', "choice", i) < Len(choices')
    <2>1. i \in 1..Len(calls) /\ i < Len(calls) /\ IsCore(calls[i], {"union"}) /\ LayerOf(calls[i]) = Core
      BY <1>1, <1>6 DEF IsCore
    <2>2. HasInside(adapted, calls[i].node, {"record"})
      BY <1>1, <1>5, <2>1, RecordsUp
    <2>3. choices # <<>>
      BY <1>2, <1>3, <1>6, EmptySeq
    <2> QED
      BY <1>1, <1>3, <2>1, <2>2, <2>3, ChoiceBelow
  <1>7. RanLast'
    <2>1. Good(control)' <=> Good(control')
      BY DEF Good
    <2>2. ChoiceRan' => choices' # <<>>
      BY DEF ChoiceRan
    <2> QED
      BY <1>1, <1>4, <1>6, <2>1, <2>2 DEF RanLast
  <1>8. \A i \in 1..Len(calls) : i < Len(calls) => Records(adapted, calls[i].node)
    BY <1>1, <1>5, RecordsUp
  <1> QED
    BY <1>7, <1>8

\* A record tells the innermost choice of the function whose result it returns.
LEMMA EnumsRecord == EnumsWatched /\ BaseInv /\ Nested /\ EnumsInv /\ LeaveRecord => EnumsInv'
  <1> SUFFICES ASSUME EnumsWatched, BaseInv, Nested, EnumsInv, LeaveRecord, input' = "stored" PROVE EnumsInv'
    BY DEF EnumsInv
  <1>1. LayerStep /\ input = "stored" /\ unions' = unions /\ recognised' = recognised
    BY DEF LayerStep, LeaveRecord
  <1>2. /\ LayerOf(Top) = "record" /\ LayerOf(Top) # Core /\ Returning /\ outcome = "running" /\ Len(calls) \in 1..Len(calls)
        /\ Top = calls[Len(calls)] /\ Len(calls) \in Nat
        /\ \A i \in 1..Len(calls) : i < Len(calls) /\ i + 2 >= Len(calls) => ~Watched(calls[i])
    <2>1. LayerAt(Top.node, Top.layer) = "record" /\ "record" # Core
      BY DEF LeaveRecord, Leaving, Core
    <2> QED
      BY <1>1, <2>1, LayerLeft
  <1>3. Good(control')
    <2>1. control.task = "value" => control.app
      BY <1>1, <1>2 DEF EnumsInv, Supplied, Returning
    <2>2. control' = control \/ control' = Error("invariant", control.lost)
      BY DEF LeaveRecord
    <2> QED
      BY <2>1, <2>2 DEF Good, Error
  <1>4. RecordsWatched(adapted)
    BY <1>1, <1>2, EnumFacts
  <1>5. Records(adapted, Top.node)
    <2>1. Has(Top.node, {"record"})
      BY <1>2, HasLayer
    <2> QED
      BY <2>1 DEF Records
  <1>6. Straight' /\ Told'
    BY <1>1, <1>3, StraightReturned
  <1>7. choices' = choices \/ choices' = Ran(choices)
    BY DEF LeaveRecord
  <1>8. RanLast'
    <2>1. CASE choices' = choices
      BY <1>1, <1>3, <2>1, RanReturned
    <2>2. CASE choices' = Ran(choices)
      BY <1>1, <1>3, <1>4, <1>5, <2>2, ChoiceIsTold
    <2> QED
      BY <1>7, <2>1, <2>2
  <1>9. Recorded'
    BY <1>1, <1>2, RecordedReturned
  <1>10. Traced'
    <2>1. \A i \in 1..Len(calls) : i < Len(calls) /\ LayerOf(calls[i]) = "choice" /\ choices'[Rank(calls, "choice", i)].ran =>
            choices[Rank(calls, "choice", i)].ran \/ Records(adapted, calls[i].node)
      BY <1>1, <1>3, <1>4, <1>5, <1>7, ChoiceIsTold
    <2> QED
      BY <1>1, <2>1, TracedReturned DEF FrameOf
  <1>11. Supplied'
    BY <1>1, <1>2, SuppliedReturned
  <1> QED
    BY <1>6, <1>8, <1>9, <1>10, <1>11 DEF EnumsInv

\* A choice that gives a value leaves it with the union around, with what is known of it.
LEMMA EnumsChoice == BaseInv /\ Nested /\ EnumsInv /\ LeaveChoice => EnumsInv'
  <1> SUFFICES ASSUME BaseInv, Nested, EnumsInv, LeaveChoice, input' = "stored" PROVE EnumsInv'
    BY DEF EnumsInv
  <1> DEFINE taken == ~(IsError \/ Last(choices).violation \/ unions = <<>>)
             result == <<control.value, Last(choices).ran>>
  <1>1. LayerStep /\ input = "stored" /\ recognised' = recognised
    BY DEF LayerStep, LeaveChoice
  <1>2. /\ LayerOf(Top) = "choice" /\ LayerOf(Top) # Core /\ Returning /\ Len(calls) \in 1..Len(calls)
        /\ Top = calls[Len(calls)] /\ Len(calls) \in Nat
    <2>1. LayerAt(Top.node, Top.layer) = "choice" /\ "choice" # Core
      BY DEF LeaveChoice, Leaving, Core
    <2> QED
      BY <1>1, <2>1, LayerLeft
  <1>3. /\ choices # <<>> /\ choices \in Seq(ChoiceRec) /\ Len(choices) \in Nat \ {0} /\ Last(choices) = choices[Len(choices)]
        /\ choices' = Front(choices) /\ Front(choices) \in Seq(ChoiceRec)
        /\ Len(Front(choices)) = Len(choices) - 1 /\ \A k \in 1..(Len(choices) - 1) : Front(choices)[k] = choices[k]
    BY <1>2, FramesThere, FrontOf DEF LeaveChoice, Popped
  <1>4. unions \in Seq(UnionRec) /\ Len(unions) \in Nat /\ (unions = <<>> <=> Len(unions) = 0)
    <2>1. unions \in Seq(UnionRec)
      BY DEF BaseInv, Sorted
    <2> QED
      BY <2>1, EmptySeq
  <1>5. /\ unions' = <<>> <=> unions = <<>>
        /\ \A k \in 1..Len(unions) : /\ unions'[k].suppressed = unions[k].suppressed
                                     /\ unions'[k].results = unions[k].results \cup (IF taken /\ k = Len(unions) THEN {result} ELSE {})
    <2>1. CASE ~taken
      BY <2>1 DEF LeaveChoice
    <2>2. CASE taken
      <3> DEFINE u == [unions[Len(unions)] EXCEPT !.results = @ \cup {result}]
      <3>1. unions' = [unions EXCEPT ![Len(unions)] = u] /\ unions # <<>>
        BY <2>2 DEF LeaveChoice
      <3>2. Len(unions) \in 1..Len(unions)
        BY <1>4, <3>1
      <3>3. u.suppressed = unions[Len(unions)].suppressed /\ u.results = unions[Len(unions)].results \cup {result}
        <4>1. unions[Len(unions)] \in UnionRec
          BY <1>4, <3>2
        <4> QED
          BY <4>1 DEF UnionRec
      <3> HIDE DEF u, result
      <3>4. DOMAIN unions' = 1..Len(unions) /\ \A k \in 1..Len(unions) : unions'[k] = IF k = Len(unions) THEN u ELSE unions[k]
        BY <1>4, <3>1
      <3>5. unions' # <<>>
        BY <3>2, <3>4
      <3> QED
        BY <2>2, <3>1, <3>3, <3>4, <3>5
    <2> QED
      BY <2>1, <2>2
  <1>6. control' = control \/ control' = Error("invariant", control.lost)
    BY DEF LeaveChoice
  <1>7. Good(control) => Good(control')
    BY <1>6 DEF Good, Error
  <1> HIDE DEF taken, result
  <1>8. Straight' /\ Told'
    <2>1. unions # <<>> => 1 \in 1..Len(unions)
      BY <1>4
    <2>2. recognised /\ unions = <<>> => Good(control')
      BY <1>1, <1>7 DEF EnumsInv, Straight
    <2> QED
      BY <1>1, <1>5, <2>1, <2>2, StraightReturned
  <1>9. \A k \in 1..Len(choices') : ~choices'[k].ran
    BY <1>1, <1>3 DEF EnumsInv, RanLast
  <1>10. RanLast'
    <2>1. choices' # <<>> => Len(choices') \in 1..Len(choices')
      BY <1>3, EmptySeq
    <2> QED
      BY <1>9, <2>1 DEF RanLast, ChoiceRan
  <1>11. Supplied'
    BY <1>1, <1>2, SuppliedReturned
  <1>12. ASSUME NEW i \in 1..Len(calls), i < Len(calls), i + 2 >= Len(calls), Watched(calls[i]), control'.task = "value"
         PROVE  Fits(control', unions'[Rank(calls, "union", i)])
    <2>1. i + 2 = Len(calls) /\ LayerOf(calls[i + 1]) = Core
      <3>1. i + 1 = Len(calls) \/ i + 2 = Len(calls)
        BY <1>2, <1>12
      <3>2. i + 1 \in 1..Len(calls)
        BY <1>2, <1>12
      <3>3. IsCore(calls[i + 1], {"union"})
        BY <1>12, <3>2, FramedUnion
      <3> QED
        BY <1>2, <3>1, <3>3 DEF IsCore
    <2>2. Rank(calls, "union", i) = Len(unions) /\ Len(unions) \in 1..Len(unions)
      <3>1. Rank(calls, "union", i) \in 1..Len(unions)
        BY <1>12, FrameOfCall DEF Watched
      <3>2. \A j \in (i + 1)..Len(calls) : LayerOf(calls[j]) # "union"
        <4> TAKE j \in (i + 1)..Len(calls)
        <4>1. j = i + 1 \/ j = Len(calls)
          BY <1>2, <2>1
        <4> QED
          BY <1>2, <2>1, <4>1 DEF Core
      <3>3. Rank(calls, "union", i) = Rank(calls, "union", Len(calls))
        BY <1>2, <3>2, RankGap
      <3> QED
        BY <1>4, <3>1, <3>3 DEF BaseInv, Framed
    <2>3. control' = control /\ taken
      <3>1. Error("invariant", control.lost).task = "error"
        BY DEF Error
      <3>2. control' = control
        BY <1>6, <1>12, <3>1
      <3>3. ~IsError
        BY <1>12, <3>2 DEF IsError
      <3>4. ~Last(choices).violation
        BY <1>12, <3>1, <3>3 DEF LeaveChoice
      <3> QED
        BY <1>4, <2>2, <3>2, <3>3, <3>4 DEF taken
    <2>4. result \in unions'[Rank(calls, "union", i)].results
      BY <1>5, <2>2, <2>3
    <2>5. result[1] = control'.value /\ (result[2] => Good(control'))
      <3>1. Last(choices).ran => ChoiceRan
        BY <1>3 DEF ChoiceRan
      <3> QED
        BY <1>1, <1>7, <2>3, <3>1 DEF result, EnumsInv, RanLast
    <2> QED
      BY <2>4, <2>5 DEF Fits
  <1>13. Recorded'
    <2>1. \A k \in 1..Len(unions) : unions[k].results \subseteq unions'[k].results
      BY <1>5
    <2> QED
      BY <1>1, <1>12, <2>1, RecordedReturned
  <1>14. Traced'
    <2>1. ASSUME NEW i \in 1..Len(calls), i < Len(calls), LayerOf(calls[i]) = "union",
                 NEW r \in unions'[Rank(calls, "union", i)].results, r \notin FrameOf(i).results, r[2]
          PROVE  HasInside(adapted, calls[i].node, {"record"})
      <3>1. Rank(calls, "union", i) \in 1..Len(unions)
        BY <2>1, FrameOfCall
      <3>2. r = result
        BY <1>5, <2>1, <3>1 DEF FrameOf
      <3>3. choices[Len(choices)].ran
        BY <1>3, <2>1, <3>2 DEF result
      <3>4. Records(adapted, calls[Len(calls)].node)
        BY <1>1, <1>2, <3>3 DEF EnumsInv, Traced, BaseInv, Framed
      <3>5. CoreOf(calls[i], calls[i + 1])
        BY <2>1 DEF Nested, Framing
      <3>6. i + 1 \in 1..Len(calls) /\ i + 1 < Len(calls)
        BY <1>2, <2>1, <3>5 DEF CoreOf
      <3>7. HasInside(adapted, calls[i + 1].node, {"record"})
        BY <1>2, <3>4, <3>5, <3>6, RecordsUp DEF CoreOf
      <3> QED
        BY <3>5, <3>7 DEF CoreOf
    <2>2. ASSUME NEW i \in 1..Len(calls), i < Len(calls), LayerOf(calls[i]) = "choice"
          PROVE  choices'[Rank(calls, "choice", i)] = choices[Rank(calls, "choice", i)]
      <3>1. Rank(calls, "choice", i) \in 1..Len(choices)
        BY <2>2, FrameOfCall
      <3>2. Rank(calls, "choice", i) < Len(choices)
        BY <1>2, <2>2, RankBelow DEF BaseInv, Framed
      <3> QED
        BY <1>3, <3>1, <3>2
    <2> QED
      BY <1>1, <2>1, <2>2, TracedReturned
  <1> QED
    BY <1>8, <1>10, <1>11, <1>13, <1>14 DEF EnumsInv

\* Choices that a union selects are those of good values.
LEMMA SelectedGood ==
  ASSUME EnumsWatched, BaseInv, Nested, EnumsInv, input = "stored", LayerOf(Top) = "union", Returning,
         control.task = "value", Selected(Last(unions))
  PROVE  Good(control) /\ HasInside(adapted, Top.node, {"record"})
  <1>1. /\ Top = calls[Len(calls)] /\ Len(calls) \in 1..Len(calls) /\ Len(calls) \in Nat /\ outcome = "running"
        /\ Closed(adapted) /\ Placed(adapted) /\ Top.node \in NodesOf(adapted) /\ Top.layer \in Nat \ {0}
        /\ LayerAt(Top.node, Top.layer) = "union"
    BY ReturnFacts DEF Returning, LayerOf
  <1>2. RecordsWatched(adapted)
    BY <1>1, EnumFacts
  <1>3. unions # <<>> /\ unions \in Seq(UnionRec)
    BY FramesThere
  <1>4. Last(unions) = FrameOf(Len(calls))
    BY <1>3, FrontOf DEF FrameOf, BaseInv, Framed
  <1>5. /\ \E r \in Last(unions).results : r[1] = control.value
        /\ \A r \in Last(unions).results : r[1] = control.value => r[2]
    BY DEF Selected
  <1>6. HasInside(adapted, Top.node, {"record"})
    BY <1>1, <1>4, <1>5 DEF EnumsInv, Traced
  <1>7. Top.node.type = "union" /\ Has(Top.node, {"union"})
    BY <1>1, FramingPlace
  <1>8. Has(Top.node, {"union", "choice"})
    BY <1>7 DEF Has
  <1>9. WatchesChoices(Top.node)
    BY <1>1, <1>2, <1>6, <1>7, <1>8 DEF RecordsWatched
  <1>10. Fits(control, Last(unions))
    <2>1. Watched(calls[Len(calls)]) /\ Len(calls) + 1 >= Len(calls)
      BY <1>1, <1>9 DEF Watched
    <2> QED
      BY <1>1, <1>4, <2>1 DEF EnumsInv, Recorded
  <1> QED
    BY <1>5, <1>6, <1>10 DEF Fits

\* A union that was told returns the stored value, unless a function ran in all that it could
\* have selected.
LEMMA EnumsUnion == EnumsWatched /\ BaseInv /\ Nested /\ EnumsInv /\ LeaveUnion => EnumsInv'
  <1> SUFFICES ASSUME EnumsWatched, BaseInv, Nested, EnumsInv, LeaveUnion, input' = "stored" PROVE EnumsInv'
    BY DEF EnumsInv
  <1>1. LayerStep /\ input = "stored" /\ recognised' = recognised
    BY DEF LayerStep, LeaveUnion
  <1>2. /\ LayerOf(Top) = "union" /\ LayerOf(Top) # Core /\ Returning /\ outcome = "running" /\ Len(calls) \in 1..Len(calls)
        /\ Top = calls[Len(calls)] /\ Len(calls) \in Nat
        /\ \A i \in 1..Len(calls) : i < Len(calls) /\ i + 2 >= Len(calls) => ~Watched(calls[i])
    <2>1. LayerAt(Top.node, Top.layer) = "union" /\ "union" # Core /\ "union" # "choice"
      BY DEF LeaveUnion, Leaving, Core
    <2> QED
      BY <1>1, <2>1, LayerLeft
  <1>3. /\ unions # <<>> /\ unions \in Seq(UnionRec) /\ Len(unions) \in Nat \ {0} /\ Last(unions) = unions[Len(unions)]
        /\ unions' = Front(unions) /\ Front(unions) \in Seq(UnionRec)
        /\ Len(Front(unions)) = Len(unions) - 1 /\ \A k \in 1..(Len(unions) - 1) : Front(unions)[k] = unions[k]
    BY <1>2, FramesThere, FrontOf DEF LeaveUnion, Popped
  <1>4. /\ \A i \in 1..Len(calls') : i \in 1..Len(calls) /\ i < Len(calls) /\ calls'[i] = calls[i]
        /\ \A i \in 1..Len(calls') : Rank(calls', "union", i) = Rank(calls, "union", i)
        /\ control'.task # "call" /\ control.task \in {"value", "error"}
    BY <1>1, ReturnStepCalls, ReturnedTask
  <1>5. Rank(calls, "union", Len(calls)) = Len(unions)
    BY DEF BaseInv, Framed
  <1>6. RepairsFramed(adapted) /\ RecordsWatched(adapted)
    BY <1>1, <1>2, EnumFacts
  <1> DEFINE selected == ~IsError /\ Selected(Last(unions))
  <1>7. selected => Good(control) /\ HasInside(adapted, Top.node, {"record"}) /\ control' = control
    <2>1. selected => control.task = "value"
      BY <1>4 DEF IsError
    <2> QED
      BY <1>1, <1>2, <2>1, SelectedGood DEF LeaveUnion
  <1>8. choices' = IF selected THEN Ran(choices) ELSE choices
    BY DEF LeaveUnion
  <1>9. control' = control \/ control' = Error("invariant", control.lost)
    BY DEF LeaveUnion
  <1>10. Good(control) => Good(control')
    BY <1>9 DEF Good, Error
  <1> HIDE DEF selected
  <1>11. Straight'
    <2> SUFFICES ASSUME recognised, unions' = <<>> PROVE Good(control') /\ \A i \in 1..Len(calls') : ~IsCore(calls'[i], {"union"})
      BY <1>1, <1>4 DEF Straight, Good
    <2>1. Len(unions) = 1
      BY <1>3
    <2>2. unions[1].suppressed /\ Top.value = "stored"
      BY <1>1, <1>2, <1>3, <1>5, <2>1 DEF EnumsInv, Told
    <2>3. Good(control')
      <3>1. CASE selected
        BY <1>7, <1>10, <3>1
      <3>2. CASE ~selected
        <4>1. IsError \/ control.value = "stored" \/ control' = Error("invariant", control.lost)
          BY <1>3, <2>1, <2>2, <3>2 DEF LeaveUnion, selected
        <4> QED
          BY <1>9, <4>1 DEF Good, Error, IsError
      <3> QED
        BY <3>1, <3>2
    <2>4. ASSUME NEW i \in 1..Len(calls'), IsCore(calls'[i], {"union"}) PROVE FALSE
      <3>1. i \in 1..Len(calls) /\ i < Len(calls) /\ IsCore(calls[i], {"union"})
        BY <1>4, <2>4
      <3>2. PICK j \in 1..Len(calls) : j < Len(calls) /\ LayerOf(calls[j]) = "union"
        BY <1>2, <1>6, <3>1, FrameAround
      <3>3. Rank(calls, "union", j) \in 1..Len(unions)
        BY <3>2, FrameOfCall
      <3>4. Rank(calls, "union", j) < Rank(calls, "union", Len(calls))
        BY <1>2, <3>2, RankBelow
      <3> QED
        BY <1>5, <2>1, <3>3, <3>4
    <2> QED
      BY <2>3, <2>4
  <1>12. Told'
    <2> SUFFICES ASSUME recognised, unions' # <<>>
                 PROVE  /\ unions'[1].suppressed
                        /\ \A i \in 1..Len(calls') : LayerOf(calls'[i]) = "union" /\ Rank(calls', "union", i) = 1 => calls'[i].value = "stored"
      BY <1>1 DEF Told
    <2>1. 1 \in 1..(Len(unions) - 1)
      BY <1>3, EmptySeq
    <2> QED
      BY <1>1, <1>3, <1>4, <2>1 DEF EnumsInv, Told
  <1>13. /\ RanLast'
         /\ \A i \in 1..Len(calls) : i < Len(calls) /\ LayerOf(calls[i]) = "choice" /\ choices'[Rank(calls, "choice", i)].ran =>
              choices[Rank(calls, "choice", i)].ran \/ Records(adapted, calls[i].node)
    <2>1. CASE selected
      <3>1. Records(adapted, Top.node) /\ Good(control') /\ choices' = Ran(choices)
        BY <1>7, <1>8, <1>10, <2>1 DEF Records
      <3> QED
        BY <1>1, <1>6, <3>1, ChoiceIsTold
    <2>2. CASE ~selected
      <3>1. choices' = choices
        BY <1>8, <2>2
      <3>2. ChoiceRan => Good(control')
        BY <1>1, <1>10 DEF EnumsInv, RanLast
      <3> QED
        BY <1>1, <3>1, <3>2, RanReturned
    <2> QED
      BY <2>1, <2>2
  <1>14. Recorded'
    <2>1. \A k \in 1..Len(unions) : k < Len(unions) => unions[k].results \subseteq unions'[k].results
      BY <1>3
    <2> QED
      BY <1>1, <1>2, <2>1, RecordedReturned
  <1>15. Traced'
    <2>1. ASSUME NEW i \in 1..Len(calls), i < Len(calls), LayerOf(calls[i]) = "union"
          PROVE  unions'[Rank(calls, "union", i)] = FrameOf(i)
      <3>1. Rank(calls, "union", i) \in 1..Len(unions)
        BY <2>1, FrameOfCall
      <3>2. Rank(calls, "union", i) < Len(unions)
        BY <1>2, <1>5, <2>1, RankBelow
      <3> QED
        BY <1>3, <3>1, <3>2 DEF FrameOf
    <2> QED
      BY <1>1, <1>13, <2>1, TracedReturned
  <1>16. Supplied'
    BY <1>1, <1>2, SuppliedReturned
  <1> QED
    BY <1>11, <1>12, <1>13, <1>14, <1>15, <1>16 DEF EnumsInv

\* A stored value that was recognised is so known.
LEMMA AlwaysEnums ==
  ASSUME EnumsWatched
  PROVE  Spec => []EnumsInv
  <1>1. Init => EnumsInv
    <2> SUFFICES ASSUME Init PROVE EnumsInv
      OBVIOUS
    <2>1. /\ calls = <<>> /\ choices = <<>> /\ unions = <<>> /\ recognised = FALSE
          /\ control = Nothing \/ control = Todo(adapted.root, 1, input)
      BY DEF Init
    <2>2. control.task # "value" /\ Len(calls) = 0 /\ Len(choices) = 0
      BY <2>1 DEF Nothing, Todo
    <2> QED
      BY <2>1, <2>2 DEF EnumsInv, Straight, Told, RanLast, ChoiceRan, Recorded, Traced, Supplied
  <1>2. BaseInv /\ Plain /\ Nested /\ EnumsInv /\ [Next]_vars => EnumsInv'
    <2>1. ASSUME EnumsInv, End \/ UNCHANGED vars PROVE EnumsInv'
      <3>1. UNCHANGED <<adapted, input, calls, control, unions, choices, recognised>>
        BY <2>1 DEF End, vars, frames
      <3>2. \A i \in 1..Len(calls) : \A layer : Rank(calls', layer, i) = Rank(calls, layer, i)
        BY <3>1
      <3>3. Straight' <=> Straight
        BY <3>1 DEF Straight, Good
      <3>4. Told' <=> Told
        BY <3>1 DEF Told
      <3>5. RanLast' <=> RanLast
        BY <3>1 DEF RanLast, ChoiceRan, Good
      <3>6. Recorded' <=> Recorded
        BY <3>1 DEF Recorded, FrameOf, Fits, Good
      <3>7. Traced' <=> Traced
        BY <3>1 DEF Traced, FrameOf
      <3>8. Supplied' <=> Supplied
        BY <3>1 DEF Supplied
      <3> QED
        BY <2>1, <3>1, <3>3, <3>4, <3>5, <3>6, <3>7, <3>8 DEF EnumsInv
    <2>2. ASSUME BaseInv, Plain, Nested, EnumsInv, EndSet PROVE EnumsInv'
      <3>1. Returning /\ IsCore(Top, {"set"}) /\ input' = input
        BY <2>2, ReturnStepCalls, ReturnFacts DEF CoreStep, EndSet, LeavingNode, Leaving, IsCore
      <3> QED
        BY <2>2, <3>1, StoredNoSet DEF EnumsInv
    <2>3. ASSUME BaseInv, Plain, Nested, EnumsInv, LeaveGuard \/ LeaveMapping PROVE EnumsInv'
      <3>1. input' = input
        BY <2>3 DEF LeaveGuard, LeaveMapping
      <3> QED
        BY <2>3, <3>1, EnumsThrough DEF EnumsInv
    <2> QED
      BY <2>1, <2>2, <2>3, EnumsCalls, EnumsAgain, EnumsEndUnion, EnumsApplication, EnumsRetry, EnumsRecord, EnumsChoice, EnumsUnion
      DEF Next, Ended, CallStep, AgainStep
  <1> QED
    BY <1>1, <1>2, AlwaysBase, AlwaysPlain, AlwaysNested, PTL DEF Spec

\* A stored enum value that validation recognised keeps its type, or a function of the
\* application took part in what was selected, in schemas in which unions have the frames and
\* watch the records that EnumsWatched says: EnumKept of CanonicalValidation.
THEOREM MembersAreKept ==
  ASSUME EnumsWatched
  PROVE  Spec => []EnumKept
  <1>1. BaseInv /\ EnumsInv => EnumKept
    <2> SUFFICES ASSUME BaseInv, EnumsInv, outcome = "delivered", input = "stored", recognised
                 PROVE  control.value = "stored" \/ control.app
      BY DEF EnumKept
    <2>1. control.task = "value" /\ calls = <<>> /\ Len(calls) = 0 /\ unions \in Seq(UnionRec)
      BY DEF BaseInv, Sorted
    <2>2. unions = <<>>
      BY <2>1, RankZero, EmptySeq DEF BaseInv, Framed
    <2> QED
      BY <2>1, <2>2 DEF EnumsInv, Straight, Good
  <1> QED
    BY <1>1, AlwaysBase, AlwaysEnums, PTL
================================================================================
