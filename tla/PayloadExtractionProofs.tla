------------------------ MODULE PayloadExtractionProofs ------------------------
(***************************************************************************)
(* Proofs about the extraction of payloads, for all heaps of source        *)
(* objects and all declarations.                                           *)
(*                                                                         *)
(* The recursive functions of the model are fixed points: that there are   *)
(* some, and that they satisfy the equations they are written with, is     *)
(* proved first.                                                           *)
(***************************************************************************)
EXTENDS PayloadExtraction, FiniteSetTheorems, SequenceTheorems, WellFoundedInduction, TLAPS

-----------------------------------------------------------------------------
(* Numbers, sets and sequences. *)

\* A set of natural numbers has a least element.
LEMMA LeastNumber ==
  ASSUME NEW T \in SUBSET Nat, T # {}
  PROVE  \E x \in T : \A y \in T : x <= y
<1> DEFINE R == OpToRel(<, Nat)
<1>1. IsWellFoundedOn(R, Nat)
  BY NatLessThanWellFounded, Zenon
<1>2. \A x, y \in Nat : x < y <=> <<x, y>> \in R
  BY DEF OpToRel
<1> HIDE DEF R
<1>3. PICK x \in T : \A y \in T : ~(<<y, x>> \in R)
  BY <1>1, WFMin
<1>4. x \in Nat /\ \A y \in T : y \in Nat /\ ~(y < x)
  BY <1>2, <1>3
<1>5. \A y \in T : x <= y
  BY <1>4
<1>6. QED
  BY <1>5

\* Induction over the natural numbers, where what holds below n holds for n.
LEMMA Induction ==
  ASSUME NEW S, \A n \in Nat : (\A m \in Nat : m < n => m \in S) => n \in S
  PROVE  Nat \subseteq S
<1>1. SUFFICES ASSUME Nat \ S # {}
               PROVE  FALSE
  OBVIOUS
<1>2. PICK x \in Nat \ S : \A y \in Nat \ S : x <= y
  BY <1>1, LeastNumber
<1>3. \A m \in Nat : m < x => m \in S
  BY <1>2
<1>4. QED
  BY <1>2, <1>3

\* Truth values are equal when each implies the other.
LEMMA SameTruth ==
  ASSUME NEW a \in BOOLEAN, NEW b \in BOOLEAN, a <=> b
  PROVE  a = b
OBVIOUS

\* A monotone function on the subsets of a set has a fixed point.
LEMMA FixedPoint ==
  ASSUME NEW X, NEW F \in [SUBSET X -> SUBSET X],
         \A S, T \in SUBSET X : S \subseteq T => F[S] \subseteq F[T]
  PROVE  \E S \in SUBSET X : F[S] = S
<1> DEFINE S == UNION {T \in SUBSET X : T \subseteq F[T]}
<1>1. S \in SUBSET X
  OBVIOUS
<1>2. S \subseteq F[S]
  <2>1. SUFFICES ASSUME NEW T \in SUBSET X, T \subseteq F[T] PROVE T \subseteq F[S]
    OBVIOUS
  <2>2. T \subseteq S
    BY <2>1
  <2>3. F[T] \subseteq F[S]
    BY <1>1, <2>2
  <2>4. QED
    BY <2>1, <2>3
<1>3. F[S] \in SUBSET X
  BY <1>1
<1>4. F[S] \subseteq F[F[S]]
  BY <1>1, <1>2, <1>3
<1>5. F[S] \subseteq S
  BY <1>3, <1>4
<1>6. QED
  BY <1>1, <1>2, <1>5

\* The numbers of a finite set, in order, are the numbers of the set, each once.
LEMMA InOrderOnce ==
  ASSUME NEW S \in SUBSET Nat, IsFiniteSet(S)
  PROVE  /\ InOrder(S) \in Seq(S)
         /\ \E n \in Nat : DOMAIN InOrder(S) = 1 .. n /\ Len(InOrder(S)) = n
         /\ \A i \in DOMAIN InOrder(S) : InOrder(S)[i] \in S
         /\ \A i, j \in DOMAIN InOrder(S) : InOrder(S)[i] = InOrder(S)[j] => i = j
         /\ \A i \in S : \E n \in DOMAIN InOrder(S) : InOrder(S)[n] = i
<1> DEFINE N == Cardinality(S)
           upto == [i \in S |-> {j \in S : j <= i}]
           rank == [i \in S |-> Cardinality(upto[i])]
           order == InOrder(S)
<1>1. N \in Nat /\ IsFiniteSet(1 .. N) /\ Cardinality(1 .. N) = N
  BY FS_CardinalityType, FS_Interval
<1>2. ASSUME NEW i \in S
      PROVE  IsFiniteSet(upto[i]) /\ i \in upto[i] /\ rank[i] \in 1 .. N
  <2>1. upto[i] \subseteq S /\ i \in upto[i]
    OBVIOUS
  <2>2. IsFiniteSet(upto[i]) /\ Cardinality(upto[i]) <= N
    BY <2>1, FS_Subset
  <2>3. Cardinality(upto[i]) \in Nat /\ Cardinality(upto[i]) # 0
    BY <2>1, <2>2, FS_CardinalityType, FS_EmptySet
  <2>4. rank[i] = Cardinality(upto[i])
    OBVIOUS
  <2> HIDE DEF rank, upto
  <2>5. QED
    BY <1>1, <2>1, <2>2, <2>3, <2>4
<1>3. ASSUME NEW i \in S, NEW j \in S, i < j
      PROVE  rank[i] # rank[j]
  <2>1. upto[i] \subseteq upto[j] /\ j \notin upto[i]
    <3>1. \A m \in S : m \in Nat /\ (m <= i => m <= j)
      BY <1>3
    <3>2. ~(j <= i)
      BY <1>3
    <3>3. QED
      BY <3>1, <3>2
  <2>2. Cardinality(upto[i]) = Cardinality(upto[j]) => upto[i] = upto[j]
    BY <1>2, <2>1, FS_Subset
  <2>3. QED
    BY <1>2, <2>1, <2>2
<1>4. rank \in Injection(S, 1 .. N)
  <2>1. \A i, j \in S : rank[i] = rank[j] => i = j
    <3> HIDE DEF rank
    <3>1. QED
      BY <1>3
  <2>2. rank \in [S -> 1 .. N]
    BY <1>2
  <2>3. QED
    BY <2>1, <2>2 DEF Injection, IsInjective
<1>5. rank \in Surjection(S, 1 .. N)
  BY <1>1, <1>4, FS_Injection
<1>6. ASSUME NEW n \in 1 .. N
      PROVE  order[n] \in S /\ rank[order[n]] = n
  <2>1. \E i \in S : Cardinality({j \in S : j <= i}) = n
    BY <1>5 DEF Surjection
  <2>2. order[n] = CHOOSE i \in S : Cardinality({j \in S : j <= i}) = n
    BY DEF InOrder
  <2>3. QED
    BY <2>1, <2>2
<1>7. DOMAIN order = 1 .. N /\ order = [n \in 1 .. N |-> order[n]]
  <2> DEFINE nth(n) == CHOOSE i \in S : Cardinality({j \in S : j <= i}) = n
  <2>1. order = [n \in 1 .. N |-> nth(n)]
    BY DEF InOrder
  <2> HIDE DEF nth, order
  <2>2. QED
    BY <2>1
<1> HIDE DEF order, rank, upto
<1>8. order \in [1 .. N -> S]
  BY <1>6, <1>7
<1>9. order \in Seq(S)
  BY <1>1, <1>8, IsASeq
<1>10. \A i, j \in DOMAIN order : order[i] = order[j] => i = j
  BY <1>6, <1>7
<1>11. Len(order) = N
  BY <1>1, <1>7, <1>9
<1>12. ASSUME NEW i \in S
       PROVE  \E n \in DOMAIN order : order[n] = i
  <2>1. rank[i] \in 1 .. N /\ rank[order[rank[i]]] = rank[i]
    BY <1>2, <1>6
  <2>2. order[rank[i]] = i
    BY <1>4, <1>6, <2>1 DEF Injection, IsInjective
  <2>3. QED
    BY <1>7, <2>1, <2>2
<1>13. QED
  BY <1>1, <1>6, <1>7, <1>9, <1>10, <1>11, <1>12 DEF order

-----------------------------------------------------------------------------
(* What the recursive functions satisfy. *)

\* All that an object refers to is in the heap.
Closed(h) == \A p \in DOMAIN h : Range(h[p].of) \subseteq DOMAIN h

HashableIf(h, p, S) ==
  /\ h[p].kind \notin {"list", "set"}
  /\ h[p].kind = "dict" => h[p].carrier
  /\ h[p].kind \in {"tuple", "frozenset"} => \A q \in Range(h[p].of) : q \in S

\* What is hashable, by what it consists of.
LEMMA HashableEquation ==
  ASSUME NEW h, Closed(h), NEW o \in DOMAIN h
  PROVE  Hashable(h, o) <=>
           /\ h[o].kind \notin {"list", "set"}
           /\ h[o].kind = "dict" => h[o].carrier
           /\ h[o].kind \in {"tuple", "frozenset"} => \A q \in Range(h[o].of) : Hashable(h, q)
<1> DEFINE X == DOMAIN h
           F == [S \in SUBSET X |-> {p \in X : HashableIf(h, p, S)}]
           E(f, p) ==
             /\ h[p].kind \notin {"list", "set"}
             /\ h[p].kind = "dict" => h[p].carrier
             /\ h[p].kind \in {"tuple", "frozenset"} => \A q \in Range(h[p].of) : f[q]
           hashable == CHOOSE f : f = [p \in X |-> E(f, p)]
<1>1. \E S \in SUBSET X : F[S] = S
  <2>1. \A S, T \in SUBSET X : S \subseteq T => F[S] \subseteq F[T]
    BY DEF HashableIf
  <2>2. F \in [SUBSET X -> SUBSET X]
    OBVIOUS
  <2> HIDE DEF F, X
  <2>3. QED
    BY <2>1, <2>2, FixedPoint
<1>2. PICK S \in SUBSET X : F[S] = S
  BY <1>1
<1> DEFINE g == [p \in X |-> p \in S]
<1>3. ASSUME NEW p \in X
      PROVE  g[p] = E(g, p)
  <2>1. \A q \in Range(h[p].of) : g[q] = (q \in S)
    BY DEF Closed
  <2>2. p \in S <=> HashableIf(h, p, S)
    BY <1>2
  <2>3. E(g, p) <=> HashableIf(h, p, S)
    BY <2>1 DEF HashableIf
  <2>4. E(g, p) \in BOOLEAN /\ (p \in S) \in BOOLEAN
    OBVIOUS
  <2>5. (p \in S) = E(g, p)
    BY <2>2, <2>3, <2>4, SameTruth
  <2>6. QED
    BY <2>5
<1>4. g = [p \in X |-> E(g, p)]
  BY <1>3, Zenon
<1>5. hashable = [p \in X |-> E(hashable, p)]
  BY <1>4, Zenon
<1>6. \A p \in X : Hashable(h, p) = hashable[p]
  BY DEF Hashable
<1> HIDE DEF hashable
<1>7. hashable[o] = E(hashable, o)
  BY <1>5
<1>8. \A q \in Range(h[o].of) : Hashable(h, q) = hashable[q]
  BY <1>6 DEF Closed
<1>9. QED
  BY <1>6, <1>7, <1>8

SameIf(h, x, S) ==
  \/ x[1] = x[2]
  \/ /\ h[x[1]].kind = h[x[2]].kind /\ h[x[1]].kind \in {"dict", "list", "tuple"}
     /\ ~h[x[1]].carrier /\ ~h[x[2]].carrier
     /\ DOMAIN h[x[1]].of = DOMAIN h[x[2]].of
     /\ \A k \in DOMAIN h[x[1]].of : <<h[x[1]].of[k], h[x[2]].of[k]>> \in S
  \/ /\ {h[x[1]].kind, h[x[2]].kind} \subseteq {"set", "frozenset"}
     /\ \A y \in Range(h[x[1]].of) : \E z \in Range(h[x[2]].of) : <<y, z>> \in S
     /\ \A z \in Range(h[x[2]].of) : \E y \in Range(h[x[1]].of) : <<y, z>> \in S

\* What is the same, by what it consists of.
LEMMA SameEquation ==
  ASSUME NEW h, Closed(h), NEW o \in DOMAIN h, NEW p \in DOMAIN h
  PROVE  Same(h, o, p) <=>
           \/ o = p
           \/ /\ h[o].kind = h[p].kind /\ h[o].kind \in {"dict", "list", "tuple"}
              /\ ~h[o].carrier /\ ~h[p].carrier
              /\ DOMAIN h[o].of = DOMAIN h[p].of
              /\ \A k \in DOMAIN h[o].of : Same(h, h[o].of[k], h[p].of[k])
           \/ /\ {h[o].kind, h[p].kind} \subseteq {"set", "frozenset"}
              /\ \A y \in Range(h[o].of) : \E z \in Range(h[p].of) : Same(h, y, z)
              /\ \A z \in Range(h[p].of) : \E y \in Range(h[o].of) : Same(h, y, z)
<1> DEFINE X == (DOMAIN h) \X (DOMAIN h)
           F == [S \in SUBSET X |-> {x \in X : SameIf(h, x, S)}]
           E(f, x) ==
             \/ x[1] = x[2]
             \/ /\ h[x[1]].kind = h[x[2]].kind /\ h[x[1]].kind \in {"dict", "list", "tuple"}
                /\ ~h[x[1]].carrier /\ ~h[x[2]].carrier
                /\ DOMAIN h[x[1]].of = DOMAIN h[x[2]].of
                /\ \A k \in DOMAIN h[x[1]].of : f[<<h[x[1]].of[k], h[x[2]].of[k]>>]
             \/ /\ {h[x[1]].kind, h[x[2]].kind} \subseteq {"set", "frozenset"}
                /\ \A y \in Range(h[x[1]].of) : \E z \in Range(h[x[2]].of) : f[<<y, z>>]
                /\ \A z \in Range(h[x[2]].of) : \E y \in Range(h[x[1]].of) : f[<<y, z>>]
           same == CHOOSE f : f = [x \in X |-> E(f, x)]
<1>1. \E S \in SUBSET X : F[S] = S
  <2>1. ASSUME NEW S \in SUBSET X, NEW T \in SUBSET X, S \subseteq T, NEW x \in X, SameIf(h, x, S)
        PROVE  SameIf(h, x, T)
    BY <2>1, Zenon DEF SameIf
  <2>2. \A S, T \in SUBSET X : S \subseteq T => F[S] \subseteq F[T]
    BY <2>1
  <2>3. F \in [SUBSET X -> SUBSET X]
    OBVIOUS
  <2> HIDE DEF F, X
  <2>4. QED
    BY <2>2, <2>3, FixedPoint
<1>2. PICK S \in SUBSET X : F[S] = S
  BY <1>1
<1> DEFINE g == [x \in X |-> x \in S]
<1>3. ASSUME NEW x \in X
      PROVE  g[x] = E(g, x)
  <2>1. x[1] \in DOMAIN h /\ x[2] \in DOMAIN h
    OBVIOUS
  <2>2. \A y \in Range(h[x[1]].of), z \in Range(h[x[2]].of) : g[<<y, z>>] = (<<y, z>> \in S)
    BY <2>1 DEF Closed
  <2>3. \A k \in DOMAIN h[x[1]].of : h[x[1]].of[k] \in Range(h[x[1]].of)
    BY DEF Range
  <2>4. \A k \in DOMAIN h[x[2]].of : h[x[2]].of[k] \in Range(h[x[2]].of)
    BY DEF Range
  <2>5. x \in S <=> SameIf(h, x, S)
    BY <1>2
  <2> HIDE DEF g
  <2>6. E(g, x) <=> SameIf(h, x, S)
    <3> DEFINE v == h[x[1]].of
               w == h[x[2]].of
               A == \A k \in DOMAIN v : g[<<v[k], w[k]>>]
               B == \A k \in DOMAIN v : <<v[k], w[k]>> \in S
               C == (\A y \in Range(v) : \E z \in Range(w) : g[<<y, z>>])
                      /\ (\A z \in Range(w) : \E y \in Range(v) : g[<<y, z>>])
               D == (\A y \in Range(v) : \E z \in Range(w) : <<y, z>> \in S)
                      /\ (\A z \in Range(w) : \E y \in Range(v) : <<y, z>> \in S)
               a == x[1] = x[2]
               b == h[x[1]].kind = h[x[2]].kind /\ h[x[1]].kind \in {"dict", "list", "tuple"}
                      /\ ~h[x[1]].carrier /\ ~h[x[2]].carrier
               c == {h[x[1]].kind, h[x[2]].kind} \subseteq {"set", "frozenset"}
               d == DOMAIN v = DOMAIN w
    <3>0. \A y \in Range(v) : \A z \in Range(w) : g[<<y, z>>] <=> <<y, z>> \in S
      BY <2>2, Zenon
    <3>1. d => (A <=> B)
      <4> SUFFICES ASSUME d
                   PROVE  A <=> B
        OBVIOUS
      <4>1. ASSUME NEW k \in DOMAIN v
            PROVE  g[<<v[k], w[k]>>] <=> <<v[k], w[k]>> \in S
        <5>1. v[k] \in Range(v) /\ w[k] \in Range(w)
          BY <2>3, <2>4
        <5> HIDE DEF v, w
        <5>2. QED
          BY <3>0, <5>1
      <4> HIDE DEF v, w
      <4>2. QED
        BY <4>1, Zenon
    <3>2. C <=> D
      <4> HIDE DEF v, w
      <4>1. QED
        BY <3>0, Zenon
    <3>3. SameIf(h, x, S) <=> a \/ (b /\ d /\ B) \/ (c /\ D)
      BY Zenon DEF SameIf
    <3>4. E(g, x) <=> a \/ (b /\ d /\ A) \/ (c /\ C)
      BY Zenon
    <3> HIDE DEF a, b, c, d, A, B, C, D, E
    <3>5. QED
      BY <3>1, <3>2, <3>3, <3>4, Zenon
  <2>7. E(g, x) \in BOOLEAN /\ (x \in S) \in BOOLEAN
    OBVIOUS
  <2>8. (x \in S) = E(g, x)
    BY <2>5, <2>6, <2>7, SameTruth
  <2>9. QED
    BY <2>8 DEF g
<1>4. g = [x \in X |-> E(g, x)]
  BY <1>3, Zenon
<1>5. same = [x \in X |-> E(same, x)]
  BY <1>4, Zenon
<1>6. \A y, z \in DOMAIN h : Same(h, y, z) = same[<<y, z>>]
  BY DEF Same
<1> HIDE DEF same
<1>7. same[<<o, p>>] = E(same, <<o, p>>)
  BY <1>5
<1>8. \A y \in Range(h[o].of), z \in Range(h[p].of) : Same(h, y, z) = same[<<y, z>>]
  BY <1>6 DEF Closed
<1>9. \A k \in DOMAIN h[o].of : h[o].of[k] \in Range(h[o].of)
  BY DEF Range
<1>10. \A k \in DOMAIN h[p].of : h[p].of[k] \in Range(h[p].of)
  BY DEF Range
<1>11. same[<<o, p>>] <=>
           \/ o = p
           \/ /\ h[o].kind = h[p].kind /\ h[o].kind \in {"dict", "list", "tuple"}
              /\ ~h[o].carrier /\ ~h[p].carrier
              /\ DOMAIN h[o].of = DOMAIN h[p].of
              /\ \A k \in DOMAIN h[o].of : same[<<h[o].of[k], h[p].of[k]>>]
           \/ /\ {h[o].kind, h[p].kind} \subseteq {"set", "frozenset"}
              /\ \A y \in Range(h[o].of) : \E z \in Range(h[p].of) : same[<<y, z>>]
              /\ \A z \in Range(h[p].of) : \E y \in Range(h[o].of) : same[<<y, z>>]
  BY <1>7
<1>12. DOMAIN h[o].of = DOMAIN h[p].of =>
         \A k \in DOMAIN h[o].of : Same(h, h[o].of[k], h[p].of[k]) = same[<<h[o].of[k], h[p].of[k]>>]
  BY <1>8, <1>9, <1>10
<1>13. Same(h, o, p) = same[<<o, p>>]
  BY <1>6
<1>14. QED
  BY <1>8, <1>11, <1>12, <1>13, Zenon

CarriersIf(h, x, S) ==
  IF h[x[1]].kind = "dict" /\ h[x[1]].carrier THEN x[2] = x[1]
  ELSE IF h[x[1]].kind \in {"tuple", "frozenset"} THEN \E q \in Range(h[x[1]].of) : <<q, x[2]>> \in S
  ELSE FALSE

\* The carriers in an object, by what it consists of.
LEMMA CarriersEquation ==
  ASSUME NEW h, Closed(h), NEW o \in DOMAIN h
  PROVE  Carriers(h, o) =
           IF h[o].kind = "dict" /\ h[o].carrier THEN {o}
           ELSE IF h[o].kind \in {"tuple", "frozenset"} THEN UNION {Carriers(h, q) : q \in Range(h[o].of)}
           ELSE {}
<1> DEFINE D == DOMAIN h
           X == D \X D
           F == [S \in SUBSET X |-> {x \in X : CarriersIf(h, x, S)}]
           E(f, p) ==
             IF h[p].kind = "dict" /\ h[p].carrier THEN {p}
             ELSE IF h[p].kind \in {"tuple", "frozenset"} THEN UNION {f[q] : q \in Range(h[p].of)}
             ELSE {}
           carriers == CHOOSE f : f = [p \in D |-> E(f, p)]
<1>1. \E S \in SUBSET X : F[S] = S
  <2>1. ASSUME NEW S \in SUBSET X, NEW T \in SUBSET X, S \subseteq T, NEW x \in X, CarriersIf(h, x, S)
        PROVE  CarriersIf(h, x, T)
    BY <2>1 DEF CarriersIf
  <2>2. \A S, T \in SUBSET X : S \subseteq T => F[S] \subseteq F[T]
    BY <2>1
  <2>3. F \in [SUBSET X -> SUBSET X]
    OBVIOUS
  <2> HIDE DEF F, X
  <2>4. QED
    BY <2>2, <2>3, FixedPoint
<1>2. PICK S \in SUBSET X : F[S] = S
  BY <1>1
<1> DEFINE g == [p \in D |-> {q \in D : <<p, q>> \in S}]
<1>3. ASSUME NEW p \in D
      PROVE  g[p] = E(g, p)
  <2>1. \A q \in D : q \in g[p] <=> CarriersIf(h, <<p, q>>, S)
    BY <1>2
  <2>2. \A r \in Range(h[p].of) : r \in D /\ g[r] = {q \in D : <<r, q>> \in S}
    BY DEF Closed
  <2>3. g[p] \subseteq D
    OBVIOUS
  <2> HIDE DEF g
  <2>4. CASE h[p].kind = "dict" /\ h[p].carrier
    BY <2>1, <2>3, <2>4 DEF CarriersIf
  <2>5. CASE ~(h[p].kind = "dict" /\ h[p].carrier) /\ h[p].kind \in {"tuple", "frozenset"}
    <3>1. \A q \in D : q \in g[p] <=> \E r \in Range(h[p].of) : <<r, q>> \in S
      BY <2>1, <2>5 DEF CarriersIf
    <3>2. \A q \in D : q \in g[p] <=> \E r \in Range(h[p].of) : q \in g[r]
      BY <2>2, <3>1
    <3>3. UNION {g[r] : r \in Range(h[p].of)} \subseteq D
      <4>1. \A r \in Range(h[p].of) : g[r] \subseteq D
        BY <2>2
      <4>2. QED
        BY <4>1
    <3>4. g[p] = UNION {g[r] : r \in Range(h[p].of)}
      BY <2>3, <3>2, <3>3
    <3>5. QED
      BY <2>5, <3>4
  <2>6. CASE ~(h[p].kind = "dict" /\ h[p].carrier) /\ h[p].kind \notin {"tuple", "frozenset"}
    BY <2>1, <2>3, <2>6 DEF CarriersIf
  <2>7. QED
    BY <2>4, <2>5, <2>6
<1>4. g = [p \in D |-> E(g, p)]
  BY <1>3, Zenon
<1>5. carriers = [p \in D |-> E(carriers, p)]
  BY <1>4, Zenon
<1>6. \A p \in D : Carriers(h, p) = carriers[p]
  BY DEF Carriers
<1> HIDE DEF carriers
<1>7. carriers[o] = E(carriers, o)
  BY <1>5
<1>8. \A q \in Range(h[o].of) : Carriers(h, q) = carriers[q]
  BY <1>6 DEF Closed
<1>9. {Carriers(h, q) : q \in Range(h[o].of)} = {carriers[q] : q \in Range(h[o].of)}
  BY <1>8
<1>10. QED
  BY <1>6, <1>7, <1>9

\* What is reached from S stays in a set that holds what its members consist of.
LEMMA ClosureWithin ==
  ASSUME NEW h, Cardinality(DOMAIN h) \in Nat, NEW T, NEW S \in SUBSET T,
         \A o \in T : Inside(h, o) \subseteq T
  PROVE  Closure(h, S) \subseteq T
<1> DEFINE N == Cardinality(DOMAIN h)
           X == (0 .. N) \X T
           If(x, R) ==
             IF x[1] = 0 THEN x[2] \in S
             ELSE <<x[1] - 1, x[2]>> \in R \/ \E o \in T : <<x[1] - 1, o>> \in R /\ x[2] \in Inside(h, o)
           F == [R \in SUBSET X |-> {x \in X : If(x, R)}]
           E(f, n) == IF n = 0 THEN S ELSE LET U == f[n - 1] IN U \cup UNION {Inside(h, o) : o \in U}
           within == CHOOSE f : f = [n \in 0 .. N |-> E(f, n)]
<1>1. \E R \in SUBSET X : F[R] = R
  <2>1. ASSUME NEW R \in SUBSET X, NEW Q \in SUBSET X, R \subseteq Q, NEW x \in X, If(x, R)
        PROVE  If(x, Q)
    BY <2>1
  <2> HIDE DEF If
  <2>2. \A R, Q \in SUBSET X : R \subseteq Q => F[R] \subseteq F[Q]
    BY <2>1
  <2>3. F \in [SUBSET X -> SUBSET X]
    OBVIOUS
  <2> HIDE DEF F, X
  <2>4. QED
    BY <2>2, <2>3, FixedPoint
<1>2. PICK R \in SUBSET X : F[R] = R
  BY <1>1
<1> DEFINE g == [n \in 0 .. N |-> {o \in T : <<n, o>> \in R}]
<1>3. ASSUME NEW n \in 0 .. N
      PROVE  g[n] = E(g, n)
  <2>1. \A o \in T : o \in g[n] <=> If(<<n, o>>, R)
    BY <1>2
  <2>2. g[n] \subseteq T
    OBVIOUS
  <2>3. CASE n = 0
    <3>1. \A o \in T : o \in g[n] <=> o \in S
      BY <2>1, <2>3
    <3>2. g[n] = S
      BY <2>2, <3>1
    <3>3. QED
      BY <2>3, <3>2
  <2>4. CASE n # 0
    <3>1. n - 1 \in 0 .. N /\ g[n - 1] = {o \in T : <<n - 1, o>> \in R}
      BY <2>4
    <3>2. \A o \in T : o \in g[n] <=>
            <<n - 1, o>> \in R \/ \E q \in T : <<n - 1, q>> \in R /\ o \in Inside(h, q)
      BY <2>1, <2>4
    <3> DEFINE U == g[n - 1]
    <3>3. U \subseteq T /\ \A o \in T : o \in U <=> <<n - 1, o>> \in R
      BY <3>1
    <3> HIDE DEF g, U
    <3>4. \A o \in T : o \in g[n] <=> o \in U \/ \E q \in U : o \in Inside(h, q)
      BY <3>2, <3>3
    <3>5. U \cup UNION {Inside(h, o) : o \in U} \subseteq T
      BY <3>3
    <3>6. g[n] = U \cup UNION {Inside(h, o) : o \in U}
      BY <2>2, <3>4, <3>5
    <3>7. QED
      BY <2>4, <3>6 DEF U
  <2>5. QED
    BY <2>3, <2>4
<1>4. g = [n \in 0 .. N |-> E(g, n)]
  BY <1>3, Zenon
<1>5. within = [n \in 0 .. N |-> E(within, n)]
  BY <1>4, Zenon
<1>6. Closure(h, S) = within[N]
  BY DEF Closure
<1> HIDE DEF within
<1>7. \A n \in 0 .. N : within[n] = E(within, n)
  BY <1>5
<1> DEFINE P == {n \in Nat : n \in 0 .. N => within[n] \subseteq T}
<1>8. ASSUME NEW n \in Nat, \A m \in Nat : m < n => m \in P
      PROVE  n \in P
  <2>1. SUFFICES ASSUME n \in 0 .. N PROVE within[n] \subseteq T
    OBVIOUS
  <2>2. CASE n = 0
    BY <1>7, <2>1, <2>2
  <2>3. CASE n # 0
    <3>1. n - 1 \in Nat /\ n - 1 < n /\ n - 1 \in 0 .. N
      BY <2>1, <2>3
    <3>2. within[n - 1] \subseteq T
      BY <1>8, <3>1
    <3>3. within[n] = within[n - 1] \cup UNION {Inside(h, o) : o \in within[n - 1]}
      BY <1>7, <2>1, <2>3
    <3>4. QED
      BY <3>2, <3>3
  <2>4. QED
    BY <2>2, <2>3
<1>9. Nat \subseteq P
  <2> HIDE DEF P
  <2>1. QED
    BY <1>8, Induction
<1>10. QED
  BY <1>6, <1>9

-----------------------------------------------------------------------------
(* Parts. *)

\* Source objects.
LEMMA SourceObject ==
  ASSUME NEW h \in Sources, NEW o \in SourceRefs
  PROVE  /\ DOMAIN h = SourceRefs /\ Closed(h)
         /\ h[o].kind \in Structures \cup Collections \cup {"dict", "scalar", "none"}
         /\ ~h[o].carrier
         /\ Range(h[o].of) \subseteq SourceRefs
         /\ h[o].kind \in Structures => h[o].class \in DOMAIN Mro
         /\ h[o].kind \in Collections => h[o].of \in Seq(SourceRefs)
         /\ h[o].kind = "dict" => DOMAIN h[o].of \subseteq SourceRefs
         /\ h[o].kind \in {"scalar", "none"} => h[o].of = <<>>
BY SourcesAssumption DEF WellFormed, Closed

\* The fields of a class.
LEMMA ClassFields ==
  ASSUME NEW h \in Sources, NEW c \in DOMAIN Mro
  PROVE  /\ c # NoClass /\ Of(c) \in Forms
         /\ \A i \in DOMAIN Fields[c] :
              /\ Fields[c][i] \in SourceRefs /\ h[Fields[c][i]].kind = "scalar"
              /\ Declares[c][Fields[c][i]] \in Forms
<1>1. \A i \in DOMAIN Fields[c] : Fields[c][i] \in DOMAIN Declares[c]
  BY ClassesAssumption DEF ToSet
<1>2. QED
  BY <1>1, SourcesAssumption, FormsAssumption

\* The first of some arms of a union is an annotation.
LEMMA ArmIsForm ==
  ASSUME NEW a \in Forms, NEW I, I \subseteq DOMAIN a.args, NEW b \in Forms
  PROVE  ArmOf(a, I, b) \in Forms
<1>1. a.args \in Seq(Forms)
  BY FormsAssumption
<1>2. ASSUME I # {}
      PROVE  First(I) \in I
  <2>1. I \in SUBSET Nat
    BY <1>1
  <2>2. \E x \in I : \A y \in I : x <= y
    BY <1>2, <2>1, LeastNumber
  <2>3. QED
    BY <2>2 DEF First
<1>3. I # {} => a.args[First(I)] \in Forms
  BY <1>1, <1>2
<1>4. QED
  BY <1>3 DEF ArmOf

\* The annotation that matches is one.
LEMMA MatchingIsForm ==
  ASSUME NEW h, NEW o, NEW a \in Forms
  PROVE  Matching(h, o, a) \in Forms
<1>1. NearestArms(h, o, a.args, ClassArms(h, o, a.args)) \subseteq DOMAIN a.args
  BY DEF NearestArms, ClassArms
<1>2. MatchingArms(h, o, a.args) \subseteq DOMAIN a.args
  BY DEF MatchingArms
<1>3. KindArms(h, o, a.args) \subseteq DOMAIN a.args
  BY DEF KindArms
<1>4. ArmOf(a, KindArms(h, o, a.args), a) \in Forms
  BY <1>3, ArmIsForm
<1>5. ArmOf(a, MatchingArms(h, o, a.args), ArmOf(a, KindArms(h, o, a.args), a)) \in Forms
  BY <1>2, <1>4, ArmIsForm
<1>6. ArmOf(a, NearestArms(h, o, a.args, ClassArms(h, o, a.args)),
        ArmOf(a, MatchingArms(h, o, a.args), ArmOf(a, KindArms(h, o, a.args), a))) \in Forms
  BY <1>1, <1>5, ArmIsForm
<1>7. QED
  BY <1>6 DEF Matching

\* The class that an object is taken apart as.
LEMMA StructureIsClass ==
  ASSUME NEW h \in Sources, NEW p \in Parts
  PROVE  /\ Structure(h, p) \in DOMAIN Mro \cup {NoClass}
         /\ h[p.object].kind = "model" => Structure(h, p) \in DOMAIN Mro
<1> DEFINE o == p.object
           d == Matching(h, o, p.annotation)
<1>1. o \in SourceRefs /\ p.annotation \in Forms
  BY DEF Parts
<1>2. d \in Forms
  BY <1>1, MatchingIsForm
<1>3. d.form = "class" => d.class \in DOMAIN Mro
  BY <1>2, FormsAssumption
<1>4. h[o].kind \in Structures => h[o].class \in DOMAIN Mro
  BY <1>1, SourceObject
<1>5. SingleDataclass(d.args) \in DOMAIN Mro \cup {NoClass}
  <2> DEFINE I == {i \in DOMAIN d.args : d.args[i].form = "class" /\ Shape[d.args[i].class] = "dataclass"}
  <2>1. d.args \in Seq(Forms)
    BY <1>2, FormsAssumption
  <2>2. I \in SUBSET Nat
    BY <2>1
  <2>3. ASSUME Cardinality(I) = 1
        PROVE  d.args[First(I)].class \in DOMAIN Mro
    <3>1. I # {}
      BY <2>3, FS_EmptySet
    <3>2. \E x \in I : \A y \in I : x <= y
      <4> HIDE DEF I
      <4>1. QED
        BY <2>2, <3>1, LeastNumber
    <3>3. First(I) \in I
      BY <3>2 DEF First
    <3>4. First(I) \in DOMAIN d.args /\ d.args[First(I)].form = "class"
      BY <3>3
    <3>5. d.args[First(I)] \in Forms
      <4> HIDE DEF d, I
      <4>1. QED
        BY <2>1, <3>4
    <3>6. QED
      BY <3>4, <3>5, FormsAssumption
  <2>4. QED
    BY <2>3 DEF SingleDataclass
<1>6. StructureOf(h, o, d) \in DOMAIN Mro \cup {NoClass}
      /\ (h[o].kind = "model" => StructureOf(h, o, d) \in DOMAIN Mro)
  <2> HIDE DEF d, o
  <2>1. QED
    BY <1>3, <1>4, <1>5 DEF StructureOf, IsModel, IsModelClass, Structures
<1>7. QED
  BY <1>6 DEF Structure

\* The parts of an object, by what it is taken apart as.
LEMMA StructureParts ==
  ASSUME NEW h \in Sources, NEW p \in Parts, Structure(h, p) # NoClass
  PROVE  /\ PartsOf(h, p) \in Seq(Parts)
         /\ \A i \in DOMAIN PartsOf(h, p) : ~PartsOf(h, p)[i].hash
         /\ Crossing(h, p.object, Structure(h, p)) \in Seq(SourceRefs)
         /\ DOMAIN Crossing(h, p.object, Structure(h, p)) = DOMAIN PartsOf(h, p)
         /\ \A f \in ToSet(Crossing(h, p.object, Structure(h, p))) : h[f].kind = "scalar"
<1> DEFINE o == p.object
           c == Structure(h, p)
           K == {i \in DOMAIN Fields[c] : Fields[c][i] \in DOMAIN h[o].of \ Omitted[c]}
           names == Crossing(h, o, c)
<1>1. o \in SourceRefs /\ c \in DOMAIN Mro
  BY StructureIsClass DEF Parts
<1>2. PartsOf(h, p) = [i \in DOMAIN names |-> Part(h[o].of[names[i]], Declares[c][names[i]], FALSE)]
  BY DEF PartsOf, PartsAs, FieldParts
<1>3. PICK n \in Nat : DOMAIN Fields[c] = 1 .. n
  <2>1. Fields[c] \in Seq(DOMAIN Declares[c])
    BY <1>1, ClassesAssumption
  <2> HIDE DEF c
  <2>2. QED
    BY <2>1
<1>4. IsFiniteSet(K) /\ K \in SUBSET Nat
  <2>1. IsFiniteSet(1 .. n)
    BY FS_Interval
  <2>2. K \subseteq 1 .. n
    BY <1>3
  <2>3. QED
    BY <2>1, <2>2, FS_Subset
<1>5. /\ \E m \in Nat : DOMAIN InOrder(K) = 1 .. m
      /\ \A i \in DOMAIN InOrder(K) : InOrder(K)[i] \in K
  <2> HIDE DEF K
  <2>1. QED
    BY <1>4, InOrderOnce
<1>6. names = [i \in DOMAIN InOrder(K) |-> Fields[c][InOrder(K)[i]]]
  BY DEF Crossing
<1>7. \A i \in DOMAIN names :
        /\ names[i] \in SourceRefs /\ names[i] \in DOMAIN h[o].of /\ h[names[i]].kind = "scalar"
        /\ Declares[c][names[i]] \in Forms
  <2> TAKE i \in DOMAIN names
  <2>1. InOrder(K)[i] \in K /\ names[i] = Fields[c][InOrder(K)[i]]
    <3> HIDE DEF K, names
    <3>1. QED
      BY <1>5, <1>6
  <2>2. InOrder(K)[i] \in DOMAIN Fields[c] /\ names[i] \in DOMAIN h[o].of
    BY <2>1
  <2>3. QED
    BY <1>1, <2>1, <2>2, ClassFields
<1>8. PICK m \in Nat : DOMAIN names = 1 .. m
  <2>1. DOMAIN names = DOMAIN InOrder(K)
    BY <1>6
  <2> HIDE DEF K, names
  <2>2. QED
    BY <1>5, <2>1
<1>9. \A i \in DOMAIN names : h[o].of[names[i]] \in SourceRefs
  BY <1>1, <1>7, SourceObject DEF Range
<1>10. names \in Seq(SourceRefs)
  <2>1. names \in [1 .. m -> SourceRefs]
    BY <1>6, <1>7, <1>8
  <2>2. QED
    BY <2>1, IsASeq
<1> HIDE DEF names, o, c
<1>11. PartsOf(h, p) \in Seq(Parts) /\ DOMAIN PartsOf(h, p) = DOMAIN names
  <2>1. PartsOf(h, p) \in [1 .. m -> Parts] /\ DOMAIN PartsOf(h, p) = DOMAIN names
    BY <1>2, <1>7, <1>8, <1>9 DEF Part, Parts
  <2>2. QED
    BY <2>1, IsASeq
<1>12. \A i \in DOMAIN PartsOf(h, p) : ~PartsOf(h, p)[i].hash
  BY <1>2 DEF Part
<1>13. \A f \in ToSet(names) : h[f].kind = "scalar"
  BY <1>7 DEF ToSet
<1>14. QED
  BY <1>10, <1>11, <1>12, <1>13 DEF names, o, c

\* Even and odd numbers.
LEMMA Parity ==
  ASSUME NEW i \in Nat \ {0}
  PROVE  \/ i % 2 = 0 /\ i \div 2 \in Nat \ {0} /\ i = 2 * (i \div 2)
         \/ i % 2 = 1 /\ (i + 1) \div 2 \in Nat \ {0} /\ i = 2 * ((i + 1) \div 2) - 1
OBVIOUS

\* The halves of the numbers up to 2 * n are at most n.
LEMMA Halves ==
  ASSUME NEW n \in Nat
  PROVE  /\ (2 * n) % 2 = 0 /\ (2 * n) \div 2 = n
         /\ n # 0 => (2 * n - 1) % 2 = 1 /\ (2 * n - 1 + 1) \div 2 = n
OBVIOUS

\* The annotations of keys, values and items.
LEMMA ArgumentIsForm ==
  ASSUME NEW a \in Forms
  PROVE  KeyOf(a) \in Forms /\ ValueOf(a) \in Forms /\ ItemOf(a) \in Forms
<1>1. a.args \in Seq(Forms) /\ Anything \in Forms
  BY FormsAssumption
<1>2. Len(a.args) = 2 => a.args[1] \in Forms /\ a.args[2] \in Forms
  BY <1>1
<1>3. a.args # <<>> => a.args[1] \in Forms
  BY <1>1
<1>4. QED
  BY <1>1, <1>2, <1>3 DEF KeyOf, ValueOf, ItemOf

\* What a part consists of.
LEMMA PartFields ==
  ASSUME NEW o, NEW a, NEW hash
  PROVE  /\ Part(o, a, hash).object = o /\ Part(o, a, hash).annotation = a /\ Part(o, a, hash).hash = hash
         /\ o \in SourceRefs /\ a \in Forms /\ hash \in BOOLEAN => Part(o, a, hash) \in Parts
BY DEF Part, Parts

\* The parts are keys from D, to be hashed and all different, each followed by a value.
Alternating(parts, D, n) ==
  /\ DOMAIN parts = 1 .. 2 * n /\ Len(parts) = 2 * n
  /\ \A i \in 1 .. n : parts[2 * i - 1].hash /\ ~parts[2 * i].hash /\ parts[2 * i - 1].object \in D
  /\ \A i, j \in 1 .. n : parts[2 * i - 1].object = parts[2 * j - 1].object => i = j

\* A mapping has a key, to be hashed, before every value.
LEMMA MappingParts ==
  ASSUME NEW h \in Sources, NEW p \in Parts, Structure(h, p) = NoClass, h[p.object].kind = "dict"
  PROVE  /\ PartsOf(h, p) \in Seq(Parts)
         /\ \E n \in Nat : Alternating(PartsOf(h, p), DOMAIN h[p.object].of, n)
<1> DEFINE o == p.object
           d == Matching(h, o, p.annotation)
           D == DOMAIN h[o].of
           keys == InOrder(D)
           parts == PartsOf(h, p)
<1>1. o \in SourceRefs /\ d \in Forms
  BY MatchingIsForm DEF Parts
<1>2. D \in SUBSET Nat /\ D \subseteq SourceRefs /\ IsFiniteSet(D)
  <2>1. D \subseteq SourceRefs
    BY <1>1, SourceObject
  <2>2. IsFiniteSet(SourceRefs) /\ SourceRefs \subseteq Nat
    BY SourcesAssumption, FS_Interval DEF SourceRefs
  <2>3. QED
    BY <2>1, <2>2, FS_Subset
<1>3. PICK n \in Nat : DOMAIN keys = 1 .. n /\ Len(keys) = n
  <2> HIDE DEF D
  <2>1. QED
    BY <1>2, InOrderOnce
<1>4. /\ \A i \in 1 .. n : keys[i] \in D
      /\ \A i, j \in 1 .. n : keys[i] = keys[j] => i = j
  <2> HIDE DEF D
  <2>1. QED
    BY <1>2, <1>3, InOrderOnce
<1>5. parts = [i \in 1 .. 2 * n |-> IF i % 2 = 1 THEN Part(keys[(i + 1) \div 2], KeyOf(d), TRUE)
                                    ELSE Part(h[o].of[keys[i \div 2]], ValueOf(d), FALSE)]
  <2>1. parts = EntryParts(h, o, d, keys)
    BY DEF PartsOf, PartsAs, IsMapping
  <2> HIDE DEF keys, parts, d, o
  <2>2. QED
    BY <1>3, <2>1 DEF EntryParts
<1>6. \A k \in D : h[o].of[k] \in SourceRefs
  BY <1>1, SourceObject DEF Range
<1> HIDE DEF keys, parts, d, o, D
<1>7. KeyOf(d) \in Forms /\ ValueOf(d) \in Forms
  BY <1>1, ArgumentIsForm
<1>8. \A i \in 1 .. n : parts[2 * i - 1] = Part(keys[i], KeyOf(d), TRUE)
  <2> TAKE i \in 1 .. n
  <2>1. 2 * i - 1 \in 1 .. 2 * n /\ (2 * i - 1) % 2 = 1 /\ ((2 * i - 1) + 1) \div 2 = i
    BY <1>3, Halves
  <2>2. QED
    BY <1>5, <2>1
<1>9. \A i \in 1 .. n : parts[2 * i] = Part(h[o].of[keys[i]], ValueOf(d), FALSE)
  <2> TAKE i \in 1 .. n
  <2> DEFINE e == 2 * i
  <2>1. e \in 1 .. 2 * n /\ e % 2 # 1 /\ e \div 2 = i
    BY <1>3, Halves
  <2> HIDE DEF e
  <2>2. parts[e] = Part(h[o].of[keys[i]], ValueOf(d), FALSE)
    BY <1>5, <2>1
  <2>3. QED
    BY <2>2 DEF e
<1>10. \A i \in 1 .. 2 * n : parts[i] \in Parts
  <2> TAKE i \in 1 .. 2 * n
  <2>1. ASSUME NEW j \in 1 .. n
        PROVE  parts[2 * j - 1] \in Parts /\ parts[2 * j] \in Parts
    <3>1. keys[j] \in D /\ keys[j] \in SourceRefs /\ h[o].of[keys[j]] \in SourceRefs
      BY <1>2, <1>4, <1>6
    <3>2. Part(keys[j], KeyOf(d), TRUE) \in Parts
      BY <1>7, <3>1, PartFields
    <3>3. Part(h[o].of[keys[j]], ValueOf(d), FALSE) \in Parts
      BY <1>7, <3>1, PartFields
    <3>4. parts[2 * j - 1] \in Parts
      BY <1>8, <3>2, Zenon
    <3>5. parts[2 * j] \in Parts
      BY <1>9, <3>3, Zenon
    <3>6. QED
      BY <3>4, <3>5
  <2>3. \/ \E j \in 1 .. n : i = 2 * j - 1
        \/ \E j \in 1 .. n : i = 2 * j
    <3>1. i \in Nat \ {0} /\ i <= 2 * n
      BY <1>3
    <3>2. CASE i = 2 * (i \div 2) /\ i \div 2 \in Nat \ {0}
      <4>1. i \div 2 \in 1 .. n
        BY <1>3, <3>1, <3>2
      <4>2. QED
        BY <3>2, <4>1
    <3>3. CASE i = 2 * ((i + 1) \div 2) - 1 /\ (i + 1) \div 2 \in Nat \ {0}
      <4>1. (i + 1) \div 2 \in 1 .. n
        BY <1>3, <3>1, <3>3
      <4>2. QED
        BY <3>3, <4>1
    <3>4. QED
      BY <3>1, <3>2, <3>3, Parity
  <2>4. QED
    BY <2>1, <2>3, Zenon
<1>11. parts \in Seq(Parts) /\ DOMAIN parts = 1 .. 2 * n /\ Len(parts) = 2 * n
  <2> DEFINE N == 2 * n
  <2>1. N \in Nat
    BY <1>3
  <2>2. parts = [i \in 1 .. N |-> parts[i]]
    BY <1>5, Zenon
  <2>3. \A i \in 1 .. N : parts[i] \in Parts
    BY <1>10
  <2> HIDE DEF N
  <2>4. parts \in [1 .. N -> Parts]
    BY <2>2, <2>3, Zenon
  <2>5. parts \in Seq(Parts) /\ DOMAIN parts = 1 .. N /\ Len(parts) = N
    BY <2>1, <2>4, IsASeq, LenProperties
  <2>6. QED
    BY <2>5 DEF N
<1>12. \A i \in 1 .. n : parts[2 * i - 1].hash /\ ~parts[2 * i].hash /\ parts[2 * i - 1].object = keys[i]
  <2> TAKE i \in 1 .. n
  <2> DEFINE a == parts[2 * i - 1]
             b == parts[2 * i]
  <2>1. a = Part(keys[i], KeyOf(d), TRUE) /\ b = Part(h[o].of[keys[i]], ValueOf(d), FALSE)
    BY <1>8, <1>9
  <2> HIDE DEF a, b
  <2>2. a.hash /\ ~b.hash /\ a.object = keys[i]
    BY <2>1 DEF Part
  <2>3. QED
    BY <2>2 DEF a, b
<1>13. /\ \A i \in 1 .. n : parts[2 * i - 1].hash /\ ~parts[2 * i].hash /\ parts[2 * i - 1].object \in D
       /\ \A i, j \in 1 .. n : parts[2 * i - 1].object = parts[2 * j - 1].object => i = j
  <2> DEFINE hash(i) == parts[2 * i - 1].hash /\ ~parts[2 * i].hash
             key(i) == parts[2 * i - 1].object
  <2>1. \A i \in 1 .. n : hash(i) /\ key(i) = keys[i]
    BY <1>12
  <2> HIDE DEF hash, key
  <2>2. /\ \A i \in 1 .. n : hash(i) /\ key(i) \in D
        /\ \A i, j \in 1 .. n : key(i) = key(j) => i = j
    BY <1>4, <2>1
  <2>3. QED
    BY <2>2 DEF hash, key
<1>14. QED
  BY <1>3, <1>11, <1>13, Zenon DEF parts, o, D, Alternating

\* A collection has its items.
LEMMA CollectionParts ==
  ASSUME NEW h \in Sources, NEW p \in Parts, Structure(h, p) = NoClass, h[p.object].kind \in Collections
  PROVE  /\ PartsOf(h, p) \in Seq(Parts)
         /\ DOMAIN PartsOf(h, p) = DOMAIN h[p.object].of
         /\ \A i \in DOMAIN PartsOf(h, p) :
              /\ PartsOf(h, p)[i].object = h[p.object].of[i]
              /\ PartsOf(h, p)[i].hash <=>
                   h[p.object].kind \in {"set", "frozenset"} \/ (h[p.object].kind = "tuple" /\ p.hash)
<1> DEFINE o == p.object
           d == Matching(h, o, p.annotation)
           items == h[o].of
           hash == h[o].kind \in {"set", "frozenset"} \/ (h[o].kind = "tuple" /\ p.hash)
           parts == PartsOf(h, p)
<1>1. o \in SourceRefs /\ d \in Forms /\ p.hash \in BOOLEAN
  BY MatchingIsForm DEF Parts
<1>2. items \in Seq(SourceRefs)
  BY <1>1, SourceObject
<1>3. PICK n \in Nat : DOMAIN items = 1 .. n
  <2> HIDE DEF items
  <2>1. QED
    BY <1>2
<1>4. \A i \in 1 .. n : items[i] \in SourceRefs
  <2> HIDE DEF items
  <2>1. QED
    BY <1>2, <1>3
<1>5. parts = [i \in DOMAIN items |-> Part(items[i], ItemOf(d), hash)]
  BY DEF PartsOf, PartsAs, ItemParts, IsMapping, IsCollection, Collections
<1>6. hash \in BOOLEAN
  BY <1>1
<1>7. ItemOf(d) \in Forms
  BY <1>1, ArgumentIsForm
<1>8. DOMAIN parts = DOMAIN items /\ \A i \in DOMAIN parts : parts[i].object = items[i] /\ parts[i].hash = hash
  <2> HIDE DEF parts, items, hash, d
  <2>1. QED
    BY <1>5 DEF Part
<1> HIDE DEF items, hash, parts, d
<1>9. parts \in [1 .. n -> Parts]
  BY <1>3, <1>4, <1>5, <1>6, <1>7 DEF Part, Parts
<1>10. parts \in Seq(Parts)
  BY <1>9, IsASeq
<1>11. QED
  BY <1>8, <1>10 DEF items, hash, parts, o

\* Everything else has no parts.
LEMMA NoParts ==
  ASSUME NEW h, NEW p, Structure(h, p) = NoClass, h[p.object].kind \notin Collections \cup {"dict"}
  PROVE  PartsOf(h, p) = <<>>
BY DEF PartsOf, PartsAs, IsMapping, IsCollection, Collections

\* All parts are parts of source objects.
LEMMA PartsAreParts ==
  ASSUME NEW h \in Sources, NEW p \in Parts
  PROVE  PartsOf(h, p) \in Seq(Parts)
<1>1. CASE Structure(h, p) # NoClass
  BY <1>1, StructureParts
<1>2. CASE Structure(h, p) = NoClass /\ h[p.object].kind = "dict"
  BY <1>2, MappingParts
<1>3. CASE Structure(h, p) = NoClass /\ h[p.object].kind \in Collections
  BY <1>3, CollectionParts
<1>4. CASE Structure(h, p) = NoClass /\ h[p.object].kind \notin Collections \cup {"dict"}
  <2>1. PartsOf(h, p) = <<>>
    BY <1>4, NoParts
  <2>2. QED
    BY <2>1, EmptySeq
<1>5. QED
  BY <1>1, <1>2, <1>3, <1>4

\* What is to be refused, by the parts it consists of.
LEMMA RefusableEquation ==
  ASSUME NEW h \in Sources, NEW p \in Parts, NEW above \in SUBSET SourceRefs
  PROVE  Refusable(h, p, above) <=>
           /\ Guarded(h, p.object)
           /\ \/ p.object \in above
              \/ OddlyHashed(h, p)
              \/ \E i \in DOMAIN PartsOf(h, p) : Refusable(h, PartsOf(h, p)[i], above \cup {p.object})
<1> DEFINE X == Parts \X SUBSET SourceRefs
           If(x, S) ==
             /\ Guarded(h, x[1].object)
             /\ \/ x[1].object \in x[2]
                \/ OddlyHashed(h, x[1])
                \/ \E r \in ToSet(PartsOf(h, x[1])) : <<r, x[2] \cup {x[1].object}>> \in S
           F == [S \in SUBSET X |-> {x \in X : If(x, S)}]
           E(f, x) ==
             /\ Guarded(h, x[1].object)
             /\ \/ x[1].object \in x[2]
                \/ OddlyHashed(h, x[1])
                \/ \E r \in ToSet(PartsOf(h, x[1])) : f[<<r, x[2] \cup {x[1].object}>>]
           refusable == CHOOSE f : f = [x \in X |-> E(f, x)]
<1>1. \E S \in SUBSET X : F[S] = S
  <2>1. ASSUME NEW S \in SUBSET X, NEW T \in SUBSET X, S \subseteq T, NEW x \in X, If(x, S)
        PROVE  If(x, T)
    BY <2>1
  <2> HIDE DEF If
  <2>2. \A S, T \in SUBSET X : S \subseteq T => F[S] \subseteq F[T]
    BY <2>1
  <2>3. F \in [SUBSET X -> SUBSET X]
    OBVIOUS
  <2> HIDE DEF F, X
  <2>4. QED
    BY <2>2, <2>3, FixedPoint
<1>2. PICK S \in SUBSET X : F[S] = S
  BY <1>1
<1>3. \A q \in Parts, A \in SUBSET SourceRefs : \A r \in ToSet(PartsOf(h, q)) :
        <<r, A \cup {q.object}>> \in X
  <2> TAKE q \in Parts, A \in SUBSET SourceRefs
  <2>1. PartsOf(h, q) \in Seq(Parts) /\ q.object \in SourceRefs
    BY PartsAreParts DEF Parts
  <2>2. \A r \in ToSet(PartsOf(h, q)) : r \in Parts
    BY <2>1 DEF ToSet
  <2>3. QED
    BY <2>1, <2>2
<1> DEFINE g == [x \in X |-> x \in S]
<1>4. ASSUME NEW x \in X
      PROVE  g[x] = E(g, x)
  <2>1. \A r \in ToSet(PartsOf(h, x[1])) :
          g[<<r, x[2] \cup {x[1].object}>>] = (<<r, x[2] \cup {x[1].object}>> \in S)
    BY <1>3
  <2>2. x \in S <=> If(x, S)
    BY <1>2
  <2> HIDE DEF g
  <2>3. E(g, x) <=> If(x, S)
    BY <2>1
  <2>4. E(g, x) \in BOOLEAN /\ (x \in S) \in BOOLEAN
    OBVIOUS
  <2>5. (x \in S) = E(g, x)
    BY <2>2, <2>3, <2>4, SameTruth
  <2>6. QED
    BY <2>5 DEF g
<1>5. g = [x \in X |-> E(g, x)]
  BY <1>4, Zenon
<1>6. refusable = [x \in X |-> E(refusable, x)]
  BY <1>5, Zenon
<1>7. \A q \in Parts, A \in SUBSET SourceRefs : Refusable(h, q, A) = refusable[<<q, A>>]
  BY DEF Refusable
<1> HIDE DEF refusable
<1>8. refusable[<<p, above>>] = E(refusable, <<p, above>>)
  BY <1>6
<1>9. PartsOf(h, p) \in Seq(Parts) /\ above \cup {p.object} \in SUBSET SourceRefs
  BY PartsAreParts DEF Parts
<1>10. \A r \in ToSet(PartsOf(h, p)) : Refusable(h, r, above \cup {p.object}) = refusable[<<r, above \cup {p.object}>>]
  <2> TAKE r \in ToSet(PartsOf(h, p))
  <2>1. r \in Parts
    BY <1>9 DEF ToSet
  <2>2. QED
    BY <1>7, <1>9, <2>1, Zenon
<1>11. Refusable(h, p, above) <=>
         /\ Guarded(h, p.object)
         /\ \/ p.object \in above
            \/ OddlyHashed(h, p)
            \/ \E r \in ToSet(PartsOf(h, p)) : Refusable(h, r, above \cup {p.object})
  BY <1>7, <1>8, <1>10
<1>12. QED
  BY <1>11 DEF ToSet

-----------------------------------------------------------------------------
(* The inductive invariant, of a heap h and of a stack S of calls. *)

NewIn(h) == DOMAIN h \ SourceRefs

\* The part of a call, and the objects that it is a part of.
PartOf(c) == Part(c.object, c.annotation, c.hash)
Above(S, k) == {S[j].object : j \in 1 .. k - 1}

Calls ==
  [object : SourceRefs, annotation : Forms, hash : BOOLEAN, parts : Seq(Parts), done : Seq(Nat)]

\* The calls: each is for the next part of the one before, and no two are for one object.
Stack(h, S) ==
  /\ S \in Seq(Calls)
  /\ \A k \in DOMAIN S :
       /\ Guarded(h, S[k].object)
       /\ S[k].parts = PartsOf(h, PartOf(S[k]))
       /\ Len(S[k].done) <= Len(S[k].parts)
       /\ S[k].object \notin Above(S, k)
       /\ k = 1 => PartOf(S[k]) = RootPart
       /\ k > 1 => /\ Len(S[k - 1].done) < Len(S[k - 1].parts)
                   /\ PartOf(S[k]) = S[k - 1].parts[Len(S[k - 1].done) + 1]

\* What a result may consist of: what was made, and what is passed on.
PassedOn(h, o) == o \in SourceRefs /\ h[o].kind \in {"scalar", "none", "dataclass"}
InResult(h, o) == o \in NewIn(h) \/ PassedOn(h, o)
StandsFor(h, o, s) == o = s \/ (o \in NewIn(h) /\ h[o].from = s)

\* What was made: of older objects only, and of a collection the same collection.
Sound(h, x) ==
  /\ DOMAIN h[x] = {"kind", "class", "of", "carrier", "ids", "from"}
  /\ h[x].kind \in Collections \cup {"dict"} /\ h[x].carrier \in BOOLEAN
  /\ h[x].from \in SourceRefs
  /\ \A i \in DOMAIN h[x].of : h[x].of[i] < x /\ InResult(h, h[x].of[i])
  /\ h[x].kind = "dict" => \A k \in DOMAIN h[x].of : k < x /\ InResult(h, k)
  /\ h[x].kind # "dict" =>
       /\ ~h[x].carrier
       /\ h[x].kind = h[h[x].from].kind
       /\ DOMAIN h[x].of = DOMAIN h[h[x].from].of
       /\ \A i \in DOMAIN h[x].of : StandsFor(h, h[x].of[i], h[h[x].from].of[i])
Objects(h) ==
  /\ \E n \in Nat : n >= Size /\ DOMAIN h = 1 .. n
  /\ SourceOf(h) \in Sources
  /\ \A x \in NewIn(h) : Sound(h, x)

\* What the calls have made is of the result, and stands for their parts.
Extracted(h, S) ==
  \A k \in DOMAIN S : \A i \in DOMAIN S[k].done :
    InResult(h, S[k].done[i]) /\ StandsFor(h, S[k].done[i], S[k].parts[i].object)

\* Every object that was made is in one place.
IsHeld(h, o, x) == (\E i \in DOMAIN h[x].of : h[x].of[i] = o) \/ (h[x].kind = "dict" /\ o \in DOMAIN h[x].of)
OnePlace(h, x) ==
  \A i, j \in DOMAIN h[x].of :
    h[x].of[i] \in NewIn(h) => /\ h[x].of[i] = h[x].of[j] => i = j
                               /\ h[x].kind = "dict" => h[x].of[i] # j
OneHolder(h) ==
  /\ \A x, y \in NewIn(h) : \A o \in NewIn(h) : IsHeld(h, o, x) /\ IsHeld(h, o, y) => x = y
  /\ \A x \in NewIn(h) : OnePlace(h, x)
OneCall(h, S) ==
  /\ \A k, l \in DOMAIN S : \A i \in DOMAIN S[k].done, j \in DOMAIN S[l].done :
       S[k].done[i] \in NewIn(h) /\ S[k].done[i] = S[l].done[j] => k = l /\ i = j
  /\ \A x \in NewIn(h) : \A k \in DOMAIN S : \A i \in DOMAIN S[k].done :
       S[k].done[i] \in NewIn(h) => ~IsHeld(h, S[k].done[i], x)

\* A part that has been extracted is to be refused only if it cannot be hashed where it has
\* to be; what makes the part of a call to be refused makes the root so.
Judged(h, S) ==
  /\ \A k \in DOMAIN S : \A i \in DOMAIN S[k].done :
       Refusable(SourceOf(h), S[k].parts[i], Above(S, k + 1)) <=>
         S[k].parts[i].hash /\ ~Hashable(h, S[k].done[i])
  /\ \A k \in DOMAIN S :
       Refusable(SourceOf(h), PartOf(S[k]), Above(S, k)) => Refusable(SourceOf(h), RootPart, {})

Good(h, S) ==
  Objects(h) /\ Stack(SourceOf(h), S) /\ Extracted(h, S) /\ OneHolder(h) /\ OneCall(h, S) /\ Judged(h, S)

Control ==
  /\ active = {calls[i].object : i \in DOMAIN calls}
  /\ outcome \in {"running", "raising", "extracted", "refused", "overflow"}
  /\ calls = <<>> <=> outcome \in {"extracted", "refused"}
  /\ IF outcome = "extracted" THEN result \in New ELSE result = Nothing
  /\ outcome \in {"raising", "refused"} => Refusable(Source, RootPart, {})
  /\ outcome = "extracted" => ~Refusable(Source, RootPart, {})

Inv == Good(heap, calls) /\ Control

-----------------------------------------------------------------------------
(* Stacks of calls. *)

\* The domain of a sequence.
LEMMA SeqFacts ==
  ASSUME NEW T, NEW S \in Seq(T)
  PROVE  Len(S) \in Nat /\ DOMAIN S = 1 .. Len(S) /\ \A i \in 1 .. Len(S) : S[i] \in T
OBVIOUS

\* The fields of a call.
LEMMA CallFields ==
  ASSUME NEW c \in Calls
  PROVE  /\ c.object \in SourceRefs /\ c.annotation \in Forms /\ c.hash \in BOOLEAN
         /\ c.parts \in Seq(Parts) /\ c.done \in Seq(Nat)
         /\ PartOf(c) \in Parts /\ PartOf(c).object = c.object /\ PartOf(c).hash = c.hash
         /\ PartOf(c).annotation = c.annotation
BY DEF Calls, PartOf, Part, Parts

\* The call for a part is for that part.
LEMMA CallIsForPart ==
  ASSUME NEW p \in Parts, NEW parts \in Seq(Parts)
  PROVE  /\ Call(p, parts) \in Calls /\ Call(p, parts).object = p.object /\ PartOf(Call(p, parts)) = p
         /\ Call(p, parts).parts = parts /\ Call(p, parts).done = <<>>
<1>1. <<>> \in Seq(Nat)
  BY EmptySeq
<1>2. Call(p, parts) \in Calls
  BY <1>1 DEF Call, Calls, Parts
<1>3. PartOf(Call(p, parts)) = [object |-> p.object, annotation |-> p.annotation, hash |-> p.hash]
  BY DEF PartOf, Call, Part
<1>4. p = [object |-> p.object, annotation |-> p.annotation, hash |-> p.hash]
  BY DEF Parts
<1>5. QED
  BY <1>2, <1>3, <1>4 DEF Call

\* What appending does.
LEMMA Appended ==
  ASSUME NEW T, NEW S \in Seq(T), NEW x \in T
  PROVE  /\ Append(S, x) \in Seq(T) /\ Len(Append(S, x)) = Len(S) + 1
         /\ DOMAIN Append(S, x) = 1 .. Len(S) + 1
         /\ \A i \in 1 .. Len(S) : Append(S, x)[i] = S[i]
         /\ Append(S, x)[Len(S) + 1] = x
BY AppendProperties, LenProperties

\* The stack without its last call.
LEMMA FrontOfStack ==
  ASSUME NEW T, NEW S \in Seq(T), S # <<>>
  PROVE  /\ Front(S) \in Seq(T) /\ Len(S) \in Nat \ {0}
         /\ Len(Front(S)) = Len(S) - 1 /\ DOMAIN Front(S) = 1 .. Len(S) - 1
         /\ \A i \in 1 .. Len(S) - 1 : Front(S)[i] = S[i]
         /\ Last(S) = S[Len(S)] /\ Last(S) \in T
<1>1. Len(S) \in Nat \ {0}
  BY EmptySeq, LenProperties
<1>2. Front(S) = SubSeq(S, 1, Len(S) - 1) /\ Last(S) = S[Len(S)]
  BY DEF Front, Last
<1> DEFINE m == Len(S) - 1
<1>3. m \in Nat /\ 1 \in 1 .. Len(S) + 1 /\ m \in 0 .. Len(S)
  BY <1>1
<1> HIDE DEF m
<1>4. /\ SubSeq(S, 1, m) \in Seq(T) /\ Len(SubSeq(S, 1, m)) = m
      /\ \A i \in 1 .. m : SubSeq(S, 1, m)[i] = S[i]
  BY <1>3, SubSeqProperties
<1>5. DOMAIN SubSeq(S, 1, m) = 1 .. m
  BY <1>4, LenProperties
<1>6. S[Len(S)] \in T
  BY <1>1
<1>7. QED
  BY <1>1, <1>2, <1>4, <1>5, <1>6 DEF m

\* A call that is given one more object.
LEMMA GivenCall ==
  ASSUME NEW S \in Seq(Calls), S # <<>>, NEW r \in Nat
  PROVE  /\ Given(S, r) \in Seq(Calls) /\ Len(Given(S, r)) = Len(S) /\ DOMAIN Given(S, r) = DOMAIN S
         /\ \A k \in DOMAIN S :
              /\ Given(S, r)[k].object = S[k].object /\ PartOf(Given(S, r)[k]) = PartOf(S[k])
              /\ Given(S, r)[k].parts = S[k].parts
              /\ k # Len(S) => Given(S, r)[k].done = S[k].done
         /\ Given(S, r)[Len(S)].done = Append(S[Len(S)].done, r)
<1> DEFINE n == Len(S)
           T == Given(S, r)
           c == [S[n] EXCEPT !.done = Append(@, r)]
<1>1. n \in Nat \ {0} /\ DOMAIN S = 1 .. n /\ \A k \in 1 .. n : S[k] \in Calls
  BY EmptySeq, LenProperties
<1>2. T = [S EXCEPT ![n] = c]
  BY DEF Given
<1>3. Append(S[n].done, r) \in Seq(Nat)
  BY <1>1, CallFields, Appended
<1>4. c \in Calls /\ c.object = S[n].object /\ c.annotation = S[n].annotation /\ c.hash = S[n].hash
      /\ c.parts = S[n].parts /\ c.done = Append(S[n].done, r)
  <2> DEFINE d == S[n]
             done == Append(d.done, r)
  <2>1. d \in Calls /\ done \in Seq(Nat)
    BY <1>1, <1>3
  <2> HIDE DEF d, done
  <2>2. /\ [d EXCEPT !.done = done] \in Calls
        /\ [d EXCEPT !.done = done].object = d.object
        /\ [d EXCEPT !.done = done].annotation = d.annotation
        /\ [d EXCEPT !.done = done].hash = d.hash
        /\ [d EXCEPT !.done = done].parts = d.parts
        /\ [d EXCEPT !.done = done].done = done
    BY <2>1 DEF Calls
  <2>3. c = [d EXCEPT !.done = done]
    BY DEF d, done
  <2>4. QED
    BY <2>2, <2>3 DEF d, done
<1> HIDE DEF c, T
<1>5. /\ T \in Seq(Calls) /\ Len(T) = n /\ DOMAIN T = 1 .. n
      /\ \A k \in 1 .. n : T[k] = IF k = n THEN c ELSE S[k]
  BY <1>1, <1>2, <1>4, ExceptSeq, LenProperties
<1>6. \A k \in 1 .. n : /\ T[k].object = S[k].object /\ PartOf(T[k]) = PartOf(S[k])
                        /\ T[k].parts = S[k].parts
                        /\ k # n => T[k].done = S[k].done
  BY <1>4, <1>5 DEF PartOf
<1>7. T[n].done = Append(S[n].done, r)
  <2>1. n \in 1 .. n
    BY <1>1
  <2>2. T[n] = c
    BY <1>5, <2>1
  <2>3. QED
    BY <1>4, <2>2, Zenon
<1>8. QED
  BY <1>1, <1>5, <1>6, <1>7, Zenon DEF T

\* What is above depends on the objects of the calls only.
LEMMA SameAbove ==
  ASSUME NEW S, NEW T, NEW k \in Nat, \A j \in 1 .. k - 1 : T[j].object = S[j].object
  PROVE  Above(T, k) = Above(S, k)
BY DEF Above

\* What is above the parts of a call is what is above it, and its object.
LEMMA AboveParts ==
  ASSUME NEW S \in Seq(Calls), NEW k \in DOMAIN S
  PROVE  /\ Above(S, k + 1) = Above(S, k) \cup {S[k].object}
         /\ Above(S, k) \in SUBSET SourceRefs /\ Above(S, k + 1) \in SUBSET SourceRefs
<1>1. DOMAIN S = 1 .. Len(S) /\ Len(S) \in Nat /\ \A j \in DOMAIN S : S[j].object \in SourceRefs
  BY SeqFacts, CallFields
<1>2. 1 .. (k + 1) - 1 = (1 .. k - 1) \cup {k}
  BY <1>1
<1>3. 1 .. k - 1 \subseteq DOMAIN S
  BY <1>1
<1>4. QED
  BY <1>1, <1>2, <1>3 DEF Above

-----------------------------------------------------------------------------
(* Heaps that grow. *)

\* The references of a heap are numbers, those of source objects first; what an object
\* refers to is in the heap, and source objects do not change.
LEMMA HeapFacts ==
  ASSUME NEW h, Objects(h)
  PROVE  /\ SourceRefs \subseteq DOMAIN h /\ SourceRefs \in SUBSET Nat
         /\ DOMAIN h \in SUBSET Nat /\ NewIn(h) \in SUBSET Nat
         /\ Closed(h)
         /\ SourceOf(h) \in Sources
         /\ \A o \in SourceRefs : SourceOf(h)[o] = h[o]
         /\ \A o : InResult(h, o) => o \in DOMAIN h
<1>1. PICK n \in Nat : n >= Size /\ DOMAIN h = 1 .. n
  BY DEF Objects
<1>2. SourceRefs \subseteq DOMAIN h /\ SourceRefs \in SUBSET Nat /\ DOMAIN h \in SUBSET Nat
  BY <1>1, SourcesAssumption DEF SourceRefs
<1>3. \A o \in SourceRefs : SourceOf(h)[o] = h[o]
  BY DEF SourceOf
<1>4. SourceOf(h) \in Sources
  BY DEF Objects
<1>5. \A o : InResult(h, o) => o \in DOMAIN h
  BY <1>2 DEF InResult, PassedOn, NewIn
<1>6. ASSUME NEW x \in DOMAIN h
      PROVE  Range(h[x].of) \subseteq DOMAIN h
  <2>1. CASE x \in SourceRefs
    BY <1>2, <1>3, <1>4, <2>1, SourceObject
  <2>2. CASE x \notin SourceRefs
    <3>1. Sound(h, x)
      BY <2>2 DEF Objects, NewIn
    <3>2. \A i \in DOMAIN h[x].of : h[x].of[i] \in DOMAIN h
      BY <1>5, <3>1 DEF Sound
    <3>3. QED
      BY <3>2 DEF Range
  <2>3. QED
    BY <2>1, <2>2
<1>7. NewIn(h) \in SUBSET Nat
  BY <1>2 DEF NewIn
<1>8. QED
  BY <1>2, <1>3, <1>4, <1>5, <1>6, <1>7 DEF Closed

\* The objects of heap h are in heap g as they are, but for the identities they remember.
Grows(h, g) ==
  /\ DOMAIN h \subseteq DOMAIN g
  /\ \A x \in DOMAIN h : /\ g[x].kind = h[x].kind /\ g[x].of = h[x].of
                         /\ g[x].carrier = h[x].carrier /\ g[x].from = h[x].from

\* What is in a heap is of the result, and stands for the same, when the heap grows.
LEMMA ResultGrows ==
  ASSUME NEW h, NEW g, Objects(h), Grows(h, g)
  PROVE  /\ NewIn(h) \subseteq NewIn(g)
         /\ \A o : InResult(h, o) => InResult(g, o) /\ o \in DOMAIN h
         /\ \A o, s : StandsFor(h, o, s) => StandsFor(g, o, s)
         /\ \A o \in DOMAIN h : o \in NewIn(g) => o \in NewIn(h)
<1>1. SourceRefs \subseteq DOMAIN h /\ \A o : InResult(h, o) => o \in DOMAIN h
  BY HeapFacts
<1>2. NewIn(h) \subseteq NewIn(g) /\ \A o \in DOMAIN h : o \in NewIn(g) => o \in NewIn(h)
  BY DEF NewIn, Grows
<1>3. \A o : PassedOn(h, o) => PassedOn(g, o)
  BY <1>1 DEF PassedOn, Grows
<1>4. \A o, s : StandsFor(h, o, s) => StandsFor(g, o, s)
  BY <1>2 DEF StandsFor, NewIn, Grows
<1>5. QED
  BY <1>1, <1>2, <1>3, <1>4 DEF InResult

\* What is passed on is hashable and has no carriers.
LEMMA PassedOnHashable ==
  ASSUME NEW h, Closed(h), NEW o \in DOMAIN h, h[o].kind \in {"scalar", "none", "dataclass"}
  PROVE  Hashable(h, o) /\ Carriers(h, o) = {}
<1>1. /\ h[o].kind \notin {"list", "set"} /\ h[o].kind # "dict"
      /\ h[o].kind \notin {"tuple", "frozenset"}
  OBVIOUS
<1>2. Hashable(h, o)
  BY <1>1, HashableEquation
<1>3. Carriers(h, o) = {}
  BY <1>1, CarriersEquation
<1>4. QED
  BY <1>2, <1>3

\* Members of tuples and of frozen sets in a result are older, and of the result.
LEMMA Members ==
  ASSUME NEW h, Objects(h), NEW o \in NewIn(h)
  PROVE  \A q \in Range(h[o].of) : InResult(h, q) /\ q \in DOMAIN h /\ q < o
<1>1. Sound(h, o)
  BY DEF Objects
<1>2. \A i \in DOMAIN h[o].of : h[o].of[i] < o /\ InResult(h, h[o].of[i])
  BY <1>1 DEF Sound
<1>3. QED
  BY <1>2, HeapFacts DEF Range

\* What is hashable stays so.
LEMMA HashableKept ==
  ASSUME NEW h, NEW g, Objects(h), Grows(h, g), Closed(g)
  PROVE  \A o : InResult(h, o) => (Hashable(g, o) <=> Hashable(h, o))
<1> DEFINE T == {o \in Nat : InResult(h, o) => (Hashable(g, o) <=> Hashable(h, o))}
<1>1. ASSUME NEW o \in Nat, \A q \in Nat : q < o => q \in T
      PROVE  o \in T
  <2>1. SUFFICES ASSUME InResult(h, o)
                 PROVE  Hashable(g, o) <=> Hashable(h, o)
    OBVIOUS
  <2>2. o \in DOMAIN h /\ o \in DOMAIN g /\ Closed(h)
        /\ g[o].kind = h[o].kind /\ g[o].of = h[o].of /\ g[o].carrier = h[o].carrier
    BY <2>1, HeapFacts DEF Grows
  <2>3. CASE o \in NewIn(h)
    <3>1. \A q \in Range(h[o].of) : q \in Nat /\ q < o /\ InResult(h, q)
      BY <2>3, Members, HeapFacts
    <3>2. \A q \in Range(h[o].of) : Hashable(g, q) <=> Hashable(h, q)
      BY <1>1, <3>1
    <3>3. Hashable(g, o) <=>
            /\ g[o].kind \notin {"list", "set"}
            /\ g[o].kind = "dict" => g[o].carrier
            /\ g[o].kind \in {"tuple", "frozenset"} => \A q \in Range(g[o].of) : Hashable(g, q)
      BY <2>2, HashableEquation
    <3>4. Hashable(h, o) <=>
            /\ h[o].kind \notin {"list", "set"}
            /\ h[o].kind = "dict" => h[o].carrier
            /\ h[o].kind \in {"tuple", "frozenset"} => \A q \in Range(h[o].of) : Hashable(h, q)
      BY <2>2, HashableEquation
    <3>5. QED
      BY <2>2, <3>2, <3>3, <3>4
  <2>4. CASE PassedOn(h, o)
    <3>1. h[o].kind \in {"scalar", "none", "dataclass"}
      BY <2>4 DEF PassedOn
    <3>2. Hashable(g, o) /\ Hashable(h, o)
      BY <2>2, <3>1, PassedOnHashable
    <3>3. QED
      BY <3>2
  <2>5. QED
    BY <2>1, <2>3, <2>4 DEF InResult
<1>2. Nat \subseteq T
  <2> HIDE DEF T
  <2>1. QED
    BY <1>1, Induction
<1>3. \A o : InResult(h, o) => o \in Nat
  BY HeapFacts
<1>4. QED
  BY <1>2, <1>3

\* Only what was made carries identities.
LEMMA CarriersAreNew ==
  ASSUME NEW h, Objects(h), NEW o, InResult(h, o)
  PROVE  Carriers(h, o) \subseteq NewIn(h)
<1> DEFINE T == {p \in Nat : InResult(h, p) => Carriers(h, p) \subseteq NewIn(h)}
<1>1. ASSUME NEW p \in Nat, \A q \in Nat : q < p => q \in T
      PROVE  p \in T
  <2>1. SUFFICES ASSUME InResult(h, p)
                 PROVE  Carriers(h, p) \subseteq NewIn(h)
    OBVIOUS
  <2>2. p \in DOMAIN h /\ Closed(h)
    BY <2>1, HeapFacts
  <2>3. CASE p \in NewIn(h)
    <3>1. \A q \in Range(h[p].of) : q \in Nat /\ q < p /\ InResult(h, q)
      BY <2>3, Members, HeapFacts
    <3>2. \A q \in Range(h[p].of) : Carriers(h, q) \subseteq NewIn(h)
      BY <1>1, <3>1
    <3>3. UNION {Carriers(h, q) : q \in Range(h[p].of)} \subseteq NewIn(h)
      BY <3>2
    <3>4. QED
      BY <2>2, <2>3, <3>3, CarriersEquation
  <2>4. CASE PassedOn(h, p)
    <3>1. h[p].kind \in {"scalar", "none", "dataclass"}
      BY <2>4 DEF PassedOn
    <3>2. QED
      BY <2>2, <3>1, PassedOnHashable
  <2>5. QED
    BY <2>1, <2>3, <2>4 DEF InResult
<1>2. Nat \subseteq T
  <2> HIDE DEF T
  <2>1. QED
    BY <1>1, Induction
<1>3. o \in Nat
  BY HeapFacts
<1>4. QED
  BY <1>2, <1>3

\* What an object of a result stands for.
LEMMA StandsForOne ==
  ASSUME NEW h, Objects(h), NEW o, NEW s \in SourceRefs, InResult(h, o), StandsFor(h, o, s)
  PROVE  /\ o \in NewIn(h) => h[o].from = s /\ s # o
         /\ o \notin NewIn(h) => o = s /\ PassedOn(h, o)
BY DEF StandsFor, InResult, NewIn

\* Two of a hashable kind, in a result, stand for alike source objects if they are the same.
LEMMA SameIsAlike ==
  ASSUME NEW h, Objects(h)
  PROVE  \A o, p : \A s, t \in SourceRefs :
           /\ InResult(h, o) /\ InResult(h, p) /\ Hashable(h, o) /\ Hashable(h, p)
           /\ StandsFor(h, o, s) /\ StandsFor(h, p, t) /\ Same(h, o, p)
           => Alike(SourceOf(h), s, t)
<1> DEFINE src == SourceOf(h)
           T == {o \in Nat : \A p : \A s, t \in SourceRefs :
                  /\ InResult(h, o) /\ InResult(h, p) /\ Hashable(h, o) /\ Hashable(h, p)
                  /\ StandsFor(h, o, s) /\ StandsFor(h, p, t) /\ Same(h, o, p)
                  => Alike(src, s, t)}
<1>1. ASSUME NEW o \in Nat, \A q \in Nat : q < o => q \in T
      PROVE  o \in T
  <2>1. SUFFICES ASSUME NEW p, NEW s \in SourceRefs, NEW t \in SourceRefs,
                        InResult(h, o), InResult(h, p), Hashable(h, o), Hashable(h, p),
                        StandsFor(h, o, s), StandsFor(h, p, t), Same(h, o, p)
                 PROVE  Alike(src, s, t)
    OBVIOUS
  <2>2. src \in Sources /\ src[s] = h[s] /\ src[t] = h[t] /\ Closed(h) /\ o \in DOMAIN h /\ p \in DOMAIN h
    BY <2>1, HeapFacts
  <2>3. ASSUME NEW q, NEW r, NEW u \in SourceRefs, NEW v \in SourceRefs,
               o \in NewIn(h), p \in NewIn(h), q \in Range(h[o].of), r \in Range(h[p].of),
               Hashable(h, q), Hashable(h, r), StandsFor(h, q, u), StandsFor(h, r, v), Same(h, q, r)
        PROVE  Alike(src, u, v)
    <3>1. InResult(h, q) /\ q \in DOMAIN h /\ q < o /\ InResult(h, r)
      BY <2>3, Members
    <3>2. q \in Nat
      BY <3>1, HeapFacts
    <3>3. q \in T
      BY <1>1, <3>1, <3>2
    <3>4. QED
      BY <2>3, <3>1, <3>3
  <2>4. /\ h[o].kind \notin {"list", "set"} /\ (h[o].kind = "dict" => h[o].carrier)
        /\ h[p].kind \notin {"list", "set"}
        /\ h[o].kind \in {"tuple", "frozenset"} => \A q \in Range(h[o].of) : Hashable(h, q)
        /\ h[p].kind \in {"tuple", "frozenset"} => \A q \in Range(h[p].of) : Hashable(h, q)
    BY <2>1, <2>2, HashableEquation
  <2>5. \/ o = p
        \/ /\ h[o].kind = h[p].kind /\ h[o].kind \in {"dict", "list", "tuple"}
           /\ ~h[o].carrier
           /\ DOMAIN h[o].of = DOMAIN h[p].of
           /\ \A k \in DOMAIN h[o].of : Same(h, h[o].of[k], h[p].of[k])
        \/ /\ {h[o].kind, h[p].kind} \subseteq {"set", "frozenset"}
           /\ \A y \in Range(h[o].of) : \E z \in Range(h[p].of) : Same(h, y, z)
           /\ \A z \in Range(h[p].of) : \E y \in Range(h[o].of) : Same(h, y, z)
    BY <2>1, <2>2, SameEquation
  <2>6. CASE o = p
    <3>1. s = t
      BY <2>1, <2>6, StandsForOne
    <3>2. QED
      BY <2>2, <3>1, EqualityAssumption
  <2>7. ASSUME h[o].kind \in {"tuple", "frozenset"}, h[p].kind = h[o].kind
        PROVE  /\ o \in NewIn(h) /\ p \in NewIn(h)
               /\ src[s].kind = h[o].kind /\ src[t].kind = h[o].kind
               /\ DOMAIN src[s].of = DOMAIN h[o].of /\ DOMAIN src[t].of = DOMAIN h[p].of
               /\ \A i \in DOMAIN h[o].of : src[s].of[i] \in SourceRefs /\ StandsFor(h, h[o].of[i], src[s].of[i])
               /\ \A i \in DOMAIN h[p].of : src[t].of[i] \in SourceRefs /\ StandsFor(h, h[p].of[i], src[t].of[i])
    <3>1. o \in NewIn(h) /\ p \in NewIn(h)
      BY <2>1, <2>7 DEF InResult, PassedOn
    <3>2. h[o].from = s /\ h[p].from = t
      BY <2>1, <3>1, StandsForOne
    <3>3. Sound(h, o) /\ Sound(h, p)
      BY <3>1 DEF Objects
    <3>4. /\ src[s].kind = h[o].kind /\ src[t].kind = h[o].kind
          /\ DOMAIN src[s].of = DOMAIN h[o].of /\ DOMAIN src[t].of = DOMAIN h[p].of
          /\ \A i \in DOMAIN h[o].of : StandsFor(h, h[o].of[i], src[s].of[i])
          /\ \A i \in DOMAIN h[p].of : StandsFor(h, h[p].of[i], src[t].of[i])
      BY <2>2, <2>7, <3>2, <3>3 DEF Sound
    <3>5. Range(src[s].of) \subseteq SourceRefs /\ Range(src[t].of) \subseteq SourceRefs
      BY <2>2, SourceObject
    <3>6. QED
      BY <3>1, <3>4, <3>5 DEF Range
  <2>8. CASE /\ h[o].kind = h[p].kind /\ h[o].kind = "tuple"
             /\ DOMAIN h[o].of = DOMAIN h[p].of
             /\ \A k \in DOMAIN h[o].of : Same(h, h[o].of[k], h[p].of[k])
    <3>1. ASSUME NEW i \in DOMAIN src[s].of
          PROVE  Alike(src, src[s].of[i], src[t].of[i])
      <4>1. i \in DOMAIN h[o].of /\ i \in DOMAIN h[p].of
        BY <2>7, <2>8
      <4>2. h[o].of[i] \in Range(h[o].of) /\ h[p].of[i] \in Range(h[p].of)
        BY <4>1 DEF Range
      <4>3. QED
        BY <2>3, <2>4, <2>7, <2>8, <4>1, <4>2
    <3>2. AlikeWithin(src, s, t)
      BY <2>7, <2>8, <3>1 DEF AlikeWithin
    <3>3. QED
      BY <2>2, <3>2, EqualityAssumption
  <2>9. CASE /\ h[o].kind = "frozenset" /\ h[p].kind = "frozenset"
             /\ \A y \in Range(h[o].of) : \E z \in Range(h[p].of) : Same(h, y, z)
             /\ \A z \in Range(h[p].of) : \E y \in Range(h[o].of) : Same(h, y, z)
    <3>1. ASSUME NEW i \in DOMAIN h[o].of, NEW j \in DOMAIN h[p].of, Same(h, h[o].of[i], h[p].of[j])
          PROVE  Alike(src, src[s].of[i], src[t].of[j])
      <4>1. h[o].of[i] \in Range(h[o].of) /\ h[p].of[j] \in Range(h[p].of)
        BY DEF Range
      <4>2. QED
        BY <2>3, <2>4, <2>7, <2>9, <3>1, <4>1
    <3>2. \A x \in Range(src[s].of) : \E y \in Range(src[t].of) : Alike(src, x, y)
      <4>1. TAKE x \in Range(src[s].of)
      <4>2. PICK i \in DOMAIN h[o].of : x = src[s].of[i]
        BY <2>7, <2>9 DEF Range
      <4>3. PICK j \in DOMAIN h[p].of : Same(h, h[o].of[i], h[p].of[j])
        BY <2>9 DEF Range
      <4>4. src[t].of[j] \in Range(src[t].of)
        BY <2>7, <2>9 DEF Range
      <4>5. QED
        BY <3>1, <4>2, <4>3, <4>4
    <3>3. \A y \in Range(src[t].of) : \E x \in Range(src[s].of) : Alike(src, x, y)
      <4>1. TAKE y \in Range(src[t].of)
      <4>2. PICK j \in DOMAIN h[p].of : y = src[t].of[j]
        BY <2>7, <2>9 DEF Range
      <4>3. PICK i \in DOMAIN h[o].of : Same(h, h[o].of[i], h[p].of[j])
        BY <2>9 DEF Range
      <4>4. src[s].of[i] \in Range(src[s].of)
        BY <2>7, <2>9 DEF Range
      <4>5. QED
        BY <3>1, <4>2, <4>3, <4>4
    <3>4. AlikeWithin(src, s, t)
      BY <2>7, <2>9, <3>2, <3>3 DEF AlikeWithin
    <3>5. QED
      BY <2>2, <3>4, EqualityAssumption
  <2>10. QED
    BY <2>4, <2>5, <2>6, <2>8, <2>9
<1>2. Nat \subseteq T
  <2> HIDE DEF T
  <2>1. QED
    BY <1>1, Induction
<1>3. \A o : InResult(h, o) => o \in T
  <2> HIDE DEF T
  <2>1. QED
    BY <1>2, HeapFacts
<1>4. QED
  BY <1>3

-----------------------------------------------------------------------------
(* What a step does to the invariant. *)

\* The last call of a good stack.
LEMMA LastCall ==
  ASSUME NEW h, NEW S, Good(h, S), S # <<>>
  PROVE  /\ S \in Seq(Calls) /\ Len(S) \in Nat \ {0} /\ DOMAIN S = 1 .. Len(S) /\ Len(S) \in DOMAIN S
         /\ Last(S) = S[Len(S)] /\ Last(S) \in Calls
         /\ Guarded(SourceOf(h), Last(S).object)
         /\ Last(S).parts = PartsOf(SourceOf(h), PartOf(Last(S)))
         /\ Len(Last(S).done) <= Len(Last(S).parts)
         /\ Last(S).object \notin Above(S, Len(S))
<1>1. S \in Seq(Calls)
  BY DEF Good, Stack
<1>2. Len(S) \in Nat \ {0} /\ DOMAIN S = 1 .. Len(S) /\ Len(S) \in DOMAIN S /\ Last(S) = S[Len(S)] /\ Last(S) \in Calls
  BY <1>1, SeqFacts, FrontOfStack
<1>3. QED
  BY <1>1, <1>2 DEF Good, Stack

\* The objects that calls refer to are in the heap.
LEMMA DoneInHeap ==
  ASSUME NEW h, NEW S, Good(h, S), NEW k \in DOMAIN S
  PROVE  /\ S[k] \in Calls
         /\ DOMAIN S[k].done = 1 .. Len(S[k].done) /\ Len(S[k].done) \in Nat
         /\ \A i \in DOMAIN S[k].done : InResult(h, S[k].done[i]) /\ S[k].done[i] \in DOMAIN h
<1>1. S[k] \in Calls
  BY SeqFacts DEF Good, Stack
<1>2. DOMAIN S[k].done = 1 .. Len(S[k].done) /\ Len(S[k].done) \in Nat
  BY <1>1, CallFields, SeqFacts
<1>3. \A i \in DOMAIN S[k].done : InResult(h, S[k].done[i])
  BY DEF Good, Extracted
<1>4. QED
  BY <1>1, <1>2, <1>3, HeapFacts DEF Good

\* A call less.
LEMMA Shrink ==
  ASSUME NEW h, NEW S, Good(h, S), S # <<>>
  PROVE  Good(h, Front(S))
<1> DEFINE F == Front(S)
           src == SourceOf(h)
<1>1. S \in Seq(Calls)
  BY LastCall
<1>2. /\ F \in Seq(Calls) /\ Len(S) \in Nat \ {0} /\ DOMAIN F = 1 .. Len(S) - 1 /\ DOMAIN S = 1 .. Len(S)
      /\ \A i \in 1 .. Len(S) - 1 : F[i] = S[i]
  BY <1>1, FrontOfStack, SeqFacts
<1> HIDE DEF F
<1>3. \A k \in DOMAIN F : k \in DOMAIN S /\ k \in Nat /\ F[k] = S[k]
  BY <1>2
<1>4. ASSUME NEW k \in DOMAIN F
      PROVE  Above(F, k) = Above(S, k) /\ Above(F, k + 1) = Above(S, k + 1)
  <2>1. k \in Nat /\ k + 1 \in Nat
    BY <1>3
  <2>2. \A j \in 1 .. (k + 1) - 1 : F[j].object = S[j].object
    BY <1>2
  <2>3. \A j \in 1 .. k - 1 : F[j].object = S[j].object
    BY <1>2
  <2>4. QED
    BY <2>1, <2>2, <2>3, SameAbove
<1>5. Stack(src, F)
  <2>1. ASSUME NEW k \in DOMAIN F, k > 1
        PROVE  k - 1 \in DOMAIN F /\ F[k - 1] = S[k - 1]
    BY <1>2, <2>1
  <2>2. ASSUME NEW k \in DOMAIN F
        PROVE  /\ Guarded(src, F[k].object)
               /\ F[k].parts = PartsOf(src, PartOf(F[k]))
               /\ Len(F[k].done) <= Len(F[k].parts)
               /\ F[k].object \notin Above(F, k)
               /\ k = 1 => PartOf(F[k]) = RootPart
               /\ k > 1 => /\ Len(F[k - 1].done) < Len(F[k - 1].parts)
                           /\ PartOf(F[k]) = F[k - 1].parts[Len(F[k - 1].done) + 1]
    BY <1>3, <1>4, <2>1 DEF Good, Stack
  <2>3. QED
    BY <1>2, <2>2 DEF Stack
<1>6. Extracted(h, F)
  BY <1>3 DEF Good, Extracted
<1>7. OneCall(h, F)
  <2>1. OneCall(h, S)
    BY DEF Good
  <2>2. \A k, l \in DOMAIN F : \A i \in DOMAIN F[k].done, j \in DOMAIN F[l].done :
          F[k].done[i] \in NewIn(h) /\ F[k].done[i] = F[l].done[j] => k = l /\ i = j
    BY <1>3, <2>1 DEF OneCall
  <2>3. \A x \in NewIn(h) : \A k \in DOMAIN F : \A i \in DOMAIN F[k].done :
          F[k].done[i] \in NewIn(h) => ~IsHeld(h, F[k].done[i], x)
    BY <1>3, <2>1 DEF OneCall
  <2>4. QED
    BY <2>2, <2>3 DEF OneCall
<1>8. Judged(h, F)
  BY <1>3, <1>4 DEF Good, Judged
<1>9. QED
  BY <1>5, <1>6, <1>7, <1>8 DEF Good, F

\* A call more, for the next part of the last one.
LEMMA Push ==
  ASSUME NEW h, NEW S, Good(h, S), S # <<>>, Len(Last(S).done) < Len(Last(S).parts),
         NEW p, p = Last(S).parts[Len(Last(S).done) + 1],
         Guarded(SourceOf(h), p.object), p.object \notin Above(S, Len(S) + 1)
  PROVE  Good(h, Append(S, Call(p, PartsOf(SourceOf(h), p))))
<1> DEFINE src == SourceOf(h)
           n == Len(S)
           c == Call(p, PartsOf(src, p))
           T == Append(S, c)
           m == Len(Last(S).done) + 1
<1>1. /\ S \in Seq(Calls) /\ n \in Nat \ {0} /\ DOMAIN S = 1 .. n /\ n \in DOMAIN S
      /\ Last(S) = S[n] /\ Last(S) \in Calls
      /\ Guarded(src, Last(S).object) /\ Last(S).parts = PartsOf(src, PartOf(Last(S)))
      /\ Last(S).object \notin Above(S, n)
  BY LastCall
<1>2. src \in Sources
  BY HeapFacts DEF Good
<1>3. m \in 1 .. Len(Last(S).parts) /\ m \in DOMAIN Last(S).parts /\ p = Last(S).parts[m] /\ p \in Parts
  <2>1. Last(S).parts \in Seq(Parts) /\ Last(S).done \in Seq(Nat)
    BY <1>1, CallFields
  <2>2. /\ Len(Last(S).parts) \in Nat /\ DOMAIN Last(S).parts = 1 .. Len(Last(S).parts)
        /\ Len(Last(S).done) \in Nat /\ \A i \in 1 .. Len(Last(S).parts) : Last(S).parts[i] \in Parts
    BY <2>1, SeqFacts
  <2>3. QED
    BY <2>2
<1>4. PartsOf(src, p) \in Seq(Parts)
  BY <1>2, <1>3, PartsAreParts
<1>5. /\ c \in Calls /\ c.object = p.object /\ PartOf(c) = p
      /\ c.parts = PartsOf(src, p) /\ c.done = <<>>
  BY <1>3, <1>4, CallIsForPart
<1> HIDE DEF c
<1>6. /\ T \in Seq(Calls) /\ DOMAIN T = 1 .. n + 1 /\ T[n + 1] = c
      /\ \A k \in 1 .. n : T[k] = S[k]
  BY <1>1, <1>5, Appended
<1> HIDE DEF T, m
<1>7. \A k \in DOMAIN T : (k \in DOMAIN S /\ T[k] = S[k]) \/ (k = n + 1 /\ T[k] = c)
  BY <1>1, <1>6
<1>8. ASSUME NEW k \in DOMAIN S
      PROVE  Above(T, k) = Above(S, k) /\ Above(T, k + 1) = Above(S, k + 1)
  <2>1. k \in Nat /\ k + 1 \in Nat
    BY <1>1
  <2>2. \A j \in 1 .. (k + 1) - 1 : T[j].object = S[j].object
    BY <1>1, <1>6
  <2>3. \A j \in 1 .. k - 1 : T[j].object = S[j].object
    BY <1>1, <1>6
  <2>4. QED
    BY <2>1, <2>2, <2>3, SameAbove
<1>9. Stack(src, T)
  <2>1. ASSUME NEW k \in DOMAIN S
        PROVE  /\ Guarded(src, T[k].object)
               /\ T[k].parts = PartsOf(src, PartOf(T[k]))
               /\ Len(T[k].done) <= Len(T[k].parts)
               /\ T[k].object \notin Above(T, k)
               /\ k = 1 => PartOf(T[k]) = RootPart
               /\ k > 1 => /\ Len(T[k - 1].done) < Len(T[k - 1].parts)
                           /\ PartOf(T[k]) = T[k - 1].parts[Len(T[k - 1].done) + 1]
    <3>1. T[k] = S[k] /\ (k > 1 => T[k - 1] = S[k - 1])
      BY <1>1, <1>6
    <3>2. QED
      BY <1>8, <3>1 DEF Good, Stack
  <2>2. /\ Guarded(src, T[n + 1].object)
        /\ T[n + 1].parts = PartsOf(src, PartOf(T[n + 1]))
        /\ Len(T[n + 1].done) <= Len(T[n + 1].parts)
        /\ T[n + 1].object \notin Above(T, n + 1)
        /\ Len(T[n].done) < Len(T[n].parts)
        /\ PartOf(T[n + 1]) = T[n].parts[Len(T[n].done) + 1]
    <3>1. T[n + 1] = c /\ T[n] = Last(S)
      BY <1>1, <1>6
    <3>2. Len(<<>>) = 0 /\ Len(PartsOf(src, p)) \in Nat
      BY <1>4, SeqFacts
    <3>3. Above(T, n + 1) = Above(S, n + 1)
      BY <1>1, <1>8
    <3>4. Len(T[n + 1].done) <= Len(T[n + 1].parts)
      BY <1>5, <3>1, <3>2
    <3>5. QED
      BY <1>3, <1>5, <3>1, <3>3, <3>4 DEF m
  <2>3. \A k \in DOMAIN T : k \in DOMAIN S \/ (k = n + 1 /\ k # 1 /\ k - 1 = n)
    BY <1>1, <1>6
  <2>4. QED
    BY <1>6, <2>1, <2>2, <2>3 DEF Stack
<1>10. DOMAIN c.done = {}
  BY <1>5
<1>11. Extracted(h, T)
  BY <1>7, <1>10 DEF Good, Extracted
<1>12. OneCall(h, T)
  <2>1. OneCall(h, S)
    BY DEF Good
  <2>2. \A k, l \in DOMAIN T : \A i \in DOMAIN T[k].done, j \in DOMAIN T[l].done :
          T[k].done[i] \in NewIn(h) /\ T[k].done[i] = T[l].done[j] => k = l /\ i = j
    BY <1>7, <1>10, <2>1 DEF OneCall
  <2>3. \A x \in NewIn(h) : \A k \in DOMAIN T : \A i \in DOMAIN T[k].done :
          T[k].done[i] \in NewIn(h) => ~IsHeld(h, T[k].done[i], x)
    BY <1>7, <1>10, <2>1 DEF OneCall
  <2>4. QED
    BY <2>2, <2>3 DEF OneCall
<1>13. Judged(h, T)
  <2>1. \A k \in DOMAIN T : \A i \in DOMAIN T[k].done :
          Refusable(src, T[k].parts[i], Above(T, k + 1)) <=> T[k].parts[i].hash /\ ~Hashable(h, T[k].done[i])
    <3>1. TAKE k \in DOMAIN T
    <3>2. CASE k \in DOMAIN S /\ T[k] = S[k]
      BY <1>8, <3>2 DEF Good, Judged
    <3>3. QED
      BY <1>7, <1>10, <3>2
  <2>2. Refusable(src, p, Above(S, n + 1)) => Refusable(src, PartOf(Last(S)), Above(S, n))
    <3>1. PartOf(Last(S)) \in Parts /\ PartOf(Last(S)).object = Last(S).object
      BY <1>1, CallFields
    <3>2. Above(S, n) \in SUBSET SourceRefs /\ Above(S, n + 1) = Above(S, n) \cup {Last(S).object}
      BY <1>1, AboveParts
    <3>3. m \in DOMAIN PartsOf(src, PartOf(Last(S))) /\ p = PartsOf(src, PartOf(Last(S)))[m]
      BY <1>1, <1>3
    <3>4. QED
      BY <1>1, <1>2, <3>1, <3>2, <3>3, RefusableEquation
  <2>3. Refusable(src, PartOf(Last(S)), Above(S, n)) => Refusable(src, RootPart, {})
    BY <1>1 DEF Good, Judged
  <2>4. Above(T, n + 1) = Above(S, n + 1)
    BY <1>1, <1>8
  <2>5. \A k \in DOMAIN T : Refusable(src, PartOf(T[k]), Above(T, k)) => Refusable(src, RootPart, {})
    <3>1. TAKE k \in DOMAIN T
    <3>2. CASE k \in DOMAIN S /\ T[k] = S[k]
      BY <1>8, <3>2 DEF Good, Judged
    <3>3. CASE k = n + 1 /\ T[k] = c
      BY <1>5, <2>2, <2>3, <2>4, <3>3
    <3>4. QED
      BY <1>7, <3>2, <3>3
  <2>6. QED
    BY <2>1, <2>5 DEF Judged
<1>14. QED
  BY <1>9, <1>11, <1>12, <1>13 DEF Good, T, c

\* An object that stands for the next part of the last call, and is nowhere else.
LEMMA Give ==
  ASSUME NEW h, NEW S, Good(h, S), S # <<>>, Len(Last(S).done) < Len(Last(S).parts),
         NEW p, p = Last(S).parts[Len(Last(S).done) + 1],
         NEW r, InResult(h, r), StandsFor(h, r, p.object),
         Refusable(SourceOf(h), p, Above(S, Len(S) + 1)) <=> p.hash /\ ~Hashable(h, r),
         r \in NewIn(h) => /\ \A x \in NewIn(h) : ~IsHeld(h, r, x)
                           /\ \A k \in DOMAIN S : \A i \in DOMAIN S[k].done : S[k].done[i] # r
  PROVE  Good(h, Given(S, r))
<1> DEFINE src == SourceOf(h)
           n == Len(S)
           T == Given(S, r)
           m == Len(Last(S).done) + 1
<1>1. /\ S \in Seq(Calls) /\ n \in Nat \ {0} /\ DOMAIN S = 1 .. n /\ n \in DOMAIN S
      /\ Last(S) = S[n] /\ Last(S) \in Calls
  BY LastCall
<1>2. r \in Nat
  BY HeapFacts DEF Good
<1>3. /\ T \in Seq(Calls) /\ Len(T) = n /\ DOMAIN T = DOMAIN S
      /\ \A k \in DOMAIN S :
           /\ T[k].object = S[k].object /\ PartOf(T[k]) = PartOf(S[k]) /\ T[k].parts = S[k].parts
           /\ k # n => T[k].done = S[k].done
      /\ T[n].done = Append(S[n].done, r)
  BY <1>1, <1>2, GivenCall
<1>4. /\ S[n].done \in Seq(Nat) /\ S[n].parts \in Seq(Parts)
      /\ Len(S[n].done) \in Nat /\ Len(S[n].parts) \in Nat
      /\ DOMAIN S[n].done = 1 .. Len(S[n].done)
  BY <1>1, CallFields, SeqFacts
<1>5. /\ Len(T[n].done) = m /\ DOMAIN T[n].done = 1 .. m /\ m - 1 \in Nat
      /\ T[n].done[m] = r /\ m \notin DOMAIN S[n].done /\ m = Len(S[n].done) + 1
      /\ \A i \in DOMAIN S[n].done : T[n].done[i] = S[n].done[i]
  BY <1>1, <1>2, <1>3, <1>4, Appended
<1> HIDE DEF T, m
<1>6. ASSUME NEW k \in DOMAIN T, NEW i \in DOMAIN T[k].done
      PROVE  /\ k \in DOMAIN S
             /\ \/ i \in DOMAIN S[k].done /\ T[k].done[i] = S[k].done[i]
                \/ k = n /\ i = m /\ T[k].done[i] = r
  <2>1. CASE k = n
    <3>1. i \in DOMAIN T[n].done
      BY <2>1
    <3>2. i = m \/ i \in DOMAIN S[n].done
      BY <1>4, <1>5, <3>1
    <3>3. QED
      BY <1>1, <1>5, <2>1, <3>2
  <2>2. CASE k # n
    BY <1>3, <2>2
  <2>3. QED
    BY <2>1, <2>2
<1>7. ASSUME NEW k \in DOMAIN S
      PROVE  Above(T, k) = Above(S, k) /\ Above(T, k + 1) = Above(S, k + 1)
  <2>1. k \in Nat /\ k + 1 \in Nat
    BY <1>1
  <2>2. \A j \in 1 .. (k + 1) - 1 : T[j].object = S[j].object
    BY <1>1, <1>3
  <2>3. \A j \in 1 .. k - 1 : T[j].object = S[j].object
    BY <1>1, <1>3
  <2>4. QED
    BY <2>1, <2>2, <2>3, SameAbove
<1>8. Stack(src, T)
  <2>1. ASSUME NEW k \in DOMAIN T
        PROVE  /\ Guarded(src, T[k].object)
               /\ T[k].parts = PartsOf(src, PartOf(T[k]))
               /\ Len(T[k].done) <= Len(T[k].parts)
               /\ T[k].object \notin Above(T, k)
               /\ k = 1 => PartOf(T[k]) = RootPart
               /\ k > 1 => /\ Len(T[k - 1].done) < Len(T[k - 1].parts)
                           /\ PartOf(T[k]) = T[k - 1].parts[Len(T[k - 1].done) + 1]
    <3>1. k \in DOMAIN S
      BY <1>3
    <3>2. Len(T[k].done) <= Len(T[k].parts)
      <4>1. CASE k = n
        BY <1>1, <1>3, <1>4, <1>5, <4>1
      <4>2. CASE k # n
        BY <1>3, <3>1, <4>2 DEF Good, Stack
      <4>3. QED
        BY <4>1, <4>2
    <3>3. ASSUME k > 1
          PROVE  /\ Len(T[k - 1].done) < Len(T[k - 1].parts)
                 /\ PartOf(T[k]) = T[k - 1].parts[Len(T[k - 1].done) + 1]
      <4>1. k - 1 \in DOMAIN S /\ k - 1 # n
        BY <1>1, <3>1, <3>3
      <4>2. T[k - 1].done = S[k - 1].done /\ T[k - 1].parts = S[k - 1].parts
        BY <1>3, <4>1
      <4>3. QED
        BY <1>3, <3>1, <3>3, <4>2 DEF Good, Stack
    <3>4. QED
      BY <1>3, <1>7, <3>1, <3>2, <3>3 DEF Good, Stack
  <2>2. QED
    BY <1>3, <2>1 DEF Stack
<1>9. Extracted(h, T)
  <2>1. ASSUME NEW k \in DOMAIN T, NEW i \in DOMAIN T[k].done
        PROVE  InResult(h, T[k].done[i]) /\ StandsFor(h, T[k].done[i], T[k].parts[i].object)
    <3>1. CASE k \in DOMAIN S /\ i \in DOMAIN S[k].done /\ T[k].done[i] = S[k].done[i]
      BY <1>3, <3>1 DEF Good, Extracted
    <3>2. CASE k = n /\ i = m /\ T[k].done[i] = r
      BY <1>1, <1>3, <3>2 DEF m
    <3>3. QED
      BY <1>6, <3>1, <3>2
  <2>2. QED
    BY <2>1 DEF Extracted
<1>10. OneCall(h, T)
  <2>1. OneCall(h, S)
    BY DEF Good
  <2>2. ASSUME NEW k \in DOMAIN T, NEW l \in DOMAIN T, NEW i \in DOMAIN T[k].done, NEW j \in DOMAIN T[l].done,
               T[k].done[i] \in NewIn(h), T[k].done[i] = T[l].done[j]
        PROVE  k = l /\ i = j
    BY <1>6, <2>1, <2>2 DEF OneCall
  <2>3. ASSUME NEW x \in NewIn(h), NEW k \in DOMAIN T, NEW i \in DOMAIN T[k].done, T[k].done[i] \in NewIn(h)
        PROVE  ~IsHeld(h, T[k].done[i], x)
    BY <1>6, <2>1, <2>3 DEF OneCall
  <2>4. QED
    BY <2>2, <2>3 DEF OneCall
<1>11. Judged(h, T)
  <2>1. ASSUME NEW k \in DOMAIN T, NEW i \in DOMAIN T[k].done
        PROVE  Refusable(src, T[k].parts[i], Above(T, k + 1)) <=> T[k].parts[i].hash /\ ~Hashable(h, T[k].done[i])
    <3>1. CASE k \in DOMAIN S /\ i \in DOMAIN S[k].done /\ T[k].done[i] = S[k].done[i]
      BY <1>3, <1>7, <3>1 DEF Good, Judged
    <3>2. CASE k = n /\ i = m /\ T[k].done[i] = r
      BY <1>1, <1>3, <1>7, <3>2 DEF m
    <3>3. QED
      BY <1>6, <3>1, <3>2
  <2>2. \A k \in DOMAIN T : Refusable(src, PartOf(T[k]), Above(T, k)) => Refusable(src, RootPart, {})
    BY <1>3, <1>7 DEF Good, Judged
  <2>3. QED
    BY <2>1, <2>2 DEF Judged
<1>12. QED
  BY <1>8, <1>9, <1>10, <1>11 DEF Good, T

\* An object more in the heap, which holds what no call holds.
LEMMA Grow ==
  ASSUME NEW h, NEW S, Good(h, S), NEW g, Objects(g), Grows(h, g), OneHolder(g), SourceOf(g) = SourceOf(h),
         \A x \in NewIn(g) \ NewIn(h) : \A k \in DOMAIN S : \A i \in DOMAIN S[k].done :
           S[k].done[i] \in NewIn(h) => ~IsHeld(g, S[k].done[i], x)
  PROVE  Good(g, S)
<1>1. Objects(h) /\ Closed(g)
  BY HeapFacts DEF Good
<1>2. \A k \in DOMAIN S : \A i \in DOMAIN S[k].done :
        InResult(h, S[k].done[i]) /\ S[k].done[i] \in DOMAIN h
  BY DoneInHeap
<1>3. /\ \A o : InResult(h, o) => InResult(g, o)
      /\ \A o, s : StandsFor(h, o, s) => StandsFor(g, o, s)
      /\ \A o \in DOMAIN h : o \in NewIn(g) => o \in NewIn(h)
  BY <1>1, ResultGrows
<1>4. Stack(SourceOf(g), S)
  BY DEF Good
<1>5. Extracted(g, S)
  BY <1>3 DEF Good, Extracted
<1>6. \A x \in NewIn(h) : \A o : IsHeld(g, o, x) => IsHeld(h, o, x)
  BY DEF IsHeld, Grows, NewIn
<1>7. OneCall(g, S)
  <2>1. OneCall(h, S)
    BY DEF Good
  <2>2. ASSUME NEW k \in DOMAIN S, NEW l \in DOMAIN S, NEW i \in DOMAIN S[k].done, NEW j \in DOMAIN S[l].done,
               S[k].done[i] \in NewIn(g), S[k].done[i] = S[l].done[j]
        PROVE  k = l /\ i = j
    BY <1>2, <1>3, <2>1, <2>2 DEF OneCall
  <2>3. ASSUME NEW x \in NewIn(g), NEW k \in DOMAIN S, NEW i \in DOMAIN S[k].done, S[k].done[i] \in NewIn(g)
        PROVE  ~IsHeld(g, S[k].done[i], x)
    <3>1. S[k].done[i] \in NewIn(h)
      BY <1>2, <1>3, <2>3
    <3>2. CASE x \in NewIn(h)
      BY <1>6, <2>1, <3>1, <3>2 DEF OneCall
    <3>3. CASE x \notin NewIn(h)
      BY <3>1, <3>3
    <3>4. QED
      BY <3>2, <3>3
  <2>4. QED
    BY <2>2, <2>3 DEF OneCall
<1>8. Judged(g, S)
  <2>1. \A k \in DOMAIN S : \A i \in DOMAIN S[k].done : Hashable(g, S[k].done[i]) <=> Hashable(h, S[k].done[i])
    BY <1>1, <1>2, HashableKept
  <2>2. QED
    BY <2>1 DEF Good, Judged
<1>9. QED
  BY <1>4, <1>5, <1>7, <1>8 DEF Good

-----------------------------------------------------------------------------
(* Finished calls. *)

\* A call of which every part is extracted.
IsFinished(c) == calls # <<>> /\ c = Last(calls) /\ Len(c.done) = Len(c.parts)

\* The facts about a finished call that the lemmas below share.
LEMMA FinishedCall ==
  ASSUME Good(heap, calls), NEW c, IsFinished(c)
  PROVE  /\ Source \in Sources /\ Source = SourceOf(heap)
         /\ c \in Calls /\ c.object \in SourceRefs /\ c.hash \in BOOLEAN /\ Guarded(Source, c.object)
         /\ PartOf(c) \in Parts /\ PartOf(c).object = c.object /\ PartOf(c).hash = c.hash
         /\ Structure(Source, c) = Structure(Source, PartOf(c))
         /\ c.parts = PartsOf(Source, PartOf(c))
         /\ c.done \in Seq(Nat) /\ DOMAIN c.parts = DOMAIN c.done
         /\ \A i \in DOMAIN c.done :
              /\ InResult(heap, c.done[i]) /\ c.parts[i] \in Parts
              /\ StandsFor(heap, c.done[i], c.parts[i].object)
         /\ \A i, j \in DOMAIN c.done : c.done[i] \in NewIn(heap) /\ c.done[i] = c.done[j] => i = j
         /\ \A i \in DOMAIN c.done : \A x \in NewIn(heap) : c.done[i] \in NewIn(heap) => ~IsHeld(heap, c.done[i], x)
<1> DEFINE n == Len(calls)
<1>1. Source = SourceOf(heap) /\ Source \in Sources
  BY HeapFacts DEF Source, SourceOf, Good
<1>2. /\ calls \in Seq(Calls) /\ n \in DOMAIN calls /\ c = calls[n] /\ c \in Calls
      /\ Guarded(Source, c.object) /\ c.parts = PartsOf(Source, PartOf(c))
  BY <1>1, LastCall DEF IsFinished
<1>3. /\ c.object \in SourceRefs /\ c.hash \in BOOLEAN /\ c.parts \in Seq(Parts) /\ c.done \in Seq(Nat)
      /\ PartOf(c) \in Parts /\ PartOf(c).object = c.object /\ PartOf(c).hash = c.hash
      /\ PartOf(c).annotation = c.annotation
  BY <1>2, CallFields
<1>4. Structure(Source, c) = Structure(Source, PartOf(c))
  BY <1>3 DEF Structure
<1>5. DOMAIN c.parts = DOMAIN c.done /\ \A i \in DOMAIN c.parts : c.parts[i] \in Parts
  <2>1. DOMAIN c.parts = 1 .. Len(c.parts) /\ DOMAIN c.done = 1 .. Len(c.done)
        /\ \A i \in 1 .. Len(c.parts) : c.parts[i] \in Parts
    BY <1>3, SeqFacts
  <2>2. QED
    BY <2>1 DEF IsFinished
<1>6. \A i \in DOMAIN c.done : InResult(heap, c.done[i]) /\ StandsFor(heap, c.done[i], c.parts[i].object)
  BY <1>2 DEF Good, Extracted
<1>7. \A i, j \in DOMAIN c.done : c.done[i] \in NewIn(heap) /\ c.done[i] = c.done[j] => i = j
  BY <1>2 DEF Good, OneCall
<1>8. \A i \in DOMAIN c.done : \A x \in NewIn(heap) : c.done[i] \in NewIn(heap) => ~IsHeld(heap, c.done[i], x)
  BY <1>2 DEF Good, OneCall
<1>9. QED
  BY <1>1, <1>2, <1>3, <1>4, <1>5, <1>6, <1>7, <1>8

\* Whether the part of a finished call is to be refused depends on what is to be hashed.
LEMMA FinishedRefusable ==
  ASSUME Good(heap, calls), NEW c, IsFinished(c)
  PROVE  /\ Refusable(Source, PartOf(c), Above(calls, Len(calls))) <=>
              \/ OddlyHashed(Source, PartOf(c))
              \/ \E i \in DOMAIN c.done : c.parts[i].hash /\ ~Hashable(heap, c.done[i])
         /\ Refusable(Source, PartOf(c), Above(calls, Len(calls))) => Refusable(Source, RootPart, {})
<1> DEFINE n == Len(calls)
<1>1. /\ Source \in Sources /\ Source = SourceOf(heap) /\ Guarded(Source, c.object)
      /\ PartOf(c) \in Parts /\ PartOf(c).object = c.object
      /\ c.parts = PartsOf(Source, PartOf(c)) /\ DOMAIN c.parts = DOMAIN c.done
  BY FinishedCall
<1>2. calls \in Seq(Calls) /\ n \in DOMAIN calls /\ c = calls[n] /\ c.object \notin Above(calls, n)
  BY LastCall DEF IsFinished
<1>3. Above(calls, n) \in SUBSET SourceRefs /\ Above(calls, n + 1) = Above(calls, n) \cup {c.object}
  BY <1>2, AboveParts
<1>4. \A i \in DOMAIN c.done :
        Refusable(Source, c.parts[i], Above(calls, n + 1)) <=> c.parts[i].hash /\ ~Hashable(heap, c.done[i])
  BY <1>1, <1>2 DEF Good, Judged
<1>5. Refusable(Source, PartOf(c), Above(calls, n)) <=>
        \/ OddlyHashed(Source, PartOf(c))
        \/ \E i \in DOMAIN c.parts : Refusable(Source, c.parts[i], Above(calls, n + 1))
  BY <1>1, <1>2, <1>3, RefusableEquation
<1>6. Refusable(Source, PartOf(c), Above(calls, n)) => Refusable(Source, RootPart, {})
  BY <1>1, <1>2 DEF Good, Judged
<1>7. QED
  BY <1>1, <1>4, <1>5, <1>6

\* The parts of a mapping and what was made of them.
LEMMA FinishedMapping ==
  ASSUME Good(heap, calls), NEW c, IsFinished(c), Structure(Source, c) = NoClass, Source[c.object].kind = "dict"
  PROVE  \E n \in Nat :
           /\ Alternating(c.parts, DOMAIN Source[c.object].of, n)
           /\ Keys(c.done) = [i \in 1 .. n |-> c.done[2 * i - 1]]
           /\ \A i \in 1 .. n : 2 * i - 1 \in DOMAIN c.done /\ 2 * i \in DOMAIN c.done
           /\ \A m \in DOMAIN c.done : (\E i \in 1 .. n : m = 2 * i - 1) \/ (\E i \in 1 .. n : m = 2 * i)
<1>1. /\ Source \in Sources /\ PartOf(c) \in Parts /\ PartOf(c).object = c.object
      /\ Structure(Source, PartOf(c)) = NoClass
      /\ c.parts = PartsOf(Source, PartOf(c)) /\ DOMAIN c.parts = DOMAIN c.done
      /\ Len(c.done) = Len(c.parts)
  BY FinishedCall DEF IsFinished
<1>2. PICK n \in Nat : Alternating(c.parts, DOMAIN Source[c.object].of, n)
  BY <1>1, MappingParts, Zenon
<1>3. Len(c.done) \div 2 = n
  BY <1>1, <1>2, Halves DEF Alternating
<1>4. Keys(c.done) = [i \in 1 .. n |-> c.done[2 * i - 1]]
  BY <1>3 DEF Keys
<1>5. \A i \in 1 .. n : 2 * i - 1 \in DOMAIN c.done /\ 2 * i \in DOMAIN c.done
  BY <1>1, <1>2 DEF Alternating
<1>6. \A m \in DOMAIN c.done : (\E i \in 1 .. n : m = 2 * i - 1) \/ (\E i \in 1 .. n : m = 2 * i)
  <2> TAKE m \in DOMAIN c.done
  <2>1. m \in Nat \ {0} /\ m <= 2 * n
    BY <1>1, <1>2 DEF Alternating
  <2>2. CASE m = 2 * (m \div 2) /\ m \div 2 \in Nat \ {0}
    <3>1. m \div 2 \in 1 .. n
      BY <1>2, <2>1, <2>2
    <3>2. QED
      BY <2>2, <3>1
  <2>3. CASE m = 2 * ((m + 1) \div 2) - 1 /\ (m + 1) \div 2 \in Nat \ {0}
    <3>1. (m + 1) \div 2 \in 1 .. n
      BY <1>2, <2>1, <2>3
    <3>2. QED
      BY <2>3, <3>1
  <2>4. QED
    BY <2>1, <2>2, <2>3, Parity
<1>7. QED
  BY <1>2, <1>4, <1>5, <1>6, Zenon

\* Keys of mappings are not alike, and neither are members of sets.
LEMMA NotAlike ==
  ASSUME NEW h \in Sources, NEW o \in SourceRefs
  PROVE  /\ h[o].kind = "dict" => \A k, l \in DOMAIN h[o].of : k # l => ~Alike(h, k, l)
         /\ h[o].kind \in {"set", "frozenset"} =>
              \A i, j \in DOMAIN h[o].of : i # j => ~Alike(h, h[o].of[i], h[o].of[j])
BY SourcesAssumption DEF WellFormed

\* What a mapping or a set hashes: what was made of the parts that are to be hashed, for
\* source objects that are not alike.
LEMMA HashedParts ==
  ASSUME Good(heap, calls), NEW c, IsFinished(c), Structure(Source, c) = NoClass,
         Source[c.object].kind \in {"dict", "set", "frozenset"}
  PROVE  /\ \A i \in DOMAIN HashedOf(c) : \E m \in DOMAIN c.done : c.parts[m].hash /\ HashedOf(c)[i] = c.done[m]
         /\ \A m \in DOMAIN c.done : c.parts[m].hash => \E i \in DOMAIN HashedOf(c) : HashedOf(c)[i] = c.done[m]
         /\ \A i, j \in DOMAIN HashedOf(c) : i # j =>
              \E s, t \in SourceRefs : /\ StandsFor(heap, HashedOf(c)[i], s) /\ StandsFor(heap, HashedOf(c)[j], t)
                                       /\ ~Alike(Source, s, t)
<1>1. /\ Source \in Sources /\ PartOf(c) \in Parts /\ PartOf(c).object = c.object /\ c.object \in SourceRefs
      /\ Structure(Source, PartOf(c)) = NoClass
      /\ c.parts = PartsOf(Source, PartOf(c)) /\ DOMAIN c.parts = DOMAIN c.done
      /\ \A i \in DOMAIN c.done : c.parts[i] \in Parts /\ StandsFor(heap, c.done[i], c.parts[i].object)
  BY FinishedCall
<1>2. \A i \in DOMAIN c.done : c.parts[i].object \in SourceRefs
  BY <1>1 DEF Parts
<1>3. CASE Source[c.object].kind = "dict"
  <2>1. PICK n \in Nat :
          /\ Alternating(c.parts, DOMAIN Source[c.object].of, n)
          /\ Keys(c.done) = [i \in 1 .. n |-> c.done[2 * i - 1]]
          /\ \A i \in 1 .. n : 2 * i - 1 \in DOMAIN c.done /\ 2 * i \in DOMAIN c.done
          /\ \A m \in DOMAIN c.done : (\E i \in 1 .. n : m = 2 * i - 1) \/ (\E i \in 1 .. n : m = 2 * i)
    BY <1>3, FinishedMapping
  <2>2. HashedOf(c) = [i \in 1 .. n |-> c.done[2 * i - 1]]
    BY <1>3, <2>1 DEF HashedOf, IsMapping
  <2>3. \A i \in 1 .. n : c.parts[2 * i - 1].hash /\ ~c.parts[2 * i].hash
                          /\ c.parts[2 * i - 1].object \in DOMAIN Source[c.object].of
    BY <2>1 DEF Alternating
  <2>4. DOMAIN HashedOf(c) = 1 .. n /\ \A i \in 1 .. n : HashedOf(c)[i] = c.done[2 * i - 1]
    BY <2>2
  <2>5. \A i \in DOMAIN HashedOf(c) : \E m \in DOMAIN c.done : c.parts[m].hash /\ HashedOf(c)[i] = c.done[m]
    BY <2>1, <2>3, <2>4
  <2>6. \A m \in DOMAIN c.done : c.parts[m].hash => \E i \in DOMAIN HashedOf(c) : HashedOf(c)[i] = c.done[m]
    <3> TAKE m \in DOMAIN c.done
    <3> HAVE c.parts[m].hash
    <3>1. PICK i \in 1 .. n : m = 2 * i - 1 \/ m = 2 * i
      BY <2>1
    <3>2. m # 2 * i
      BY <2>3
    <3>3. HashedOf(c)[i] = c.done[m]
      BY <2>4, <3>1, <3>2
    <3>4. QED
      BY <2>4, <3>3
  <2>7. ASSUME NEW i \in 1 .. n, NEW j \in 1 .. n, i # j
        PROVE  \E s, t \in SourceRefs : /\ StandsFor(heap, HashedOf(c)[i], s) /\ StandsFor(heap, HashedOf(c)[j], t)
                                        /\ ~Alike(Source, s, t)
    <3> DEFINE s == c.parts[2 * i - 1].object
               t == c.parts[2 * j - 1].object
    <3>1. s # t
      BY <2>1, <2>7 DEF Alternating
    <3>2. s \in DOMAIN Source[c.object].of /\ t \in DOMAIN Source[c.object].of
      BY <2>3
    <3>3. ~Alike(Source, s, t)
      BY <1>1, <1>3, <3>1, <3>2, NotAlike
    <3>4. s \in SourceRefs /\ StandsFor(heap, HashedOf(c)[i], s)
      BY <1>1, <1>2, <2>1, <2>4
    <3>5. t \in SourceRefs /\ StandsFor(heap, HashedOf(c)[j], t)
      BY <1>1, <1>2, <2>1, <2>4
    <3> HIDE DEF s, t
    <3>6. QED
      BY <3>3, <3>4, <3>5
  <2>8. QED
    BY <2>4, <2>5, <2>6, <2>7
<1>4. CASE Source[c.object].kind \in {"set", "frozenset"}
  <2>1. HashedOf(c) = c.done
    BY <1>4 DEF HashedOf, IsMapping
  <2>2. /\ DOMAIN c.parts = DOMAIN Source[c.object].of
        /\ \A i \in DOMAIN c.parts : c.parts[i].object = Source[c.object].of[i] /\ c.parts[i].hash
    <3>1. Source[c.object].kind \in Collections
      BY <1>4 DEF Collections
    <3>2. QED
      BY <1>1, <1>4, <3>1, CollectionParts
  <2>3. ASSUME NEW i \in DOMAIN c.done, NEW j \in DOMAIN c.done, i # j
        PROVE  ~Alike(Source, c.parts[i].object, c.parts[j].object)
    BY <1>1, <1>4, <2>2, <2>3, NotAlike
  <2>4. QED
    BY <1>1, <1>2, <2>1, <2>2, <2>3
<1>5. QED
  BY <1>3, <1>4

\* A mapping or a set collapses only because of what is not hashable: what it hashes is not
\* the same.
LEMMA CollapseMeans ==
  ASSUME Good(heap, calls), NEW c, IsFinished(c)
  PROVE  Collapses(c) <=>
           /\ Structure(Source, c) = NoClass
           /\ Source[c.object].kind \in {"dict", "set", "frozenset"}
           /\ \E m \in DOMAIN c.done : c.parts[m].hash /\ ~Hashable(heap, c.done[m])
<1>1. SUFFICES ASSUME Structure(Source, c) = NoClass, Source[c.object].kind \in {"dict", "set", "frozenset"}
               PROVE  (\/ ~Distinct(heap, HashedOf(c))
                       \/ \E i \in DOMAIN HashedOf(c) : ~Hashable(heap, HashedOf(c)[i]))
                      <=> \E m \in DOMAIN c.done : c.parts[m].hash /\ ~Hashable(heap, c.done[m])
  BY Zenon DEF Collapses
<1>2. /\ \A i \in DOMAIN HashedOf(c) : \E m \in DOMAIN c.done : c.parts[m].hash /\ HashedOf(c)[i] = c.done[m]
      /\ \A m \in DOMAIN c.done : c.parts[m].hash => \E i \in DOMAIN HashedOf(c) : HashedOf(c)[i] = c.done[m]
  BY <1>1, HashedParts
<1>3. (\E i \in DOMAIN HashedOf(c) : ~Hashable(heap, HashedOf(c)[i]))
      <=> \E m \in DOMAIN c.done : c.parts[m].hash /\ ~Hashable(heap, c.done[m])
  BY <1>2
<1>4. ASSUME NEW i \in DOMAIN HashedOf(c), NEW j \in DOMAIN HashedOf(c), i # j,
             Same(heap, HashedOf(c)[i], HashedOf(c)[j]), Hashable(heap, HashedOf(c)[i]), Hashable(heap, HashedOf(c)[j])
      PROVE  FALSE
  <2>1. PICK s \in SourceRefs, t \in SourceRefs :
          StandsFor(heap, HashedOf(c)[i], s) /\ StandsFor(heap, HashedOf(c)[j], t) /\ ~Alike(Source, s, t)
    BY <1>1, <1>4, HashedParts
  <2>2. InResult(heap, HashedOf(c)[i]) /\ InResult(heap, HashedOf(c)[j])
    BY <1>2, FinishedCall
  <2>3. Alike(SourceOf(heap), s, t)
    BY <1>4, <2>1, <2>2, SameIsAlike DEF Good
  <2>4. QED
    BY <2>1, <2>3, FinishedCall
<1>5. ~Distinct(heap, HashedOf(c)) => \E i \in DOMAIN HashedOf(c) : ~Hashable(heap, HashedOf(c)[i])
  BY <1>4 DEF Distinct
<1>6. QED
  BY <1>3, <1>5

-----------------------------------------------------------------------------
(* What a finished call makes. *)

\* The fields of an object.
LEMMA ObjectFields ==
  ASSUME NEW kind, NEW of, NEW carrier, NEW ids, NEW from
  PROVE  /\ DOMAIN Object(kind, of, carrier, ids, from) = {"kind", "class", "of", "carrier", "ids", "from"}
         /\ Object(kind, of, carrier, ids, from).kind = kind /\ Object(kind, of, carrier, ids, from).of = of
         /\ Object(kind, of, carrier, ids, from).carrier = carrier
         /\ Object(kind, of, carrier, ids, from).from = from
BY DEF Object

\* An object is of the right kind and holds what was made of the parts of its source, each
\* once.
Holds(v, done) ==
  /\ \A i \in DOMAIN v.of : \E m \in DOMAIN done : v.of[i] = done[m]
  /\ v.kind = "dict" => \A k \in DOMAIN v.of : PassedOn(heap, k) \/ \E m \in DOMAIN done : k = done[m]
  /\ v.kind # "dict" => v.of = done /\ ~v.carrier
  /\ \A i, j \in DOMAIN v.of : v.of[i] \in NewIn(heap) => /\ v.of[i] = v.of[j] => i = j
                                                          /\ v.kind = "dict" => v.of[i] # j

\* The new object has the names of fields and what was made of the fields.
LEMMA MadeOfStructure ==
  ASSUME Good(heap, calls), NEW c, IsFinished(c), Structure(Source, c) # NoClass
  PROVE  /\ Made(c).kind = "dict" /\ Made(c).carrier = c.hash /\ Holds(Made(c), c.done)
         /\ DOMAIN Made(c) = {"kind", "class", "of", "carrier", "ids", "from"} /\ Made(c).from = c.object
<1> DEFINE names == Crossing(Source, c.object, Structure(Source, c))
           v == Made(c)
           index(f) == CHOOSE i \in DOMAIN names : names[i] = f
<1>1. /\ Source \in Sources /\ PartOf(c) \in Parts /\ PartOf(c).object = c.object /\ c.object \in SourceRefs
      /\ Structure(Source, PartOf(c)) = Structure(Source, c) /\ Source = SourceOf(heap)
      /\ c.parts = PartsOf(Source, PartOf(c)) /\ DOMAIN c.parts = DOMAIN c.done
      /\ \A i, j \in DOMAIN c.done : c.done[i] \in NewIn(heap) /\ c.done[i] = c.done[j] => i = j
  BY FinishedCall
<1>2. /\ names \in Seq(SourceRefs) /\ DOMAIN names = DOMAIN c.done
      /\ \A f \in ToSet(names) : Source[f].kind = "scalar"
  BY <1>1, StructureParts
<1>3. v = Object("dict", FieldsMade(names, c.done), c.hash, IF c.hash THEN {c.object} ELSE {}, c.object)
  BY DEF Made, MadeAs
<1>4. /\ v.kind = "dict" /\ v.of = FieldsMade(names, c.done) /\ v.carrier = c.hash
      /\ DOMAIN v = {"kind", "class", "of", "carrier", "ids", "from"} /\ v.from = c.object
  BY <1>3, ObjectFields
<1>5. v.of = [f \in ToSet(names) |-> c.done[index(f)]]
  BY <1>4 DEF FieldsMade
<1>6. \A f \in ToSet(names) : index(f) \in DOMAIN names /\ names[index(f)] = f /\ f \in SourceRefs
  BY <1>2 DEF ToSet
<1> HIDE DEF v, names, index
<1>7. \A f \in DOMAIN v.of : /\ f \in ToSet(names) /\ v.of[f] = c.done[index(f)]
                             /\ index(f) \in DOMAIN c.done /\ names[index(f)] = f
  BY <1>2, <1>5, <1>6
<1>8. \A f \in DOMAIN v.of : PassedOn(heap, f) /\ f \notin NewIn(heap)
  BY <1>1, <1>2, <1>6, <1>7 DEF PassedOn, NewIn, SourceOf
<1>9. \A f, e \in DOMAIN v.of : v.of[f] \in NewIn(heap) =>
        (v.of[f] = v.of[e] => f = e) /\ v.of[f] # e
  <2> TAKE f, e \in DOMAIN v.of
  <2> HAVE v.of[f] \in NewIn(heap)
  <2>1. v.of[f] # e
    BY <1>8
  <2>2. ASSUME v.of[f] = v.of[e]
        PROVE  f = e
    <3>1. index(f) = index(e)
      BY <1>1, <1>7, <2>2
    <3>2. QED
      BY <1>7, <3>1
  <2>3. QED
    BY <2>1, <2>2
<1>10. Holds(v, c.done)
  BY <1>4, <1>7, <1>8, <1>9 DEF Holds
<1>11. QED
  BY <1>4, <1>10 DEF v

\* The new mapping has what was made of the keys and of the values.
LEMMA MadeOfMapping ==
  ASSUME Good(heap, calls), NEW c, IsFinished(c), Structure(Source, c) = NoClass, Source[c.object].kind = "dict"
  PROVE  /\ Made(c).kind = "dict" /\ Made(c).carrier = c.hash /\ Holds(Made(c), c.done)
         /\ DOMAIN Made(c) = {"kind", "class", "of", "carrier", "ids", "from"} /\ Made(c).from = c.object
<1> DEFINE v == Made(c)
           keys == Keys(c.done)
           index(k) == CHOOSE i \in DOMAIN keys : keys[i] = k
<1>1. PICK n \in Nat :
        /\ Keys(c.done) = [i \in 1 .. n |-> c.done[2 * i - 1]]
        /\ \A i \in 1 .. n : 2 * i - 1 \in DOMAIN c.done /\ 2 * i \in DOMAIN c.done
  BY FinishedMapping
<1>2. \A i, j \in DOMAIN c.done : c.done[i] \in NewIn(heap) /\ c.done[i] = c.done[j] => i = j
  BY FinishedCall
<1>3. v = Object("dict", EntriesMade(c.done), c.hash, {}, c.object)
  BY DEF Made, MadeAs, IsMapping
<1>4. /\ v.kind = "dict" /\ v.of = EntriesMade(c.done) /\ v.carrier = c.hash
      /\ DOMAIN v = {"kind", "class", "of", "carrier", "ids", "from"} /\ v.from = c.object
  BY <1>3, ObjectFields
<1>5. v.of = [k \in ToSet(keys) |-> c.done[2 * index(k)]]
  BY <1>4 DEF EntriesMade
<1>6. \A k \in ToSet(keys) : index(k) \in DOMAIN keys /\ keys[index(k)] = k
  BY DEF ToSet
<1>7. DOMAIN keys = 1 .. n /\ \A i \in 1 .. n : keys[i] = c.done[2 * i - 1]
  BY <1>1
<1> HIDE DEF v, keys, index
<1>8. \A k \in DOMAIN v.of : /\ index(k) \in 1 .. n
                             /\ v.of[k] = c.done[2 * index(k)] /\ k = c.done[2 * index(k) - 1]
                             /\ 2 * index(k) \in DOMAIN c.done /\ 2 * index(k) - 1 \in DOMAIN c.done
  BY <1>1, <1>5, <1>6, <1>7
<1>9. \A k, l \in DOMAIN v.of : v.of[k] \in NewIn(heap) =>
        (v.of[k] = v.of[l] => k = l) /\ v.of[k] # l
  <2> TAKE k, l \in DOMAIN v.of
  <2> HAVE v.of[k] \in NewIn(heap)
  <2>1. index(k) \in 1 .. n /\ index(l) \in 1 .. n
    BY <1>8
  <2>2. ASSUME v.of[k] = v.of[l]
        PROVE  k = l
    <3>1. 2 * index(k) = 2 * index(l)
      BY <1>2, <1>8, <2>2
    <3>2. index(k) = index(l)
      BY <2>1, <3>1
    <3>3. QED
      BY <1>8, <3>2
  <2>3. ASSUME v.of[k] = l
        PROVE  FALSE
    <3>1. 2 * index(k) = 2 * index(l) - 1
      BY <1>2, <1>8, <2>3
    <3>2. QED
      BY <2>1, <3>1
  <2>4. QED
    BY <2>2, <2>3
<1>10. Holds(v, c.done)
  BY <1>4, <1>8, <1>9 DEF Holds
<1>11. QED
  BY <1>4, <1>10 DEF v

\* The new collection has what was made of the items.
LEMMA MadeOfCollection ==
  ASSUME Good(heap, calls), NEW c, IsFinished(c), Structure(Source, c) = NoClass, Source[c.object].kind \in Collections
  PROVE  /\ Made(c).kind = Source[c.object].kind /\ ~Made(c).carrier /\ Holds(Made(c), c.done)
         /\ DOMAIN Made(c) = {"kind", "class", "of", "carrier", "ids", "from"} /\ Made(c).from = c.object
         /\ Made(c).of = c.done
<1> DEFINE v == Made(c)
           kind == Source[c.object].kind
<1>1. v = Object(kind, c.done, FALSE, {}, c.object)
  BY DEF Made, MadeAs, IsMapping, Collections
<1> HIDE DEF v, kind
<1>2. /\ v.kind = kind /\ v.of = c.done /\ ~v.carrier
      /\ DOMAIN v = {"kind", "class", "of", "carrier", "ids", "from"} /\ v.from = c.object
  BY <1>1 DEF Object
<1>3. \A i, j \in DOMAIN c.done : c.done[i] \in NewIn(heap) /\ c.done[i] = c.done[j] => i = j
  BY FinishedCall
<1>4. v.kind # "dict"
  BY <1>2 DEF Collections, kind
<1>5. Holds(v, c.done)
  BY <1>2, <1>3, <1>4 DEF Holds
<1>6. QED
  BY <1>2, <1>5 DEF v, kind

-----------------------------------------------------------------------------
(* The heap that a finished call leaves. *)

\* Carriers remember more, and nothing else changes.
LEMMA RememberedKeeps ==
  ASSUME Good(heap, calls), NEW c, IsFinished(c)
  PROVE  /\ DOMAIN Remembered(c) = DOMAIN heap
         /\ \A x \in DOMAIN heap :
              /\ x \in SourceRefs => Remembered(c)[x] = heap[x]
              /\ DOMAIN Remembered(c)[x] = DOMAIN heap[x]
              /\ Remembered(c)[x].kind = heap[x].kind /\ Remembered(c)[x].of = heap[x].of
              /\ Remembered(c)[x].carrier = heap[x].carrier /\ Remembered(c)[x].from = heap[x].from
<1>1. CASE Remembered(c) = heap
  BY <1>1
<1>2. CASE Remembered(c) = [p \in DOMAIN heap |->
             IF IdsOf(c, p) = {} THEN heap[p] ELSE [heap[p] EXCEPT !.ids = @ \cup IdsOf(c, p)]]
  <2>1. DOMAIN Remembered(c) = DOMAIN heap
    BY <1>2
  <2>2. ASSUME NEW x \in DOMAIN heap
        PROVE  /\ x \in SourceRefs => Remembered(c)[x] = heap[x]
               /\ DOMAIN Remembered(c)[x] = DOMAIN heap[x]
               /\ Remembered(c)[x].kind = heap[x].kind /\ Remembered(c)[x].of = heap[x].of
               /\ Remembered(c)[x].carrier = heap[x].carrier /\ Remembered(c)[x].from = heap[x].from
    <3>1. CASE IdsOf(c, x) = {}
      BY <1>2, <3>1
    <3>2. CASE IdsOf(c, x) # {}
      <4>1. PICK j \in DOMAIN c.done : x \in Carriers(heap, c.done[j])
        BY <3>2 DEF IdsOf
      <4>2. InResult(heap, c.done[j]) /\ Objects(heap)
        BY FinishedCall DEF Good
      <4>3. x \in NewIn(heap)
        BY <4>1, <4>2, CarriersAreNew
      <4>4. DOMAIN heap[x] = {"kind", "class", "of", "carrier", "ids", "from"}
        BY <4>2, <4>3 DEF Objects, Sound
      <4>5. Remembered(c)[x] = [heap[x] EXCEPT !.ids = @ \cup IdsOf(c, x)]
        BY <1>2, <3>2
      <4> DEFINE v == heap[x]
                 w == Remembered(c)[x]
                 ids == v.ids \cup IdsOf(c, x)
      <4>6. w = [v EXCEPT !.ids = ids] /\ DOMAIN v = {"kind", "class", "of", "carrier", "ids", "from"}
        BY <4>4, <4>5
      <4>7. x \notin SourceRefs
        BY <4>3 DEF NewIn
      <4> HIDE DEF v, w, ids
      <4>8. DOMAIN w = DOMAIN v /\ w.kind = v.kind /\ w.of = v.of /\ w.carrier = v.carrier /\ w.from = v.from
        BY <4>6
      <4>9. QED
        BY <4>7, <4>8 DEF v, w
    <3>3. QED
      BY <3>1, <3>2
  <2>3. QED
    BY <2>1, <2>2
<1>3. QED
  BY <1>1, <1>2 DEF Remembered

\* The heap has an object more.
LEMMA GrownHeap ==
  ASSUME Good(heap, calls), NEW c, IsFinished(c)
  PROVE  /\ FirstNew \in Nat /\ FirstNew \notin DOMAIN heap /\ FirstNew \notin SourceRefs
         /\ \A x \in DOMAIN heap : x < FirstNew
         /\ DOMAIN Grown(c) = DOMAIN heap \cup {FirstNew} /\ Grown(c)[FirstNew] = Made(c)
         /\ \E n \in Nat : n >= Size /\ DOMAIN Grown(c) = 1 .. n
         /\ Grows(heap, Grown(c)) /\ SourceOf(Grown(c)) = SourceOf(heap)
         /\ \A x \in DOMAIN heap : DOMAIN Grown(c)[x] = DOMAIN heap[x]
         /\ NewIn(Grown(c)) = NewIn(heap) \cup {FirstNew}
<1> DEFINE g == Grown(c)
           f == Remembered(c)
           r == FirstNew
<1>1. PICK n \in Nat : n >= Size /\ DOMAIN heap = 1 .. n
  BY DEF Good, Objects
<1>2. r = n + 1
  <2>1. Cardinality(1 .. n) = n
    BY FS_Interval
  <2>2. QED
    BY <1>1, <2>1 DEF FirstNew
<1>3. /\ DOMAIN f = DOMAIN heap
      /\ \A x \in DOMAIN heap :
           /\ x \in SourceRefs => f[x] = heap[x]
           /\ DOMAIN f[x] = DOMAIN heap[x] /\ f[x].kind = heap[x].kind /\ f[x].of = heap[x].of
           /\ f[x].carrier = heap[x].carrier /\ f[x].from = heap[x].from
  BY RememberedKeeps
<1>4. g = [x \in DOMAIN heap \cup {r} |-> IF x = r THEN Made(c) ELSE f[x]]
  BY DEF Grown
<1> HIDE DEF f, r, g
<1>5. /\ r \in Nat /\ r \notin DOMAIN heap /\ \A x \in DOMAIN heap : x < r
      /\ DOMAIN heap \cup {r} = 1 .. n + 1
  BY <1>1, <1>2
<1>6. SourceRefs \subseteq DOMAIN heap
  BY HeapFacts DEF Good
<1>7. DOMAIN g = DOMAIN heap \cup {r} /\ g[r] = Made(c) /\ \A x \in DOMAIN heap : g[x] = f[x]
  BY <1>3, <1>4, <1>5
<1>8. Grows(heap, g)
  BY <1>3, <1>7 DEF Grows
<1>9. SourceOf(g) = SourceOf(heap)
  BY <1>3, <1>6, <1>7 DEF SourceOf
<1>10. NewIn(g) = NewIn(heap) \cup {r} /\ r \notin SourceRefs
  BY <1>5, <1>6, <1>7 DEF NewIn
<1>11. n + 1 \in Nat /\ n + 1 >= Size
  BY <1>1, SourcesAssumption
<1>12. \A x \in DOMAIN heap : DOMAIN g[x] = DOMAIN heap[x]
  BY <1>3, <1>7
<1>13. QED
  BY <1>5, <1>7, <1>8, <1>9, <1>10, <1>11, <1>12 DEF r, g

\* What every call makes that does not hand its object on.
LEMMA MadeObject ==
  ASSUME Good(heap, calls), NEW c, IsFinished(c), ~HandsOn(c)
  PROVE  /\ DOMAIN Made(c) = {"kind", "class", "of", "carrier", "ids", "from"} /\ Made(c).from = c.object
         /\ Made(c).kind \in Collections \cup {"dict"} /\ Made(c).carrier \in BOOLEAN
         /\ Holds(Made(c), c.done)
         /\ Made(c).kind = "dict" => Made(c).carrier = c.hash
         /\ Made(c).kind = "dict" <=> Structure(Source, c) # NoClass \/ Source[c.object].kind = "dict"
         /\ Made(c).kind # "dict" => /\ Structure(Source, c) = NoClass /\ Made(c).kind = Source[c.object].kind
                                     /\ Made(c).of = c.done
<1>1. c.hash \in BOOLEAN /\ "dict" \notin Collections
  BY FinishedCall DEF Collections
<1>2. CASE Structure(Source, c) # NoClass
  BY <1>1, <1>2, MadeOfStructure
<1>3. CASE Structure(Source, c) = NoClass /\ Source[c.object].kind = "dict"
  BY <1>1, <1>3, MadeOfMapping
<1>4. CASE Structure(Source, c) = NoClass /\ Source[c.object].kind \in Collections
  <2>1. /\ Made(c).kind = Source[c.object].kind /\ ~Made(c).carrier /\ Holds(Made(c), c.done)
        /\ DOMAIN Made(c) = {"kind", "class", "of", "carrier", "ids", "from"} /\ Made(c).from = c.object
        /\ Made(c).of = c.done
    BY <1>4, MadeOfCollection
  <2>2. Made(c).kind # "dict" /\ Source[c.object].kind # "dict"
    BY <1>1, <1>4, <2>1
  <2>3. Made(c).carrier \in BOOLEAN
    <3>1. Made(c) = MadeAs(c, NoClass)
      BY <1>4 DEF Made
    <3>2. MadeAs(c, NoClass) = Object(Source[c.object].kind, c.done, FALSE, {}, c.object)
      BY <2>2 DEF MadeAs, IsMapping
    <3>3. Object(Source[c.object].kind, c.done, FALSE, {}, c.object).carrier = FALSE
      BY Zenon DEF Object
    <3>4. QED
      BY <3>1, <3>2, <3>3, Zenon
  <2>4. QED
    BY <1>4, <2>1, <2>2, <2>3
<1>5. QED
  BY <1>2, <1>3, <1>4 DEF HandsOn, IsMapping, IsCollection

\* The new object is as sound as the others.
LEMMA MadeIsSound ==
  ASSUME Good(heap, calls), NEW c, IsFinished(c), ~HandsOn(c)
  PROVE  Sound(Grown(c), FirstNew)
<1> DEFINE g == Grown(c)
           r == FirstNew
           v == Made(c)
<1>1. /\ r \in Nat /\ \A x \in DOMAIN heap : x < r
      /\ g[r] = v /\ Grows(heap, g) /\ SourceOf(g) = SourceOf(heap)
  BY GrownHeap
<1>2. /\ DOMAIN v = {"kind", "class", "of", "carrier", "ids", "from"} /\ v.from = c.object
      /\ v.kind \in Collections \cup {"dict"} /\ v.carrier \in BOOLEAN
      /\ Holds(v, c.done)
      /\ v.kind # "dict" => /\ Structure(Source, c) = NoClass /\ v.kind = Source[c.object].kind /\ v.of = c.done
  BY MadeObject
<1>3. /\ c.object \in SourceRefs /\ Source \in Sources /\ Source = SourceOf(heap)
      /\ \A m \in DOMAIN c.done : InResult(heap, c.done[m]) /\ StandsFor(heap, c.done[m], c.parts[m].object)
      /\ c.parts = PartsOf(Source, PartOf(c)) /\ DOMAIN c.parts = DOMAIN c.done
      /\ PartOf(c) \in Parts /\ PartOf(c).object = c.object /\ Structure(Source, PartOf(c)) = Structure(Source, c)
  BY FinishedCall
<1>4. /\ \A o : InResult(heap, o) => InResult(g, o) /\ o \in DOMAIN heap
      /\ \A o, s : StandsFor(heap, o, s) => StandsFor(g, o, s)
  BY <1>1, ResultGrows DEF Good
<1> HIDE DEF g, r, v
<1>5. \A m \in DOMAIN c.done : InResult(g, c.done[m]) /\ c.done[m] < r /\ StandsFor(g, c.done[m], c.parts[m].object)
  BY <1>1, <1>3, <1>4
<1>6. \A i \in DOMAIN v.of : v.of[i] < r /\ InResult(g, v.of[i])
  BY <1>2, <1>5 DEF Holds
<1>7. v.kind = "dict" => \A k \in DOMAIN v.of : k < r /\ InResult(g, k)
  <2>1. \A k : PassedOn(heap, k) => k < r /\ InResult(g, k)
    BY <1>1, <1>4 DEF InResult
  <2>2. QED
    BY <1>2, <1>5, <2>1 DEF Holds
<1>8. ASSUME v.kind # "dict"
      PROVE  /\ ~v.carrier
             /\ v.kind = g[v.from].kind
             /\ DOMAIN v.of = DOMAIN g[v.from].of
             /\ \A i \in DOMAIN v.of : StandsFor(g, v.of[i], g[v.from].of[i])
  <2>1. g[v.from] = Source[c.object]
    BY <1>1, <1>2, <1>3 DEF SourceOf
  <2>2. v.kind = Source[c.object].kind /\ v.of = c.done /\ ~v.carrier /\ Source[c.object].kind \in Collections
    BY <1>2, <1>8 DEF Holds
  <2>3. /\ DOMAIN c.parts = DOMAIN Source[c.object].of
        /\ \A i \in DOMAIN c.parts : c.parts[i].object = Source[c.object].of[i]
    BY <1>2, <1>3, <1>8, <2>2, CollectionParts
  <2>4. QED
    BY <1>3, <1>5, <2>1, <2>2, <2>3
<1>9. QED
  BY <1>1, <1>2, <1>3, <1>6, <1>7, <1>8 DEF Sound, g, r

\* Sound objects stay so.
LEMMA SoundKept ==
  ASSUME NEW h, NEW g, Objects(h), Grows(h, g), NEW x \in NewIn(h), DOMAIN g[x] = DOMAIN h[x]
  PROVE  Sound(g, x)
<1>1. Sound(h, x)
  BY DEF Objects
<1>2. /\ \A o : InResult(h, o) => InResult(g, o)
      /\ \A o, s : StandsFor(h, o, s) => StandsFor(g, o, s)
  BY ResultGrows
<1>3. /\ g[x].kind = h[x].kind /\ g[x].of = h[x].of /\ g[x].carrier = h[x].carrier /\ g[x].from = h[x].from
  BY DEF Grows, NewIn
<1>4. h[x].from \in SourceRefs /\ g[h[x].from].kind = h[h[x].from].kind /\ g[h[x].from].of = h[h[x].from].of
  <2>1. h[x].from \in SourceRefs /\ SourceRefs \subseteq DOMAIN h
    BY <1>1, HeapFacts DEF Sound
  <2>2. QED
    BY <2>1 DEF Grows
<1>5. QED
  BY <1>1, <1>2, <1>3, <1>4 DEF Sound

\* The objects are still sound after one more was made.
LEMMA GrownObjects ==
  ASSUME Good(heap, calls), NEW c, IsFinished(c), ~HandsOn(c)
  PROVE  Objects(Grown(c))
<1> DEFINE g == Grown(c)
<1>1. /\ \E n \in Nat : n >= Size /\ DOMAIN g = 1 .. n
      /\ Grows(heap, g) /\ SourceOf(g) = SourceOf(heap)
      /\ \A x \in DOMAIN heap : DOMAIN g[x] = DOMAIN heap[x]
      /\ NewIn(g) = NewIn(heap) \cup {FirstNew}
  BY GrownHeap
<1>2. Sound(g, FirstNew)
  BY MadeIsSound
<1>3. Objects(heap)
  BY DEF Good
<1> HIDE DEF g
<1>4. \A x \in NewIn(heap) : Sound(g, x)
  BY <1>1, <1>3, SoundKept DEF NewIn
<1>5. SourceOf(g) \in Sources
  BY <1>1, <1>3 DEF Objects
<1>6. Objects(g)
  BY <1>1, <1>2, <1>4, <1>5 DEF Objects
<1>7. QED
  BY <1>6 DEF g

\* What the new object holds: what its call had, and nothing else had.
LEMMA GrownHolder ==
  ASSUME Good(heap, calls), NEW c, IsFinished(c), ~HandsOn(c)
  PROVE  /\ OneHolder(Grown(c))
         /\ \A x \in NewIn(Grown(c)) : ~IsHeld(Grown(c), FirstNew, x)
         /\ \A o \in NewIn(heap) : IsHeld(Grown(c), o, FirstNew) => \E m \in DOMAIN c.done : o = c.done[m]
<1> DEFINE g == Grown(c)
           r == FirstNew
           v == Made(c)
<1>1. /\ r \in Nat /\ r \notin DOMAIN heap /\ g[r] = v
      /\ Grows(heap, g) /\ NewIn(g) = NewIn(heap) \cup {r} /\ NewIn(heap) \subseteq DOMAIN heap
      /\ NewIn(heap) \in SUBSET Nat
  BY GrownHeap, HeapFacts DEF NewIn, Good
<1>2. Sound(g, r) /\ Objects(heap)
  BY MadeIsSound DEF Good
<1>3. Holds(v, c.done)
  BY MadeObject
<1>4. /\ \A i \in DOMAIN c.done : \A x \in NewIn(heap) : c.done[i] \in NewIn(heap) => ~IsHeld(heap, c.done[i], x)
      /\ \A i \in DOMAIN c.done : c.done[i] \in DOMAIN heap
  BY <1>2, FinishedCall, HeapFacts
<1>5. OneHolder(heap)
  BY DEF Good
<1> HIDE DEF g, r, v
<1>6. \A x \in NewIn(heap) : \A o : IsHeld(g, o, x) <=> IsHeld(heap, o, x)
  BY <1>1 DEF IsHeld, Grows
<1>7. \A o \in NewIn(heap) : IsHeld(g, o, r) => \E m \in DOMAIN c.done : o = c.done[m]
  <2>1. \A o \in NewIn(heap) : ~PassedOn(heap, o)
    BY DEF NewIn, PassedOn
  <2>2. QED
    BY <1>1, <1>3, <2>1 DEF IsHeld, Holds
<1>8. ASSUME NEW x \in NewIn(g)
      PROVE  ~IsHeld(g, r, x)
  <2>1. CASE x \in NewIn(heap)
    <3>1. Sound(heap, x)
      BY <1>2, <2>1 DEF Objects
    <3>2. \A o : InResult(heap, o) => o \in DOMAIN heap
      BY <1>2, HeapFacts
    <3>3. ~IsHeld(heap, r, x)
      BY <1>1, <3>1, <3>2 DEF Sound, IsHeld
    <3>4. QED
      BY <1>6, <2>1, <3>3
  <2>2. CASE x = r
    <3>1. ~(r < r)
      BY <1>1
    <3>2. QED
      BY <1>2, <2>2, <3>1 DEF Sound, IsHeld
  <2>3. QED
    BY <1>1, <2>1, <2>2
<1>9. ASSUME NEW x \in NewIn(g), NEW y \in NewIn(g), NEW o \in NewIn(g), IsHeld(g, o, x), IsHeld(g, o, y)
      PROVE  x = y
  <2>1. o \in NewIn(heap)
    BY <1>1, <1>8, <1>9
  <2>2. ASSUME NEW z \in NewIn(heap), IsHeld(g, o, z)
        PROVE  ~IsHeld(g, o, r)
    <3>1. IsHeld(heap, o, z)
      BY <1>6, <2>2
    <3>2. QED
      BY <1>4, <1>7, <2>1, <3>1
  <2>3. CASE x \in NewIn(heap) /\ y \in NewIn(heap)
    BY <1>5, <1>6, <1>9, <2>1, <2>3 DEF OneHolder
  <2>4. QED
    BY <1>1, <1>9, <2>2, <2>3
<1>10. ASSUME NEW x \in NewIn(g)
       PROVE  OnePlace(g, x)
  <2>1. \A o \in DOMAIN heap : o \in NewIn(g) => o \in NewIn(heap)
    BY <1>1
  <2>2. CASE x \in NewIn(heap)
    <3>1. OnePlace(heap, x) /\ Sound(heap, x)
      BY <1>2, <1>5, <2>2 DEF OneHolder, Objects
    <3>2. \A i \in DOMAIN heap[x].of : heap[x].of[i] \in DOMAIN heap
      BY <1>2, <3>1, HeapFacts DEF Sound
    <3>3. g[x].of = heap[x].of /\ g[x].kind = heap[x].kind
      BY <1>1, <2>2 DEF Grows
    <3>4. QED
      BY <2>1, <3>1, <3>2, <3>3 DEF OnePlace
  <2>3. CASE x = r
    <3>1. \A i \in DOMAIN v.of : v.of[i] \in DOMAIN heap
      BY <1>3, <1>4 DEF Holds
    <3>2. QED
      BY <1>1, <1>3, <2>1, <2>3, <3>1 DEF OnePlace, Holds
  <2>4. QED
    BY <1>1, <2>2, <2>3
<1>11. OneHolder(g)
  BY <1>9, <1>10 DEF OneHolder
<1>12. QED
  BY <1>7, <1>8, <1>11 DEF g, r

\* The calls that wait are as good with the new object.
LEMMA GrownGood ==
  ASSUME Good(heap, calls), NEW c, IsFinished(c), ~HandsOn(c)
  PROVE  /\ Good(Grown(c), Front(calls))
         /\ \A k \in DOMAIN Front(calls) : \A i \in DOMAIN Front(calls)[k].done : Front(calls)[k].done[i] # FirstNew
<1> DEFINE F == Front(calls)
           g == Grown(c)
<1>1. calls # <<>> /\ Good(heap, F)
  BY Shrink DEF IsFinished
<1>2. /\ calls \in Seq(Calls) /\ DOMAIN F = 1 .. Len(calls) - 1 /\ Len(calls) \in Nat \ {0}
      /\ \A k \in 1 .. Len(calls) - 1 : F[k] = calls[k]
      /\ c = calls[Len(calls)] /\ Len(calls) \in DOMAIN calls /\ DOMAIN calls = 1 .. Len(calls)
  BY <1>1, LastCall, FrontOfStack DEF IsFinished
<1>3. /\ Grows(heap, g) /\ SourceOf(g) = SourceOf(heap)
      /\ NewIn(g) = NewIn(heap) \cup {FirstNew} /\ FirstNew \notin DOMAIN heap
  BY GrownHeap
<1>4. /\ OneHolder(g)
      /\ \A o \in NewIn(heap) : IsHeld(g, o, FirstNew) => \E m \in DOMAIN c.done : o = c.done[m]
  BY GrownHolder
<1>5. Objects(g)
  BY GrownObjects
<1> HIDE DEF F, g
<1>6. ASSUME NEW k \in DOMAIN F, NEW i \in DOMAIN F[k].done, F[k].done[i] \in NewIn(heap)
      PROVE  ~IsHeld(g, F[k].done[i], FirstNew)
  <2>1. k \in DOMAIN calls /\ k # Len(calls) /\ F[k] = calls[k]
    BY <1>2
  <2>2. \A m \in DOMAIN c.done : F[k].done[i] # c.done[m]
    BY <1>2, <1>6, <2>1 DEF Good, OneCall
  <2>3. QED
    BY <1>4, <1>6, <2>2
<1>7. Good(g, F)
  BY <1>1, <1>3, <1>4, <1>5, <1>6, Grow
<1>8. \A k \in DOMAIN F : \A i \in DOMAIN F[k].done : F[k].done[i] # FirstNew
  BY <1>1, <1>3, DoneInHeap
<1>9. QED
  BY <1>7, <1>8 DEF F, g

\* What a call hands to its caller, and the heap with it.
Returned(c) == IF HandsOn(c) THEN c.object ELSE FirstNew
HeapAfter(c) == IF HandsOn(c) THEN heap ELSE Grown(c)

\* What is handed on is a dataclass that no annotation declares, and has no parts.
LEMMA HandedOn ==
  ASSUME Good(heap, calls), NEW c, IsFinished(c), HandsOn(c)
  PROVE  /\ heap[c.object].kind = "dataclass" /\ c.object \in DOMAIN heap /\ PassedOn(heap, c.object)
         /\ c.parts = <<>> /\ ~OddlyHashed(Source, PartOf(c))
<1>1. /\ Source \in Sources /\ Source = SourceOf(heap) /\ c.object \in SourceRefs /\ Guarded(Source, c.object)
      /\ PartOf(c) \in Parts /\ PartOf(c).object = c.object
      /\ Structure(Source, c) = Structure(Source, PartOf(c)) /\ c.parts = PartsOf(Source, PartOf(c))
  BY FinishedCall
<1>2. Structure(Source, c) = NoClass /\ Source[c.object].kind \notin Collections \cup {"dict"}
  BY DEF HandsOn, IsMapping, IsCollection
<1>3. Source[c.object].kind # "model"
  <2>1. NoClass \notin DOMAIN Mro
    BY SourcesAssumption
  <2>2. QED
    BY <1>1, <1>2, <2>1, StructureIsClass
<1>4. Source[c.object].kind = "dataclass"
  BY <1>1, <1>2, <1>3 DEF Guarded, Structures
<1>5. Source[c.object] = heap[c.object] /\ c.object \in DOMAIN heap
  BY <1>1, HeapFacts DEF Good
<1>6. c.parts = <<>>
  BY <1>1, <1>2, NoParts
<1>7. ~OddlyHashed(Source, PartOf(c))
  BY <1>1, <1>4 DEF OddlyHashed
<1>8. QED
  BY <1>1, <1>4, <1>5, <1>6, <1>7 DEF PassedOn

\* The part of a call that returns is to be refused only if it has to be hashed and cannot be.
LEMMA ReturnedJudged ==
  ASSUME Good(heap, calls), NEW c, IsFinished(c), ~Collapses(c)
  PROVE  /\ InResult(HeapAfter(c), Returned(c)) /\ StandsFor(HeapAfter(c), Returned(c), c.object)
         /\ Refusable(Source, PartOf(c), Above(calls, Len(calls))) <=>
              c.hash /\ ~Hashable(HeapAfter(c), Returned(c))
<1> DEFINE refused == Refusable(Source, PartOf(c), Above(calls, Len(calls)))
<1>1. /\ Source \in Sources /\ Source = SourceOf(heap) /\ c.object \in SourceRefs /\ Guarded(Source, c.object)
      /\ PartOf(c) \in Parts /\ PartOf(c).object = c.object /\ PartOf(c).hash = c.hash
      /\ Structure(Source, c) = Structure(Source, PartOf(c)) /\ c.parts = PartsOf(Source, PartOf(c))
      /\ DOMAIN c.parts = DOMAIN c.done /\ c.done \in Seq(Nat)
      /\ \A m \in DOMAIN c.done : InResult(heap, c.done[m])
  BY FinishedCall
<1>2. refused <=> \/ OddlyHashed(Source, PartOf(c))
                  \/ \E m \in DOMAIN c.done : c.parts[m].hash /\ ~Hashable(heap, c.done[m])
  BY FinishedRefusable
<1>3. Objects(heap) /\ Closed(heap)
  BY HeapFacts DEF Good
<1>4. CASE HandsOn(c)
  <2>1. /\ heap[c.object].kind = "dataclass" /\ c.object \in DOMAIN heap /\ PassedOn(heap, c.object)
        /\ c.parts = <<>> /\ ~OddlyHashed(Source, PartOf(c))
    BY <1>4, HandedOn
  <2>2. Hashable(heap, c.object)
    BY <1>3, <2>1, PassedOnHashable
  <2>3. DOMAIN c.done = {}
    BY <1>1, <2>1
  <2>4. ~refused
    BY <1>2, <2>1, <2>3
  <2>5. HeapAfter(c) = heap /\ Returned(c) = c.object
    BY <1>4 DEF HeapAfter, Returned
  <2>6. QED
    BY <2>1, <2>2, <2>4, <2>5 DEF InResult, StandsFor
<1>5. CASE ~HandsOn(c)
  <2> DEFINE g == Grown(c)
             r == FirstNew
             v == Made(c)
  <2>1. HeapAfter(c) = g /\ Returned(c) = r
    BY <1>5 DEF HeapAfter, Returned
  <2>2. Objects(g) /\ Closed(g)
    BY <1>5, GrownObjects, HeapFacts
  <2>3. r \in DOMAIN g /\ r \in NewIn(g) /\ g[r] = v /\ Grows(heap, g)
    BY GrownHeap
  <2>4. /\ v.from = c.object /\ Holds(v, c.done)
        /\ v.kind = "dict" => v.carrier = c.hash
        /\ v.kind = "dict" <=> Structure(Source, c) # NoClass \/ Source[c.object].kind = "dict"
        /\ v.kind # "dict" => /\ Structure(Source, c) = NoClass /\ v.kind = Source[c.object].kind
                              /\ v.of = c.done
        /\ v.kind \in Collections \cup {"dict"}
    BY <1>5, MadeObject
  <2> HIDE DEF g, r, v, refused
  <2>5. InResult(g, r) /\ StandsFor(g, r, c.object)
    BY <2>3, <2>4 DEF InResult, StandsFor
  <2>6. Hashable(g, r) <=>
          /\ v.kind \notin {"list", "set"}
          /\ v.kind = "dict" => v.carrier
          /\ v.kind \in {"tuple", "frozenset"} => \A q \in Range(v.of) : Hashable(g, q)
    BY <2>2, <2>3, HashableEquation
  <2>7. \A m \in DOMAIN c.done : Hashable(g, c.done[m]) <=> Hashable(heap, c.done[m])
    BY <1>1, <1>3, <2>2, <2>3, HashableKept
  <2>8. ASSUME Structure(Source, c) = NoClass, Source[c.object].kind \in {"dict", "set", "frozenset"}
        PROVE  \A m \in DOMAIN c.done : c.parts[m].hash => Hashable(heap, c.done[m])
    BY <2>8, CollapseMeans
  <2>9. CASE Structure(Source, c) # NoClass
    <3>1. \A m \in DOMAIN c.done : ~c.parts[m].hash
      BY <1>1, <2>9, StructureParts
    <3>2. ~OddlyHashed(Source, PartOf(c))
      BY <1>1, <2>9 DEF OddlyHashed
    <3>3. ~refused
      BY <1>2, <3>1, <3>2
    <3>4. c.hash => Hashable(g, r)
      BY <2>4, <2>6, <2>9
    <3>5. QED
      BY <2>1, <2>5, <3>3, <3>4 DEF refused
  <2>10. CASE Structure(Source, c) = NoClass /\ Source[c.object].kind = "dict"
    <3>1. \A m \in DOMAIN c.done : c.parts[m].hash => Hashable(heap, c.done[m])
      BY <2>8, <2>10
    <3>2. ~OddlyHashed(Source, PartOf(c))
      BY <1>1, <2>10 DEF OddlyHashed
    <3>3. ~refused
      BY <1>2, <3>1, <3>2
    <3>4. c.hash => Hashable(g, r)
      BY <2>4, <2>6, <2>10
    <3>5. QED
      BY <2>1, <2>5, <3>3, <3>4 DEF refused
  <2>11. CASE Structure(Source, c) = NoClass /\ Source[c.object].kind # "dict"
    <3>1. v.kind = Source[c.object].kind /\ v.of = c.done /\ v.kind \in Collections /\ v.kind # "dict"
      BY <2>4, <2>11
    <3>2. \A m \in DOMAIN c.done : c.parts[m].hash <=> v.kind \in {"set", "frozenset"} \/ (v.kind = "tuple" /\ c.hash)
      <4> DEFINE p == PartOf(c)
      <4>1. /\ p \in Parts /\ Structure(Source, p) = NoClass /\ Source[p.object].kind \in Collections
            /\ p.object = c.object /\ p.hash = c.hash
        BY <1>1, <2>11, <3>1
      <4>2. \A m \in DOMAIN PartsOf(Source, p) :
              PartsOf(Source, p)[m].hash <=>
                Source[p.object].kind \in {"set", "frozenset"} \/ (Source[p.object].kind = "tuple" /\ p.hash)
        BY <1>1, <4>1, CollectionParts
      <4>3. QED
        BY <1>1, <3>1, <4>1, <4>2
    <3>3. OddlyHashed(Source, PartOf(c)) <=> c.hash /\ v.kind \in {"list", "set"}
      BY <1>1, <2>11, <3>1 DEF OddlyHashed
    <3>4. CASE v.kind = "list"
      BY <1>2, <2>1, <2>5, <2>6, <3>2, <3>3, <3>4 DEF refused
    <3>5. CASE v.kind = "set"
      <4>1. \A m \in DOMAIN c.done : c.parts[m].hash => Hashable(heap, c.done[m])
        BY <2>8, <2>11, <3>1, <3>5
      <4>2. refused <=> c.hash
        BY <1>2, <3>3, <3>5, <4>1
      <4>3. QED
        BY <2>1, <2>5, <2>6, <3>5, <4>2 DEF refused
    <3>6. CASE v.kind = "frozenset"
      <4>1. \A m \in DOMAIN c.done : Hashable(heap, c.done[m])
        BY <2>8, <2>11, <3>1, <3>2, <3>6
      <4>2. ~refused
        BY <1>2, <3>3, <3>6, <4>1
      <4>3. \A q \in Range(v.of) : Hashable(g, q)
        BY <2>7, <3>1, <4>1 DEF Range
      <4>4. Hashable(g, r)
        BY <2>6, <3>6, <4>3
      <4>5. QED
        BY <2>1, <2>5, <4>2, <4>4 DEF refused
    <3>7. CASE v.kind = "tuple"
      <4>1. refused <=> \E m \in DOMAIN c.done : c.hash /\ ~Hashable(heap, c.done[m])
        BY <1>2, <3>2, <3>3, <3>7
      <4>2. Hashable(g, r) <=> \A m \in DOMAIN c.done : Hashable(heap, c.done[m])
        <5>1. Hashable(g, r) <=> \A q \in Range(v.of) : Hashable(g, q)
          BY <2>6, <3>7
        <5>2. Hashable(g, r) <=> \A m \in DOMAIN c.done : Hashable(g, c.done[m])
          BY <3>1, <5>1 DEF Range
        <5>3. QED
          BY <2>7, <5>2
      <4>3. QED
        BY <2>1, <2>5, <4>1, <4>2 DEF refused
    <3>8. QED
      BY <3>1, <3>4, <3>5, <3>6, <3>7 DEF Collections
  <2>12. QED
    BY <2>9, <2>10, <2>11
<1>6. QED
  BY <1>4, <1>5

-----------------------------------------------------------------------------
(* The steps. *)

\* A call returns to the call that waits for it.
LEMMA ReturnGood ==
  ASSUME Good(heap, calls), NEW c, IsFinished(c), ~Collapses(c)
  PROVE  /\ SourceOf(HeapAfter(c)) = Source
         /\ Len(calls) # 1 => /\ Good(HeapAfter(c), Given(Front(calls), Returned(c)))
                              /\ Front(calls) \in Seq(Calls) /\ Front(calls) # <<>> /\ Returned(c) \in Nat
         /\ Len(calls) = 1 => /\ Good(HeapAfter(c), <<>>) /\ Returned(c) \in NewIn(HeapAfter(c))
                              /\ ~Refusable(Source, RootPart, {})
<1> DEFINE g == HeapAfter(c)
           r == Returned(c)
           F == Front(calls)
           n == Len(calls)
<1>1. /\ Source \in Sources /\ Source = SourceOf(heap) /\ c.object \in SourceRefs /\ PartOf(c) \in Parts
      /\ PartOf(c).object = c.object /\ PartOf(c).hash = c.hash /\ Structure(Source, PartOf(c)) = Structure(Source, c)
  BY FinishedCall
<1>2. /\ calls # <<>> /\ calls \in Seq(Calls) /\ n \in Nat \ {0} /\ DOMAIN calls = 1 .. n /\ c = calls[n]
  BY LastCall DEF IsFinished
<1>3. /\ F \in Seq(Calls) /\ Len(F) = n - 1 /\ DOMAIN F = 1 .. n - 1 /\ \A i \in 1 .. n - 1 : F[i] = calls[i]
  BY <1>2, FrontOfStack
<1>4. SourceOf(g) = Source
  BY <1>1, GrownHeap DEF HeapAfter
<1>5. /\ InResult(g, r) /\ StandsFor(g, r, c.object)
      /\ Refusable(Source, PartOf(c), Above(calls, n)) <=> c.hash /\ ~Hashable(g, r)
  BY ReturnedJudged
<1>6. Good(g, F)
  BY <1>2, Shrink, GrownGood DEF HeapAfter
<1>7. r \in NewIn(g) => /\ \A x \in NewIn(g) : ~IsHeld(g, r, x)
                        /\ \A k \in DOMAIN F : \A i \in DOMAIN F[k].done : F[k].done[i] # r
  <2>1. CASE HandsOn(c)
    BY <1>1, <2>1 DEF Returned, NewIn
  <2>2. CASE ~HandsOn(c)
    BY <2>2, GrownHolder, GrownGood DEF Returned, HeapAfter
  <2>3. QED
    BY <2>1, <2>2
<1> HIDE DEF g, r, F
<1>8. ASSUME n # 1
      PROVE  Good(g, Given(F, r)) /\ F # <<>> /\ r \in Nat
  <2>1. n - 1 \in 1 .. n - 1 /\ F # <<>> /\ Last(F) = calls[n - 1]
    <3>1. n - 1 \in 1 .. n - 1
      BY <1>2, <1>8
    <3>2. F # <<>>
      BY <1>3, <3>1
    <3>3. Last(F) = F[Len(F)]
      BY <1>3, <3>2, FrontOfStack
    <3>4. QED
      BY <1>3, <3>1, <3>2, <3>3
  <2>2. Len(Last(F).done) < Len(Last(F).parts) /\ PartOf(c) = Last(F).parts[Len(Last(F).done) + 1]
    <3>1. n \in DOMAIN calls /\ n > 1
      BY <1>2, <1>8
    <3>2. QED
      BY <1>2, <2>1, <3>1 DEF Good, Stack
  <2>3. Above(F, Len(F) + 1) = Above(calls, n)
    <3>1. Len(F) + 1 = n
      BY <1>2, <1>3
    <3>2. \A j \in 1 .. n - 1 : F[j].object = calls[j].object
      BY <1>3
    <3>3. QED
      BY <1>2, <3>1, <3>2, SameAbove
  <2>4. StandsFor(g, r, PartOf(c).object)
    BY <1>1, <1>5
  <2>5. Refusable(SourceOf(g), PartOf(c), Above(F, Len(F) + 1)) <=> PartOf(c).hash /\ ~Hashable(g, r)
    BY <1>1, <1>4, <1>5, <2>3
  <2>6. Good(g, Given(F, r))
    BY <1>5, <1>6, <1>7, <2>1, <2>2, <2>4, <2>5, Give
  <2>7. r \in Nat
    BY <1>5, <1>6, HeapFacts DEF Good
  <2>8. QED
    BY <2>1, <2>6, <2>7
<1>9. ASSUME n = 1
      PROVE  Good(g, <<>>) /\ r \in NewIn(g) /\ ~Refusable(Source, RootPart, {})
  <2>1. F = <<>>
    BY <1>3, <1>9, EmptySeq
  <2>2. PartOf(c) = RootPart
    <3>1. 1 \in DOMAIN calls
      BY <1>2
    <3>2. QED
      BY <1>2, <1>9, <3>1 DEF Good, Stack
  <2>3. c.object = Root /\ ~c.hash
    <3>1. RootPart.object = Root /\ ~RootPart.hash
      BY DEF RootPart, Part
    <3>2. c.object = RootPart.object /\ c.hash = RootPart.hash
      BY <1>1, <2>2
    <3>3. QED
      BY <3>1, <3>2
  <2>4. Source[Root].kind = "model"
    BY <1>1, SourcesAssumption
  <2>5. ~HandsOn(c)
    <3>1. Structure(Source, c) \in DOMAIN Mro
      BY <1>1, <2>3, <2>4, StructureIsClass
    <3>2. QED
      BY <3>1, SourcesAssumption DEF HandsOn
  <2>6. r \in NewIn(g)
    BY <2>5, GrownHeap DEF g, r, HeapAfter, Returned
  <2>7. Above(calls, n) = {}
    BY <1>9 DEF Above
  <2>8. QED
    BY <1>5, <1>6, <2>1, <2>2, <2>3, <2>6, <2>7
<1>10. QED
  BY <1>3, <1>4, <1>8, <1>9 DEF g, r, F

\* The objects of the running calls are what is above the next part.
LEMMA ActiveObjects ==
  ASSUME NEW S \in Seq(Calls)
  PROVE  {S[i].object : i \in DOMAIN S} = Above(S, Len(S) + 1)
<1>1. DOMAIN S = 1 .. (Len(S) + 1) - 1
  BY SeqFacts
<1>2. QED
  BY <1>1 DEF Above

\* Giving an object to a call changes no identities.
LEMMA GivenObjects ==
  ASSUME NEW S \in Seq(Calls), S # <<>>, NEW r \in Nat
  PROVE  {Given(S, r)[i].object : i \in DOMAIN Given(S, r)} = {S[i].object : i \in DOMAIN S}
<1>1. DOMAIN Given(S, r) = DOMAIN S /\ \A k \in DOMAIN S : Given(S, r)[k].object = S[k].object
  BY GivenCall
<1>2. QED
  BY <1>1

\* The identity of the last call is that of no other.
LEMMA FrontObjects ==
  ASSUME NEW h, NEW S, Good(h, S), S # <<>>
  PROVE  {Front(S)[i].object : i \in DOMAIN Front(S)} = {S[i].object : i \in DOMAIN S} \ {Last(S).object}
<1> DEFINE F == Front(S)
           n == Len(S)
<1>1. /\ S \in Seq(Calls) /\ n \in Nat \ {0} /\ DOMAIN S = 1 .. n /\ Last(S) = S[n]
      /\ Last(S).object \notin Above(S, n)
  BY LastCall
<1>2. DOMAIN F = 1 .. n - 1 /\ \A i \in 1 .. n - 1 : F[i] = S[i]
  BY <1>1, FrontOfStack
<1> HIDE DEF F
<1>3. {F[i].object : i \in DOMAIN F} = Above(S, n)
  BY <1>2 DEF Above
<1>4. Above(S, n + 1) = Above(S, n) \cup {S[n].object}
  BY <1>1, AboveParts
<1>5. {S[i].object : i \in DOMAIN S} = Above(S, n + 1)
  BY <1>1, ActiveObjects
<1>6. QED
  BY <1>1, <1>3, <1>4, <1>5 DEF F

\* The invariant holds before the first step.
LEMMA InitInv == Init => Inv
<1> SUFFICES ASSUME Init
             PROVE  Inv
  OBVIOUS
<1> DEFINE c == Call(RootPart, PartsOf(Source, RootPart))
<1>1. heap \in Sources /\ heap = [o \in SourceRefs |-> heap[o]] /\ heap[Root].kind = "model" /\ Root \in SourceRefs
  BY SourcesAssumption DEF Init
<1>2. Source = heap /\ SourceOf(heap) = heap /\ DOMAIN heap = SourceRefs
  BY <1>1, Zenon DEF Source, SourceOf
<1>3. RootPart \in Parts /\ RootPart.object = Root
  BY SourcesAssumption, FormsAssumption DEF RootPart, Part, Parts
<1>4. PartsOf(heap, RootPart) \in Seq(Parts)
  BY <1>1, <1>3, PartsAreParts
<1>5. /\ c \in Calls /\ c.object = Root /\ PartOf(c) = RootPart
      /\ c.parts = PartsOf(heap, RootPart) /\ c.done = <<>>
  BY <1>2, <1>3, <1>4, CallIsForPart
<1>6. calls = <<c>>
  BY DEF Init
<1> HIDE DEF c
<1>7. calls \in Seq(Calls) /\ DOMAIN calls = {1} /\ calls[1] = c /\ calls # <<>>
  BY <1>5, <1>6
<1>8. NewIn(heap) = {}
  BY <1>2 DEF NewIn
<1>9. Objects(heap)
  BY <1>1, <1>2, <1>8, SourcesAssumption DEF Objects, SourceRefs
<1>10. Above(calls, 1) = {}
  BY DEF Above
<1>11. Stack(SourceOf(heap), calls)
  <2>1. Guarded(heap, Root)
    BY <1>1 DEF Guarded, Structures
  <2>2. Len(c.done) <= Len(c.parts)
    <3>1. Len(<<>>) = 0 /\ Len(c.parts) \in Nat
      BY <1>4, <1>5, SeqFacts
    <3>2. QED
      BY <1>5, <3>1
  <2>3. QED
    BY <1>2, <1>5, <1>7, <1>10, <2>1, <2>2 DEF Stack
<1>12. DOMAIN c.done = {}
  BY <1>5
<1>13. Extracted(heap, calls) /\ OneHolder(heap) /\ OneCall(heap, calls)
  BY <1>7, <1>8, <1>12 DEF Extracted, OneHolder, OneCall
<1>14. Judged(heap, calls)
  BY <1>5, <1>7, <1>10, <1>12 DEF Judged
<1>15. Control
  <2>1. active = {calls[i].object : i \in DOMAIN calls}
    BY <1>5, <1>7 DEF Init
  <2>2. QED
    BY <1>7, <2>1 DEF Init, Control
<1>16. QED
  BY <1>9, <1>11, <1>13, <1>14, <1>15 DEF Inv, Good

\* The next part of a call that has one.
LEMMA NextOne ==
  ASSUME Inv, PartIsNext
  PROVE  /\ calls # <<>> /\ Good(heap, calls) /\ outcome = "running" /\ result = Nothing
         /\ calls \in Seq(Calls) /\ Top = Last(calls)
         /\ Len(Last(calls).done) < Len(Last(calls).parts)
         /\ NextPart = Last(calls).parts[Len(Last(calls).done) + 1]
         /\ NextPart \in Parts /\ NextPart.object \in SourceRefs
         /\ Source = SourceOf(heap) /\ Source \in Sources
         /\ active = Above(calls, Len(calls) + 1)
<1>1. calls # <<>> /\ Good(heap, calls) /\ outcome = "running" /\ result = Nothing
      /\ active = {calls[i].object : i \in DOMAIN calls}
  BY DEF Inv, Control, PartIsNext
<1>2. calls \in Seq(Calls) /\ Last(calls) \in Calls
  BY <1>1, LastCall
<1>3. Last(calls).parts \in Seq(Parts) /\ Last(calls).done \in Seq(Nat)
  BY <1>2, CallFields
<1>4. Len(Last(calls).done) < Len(Last(calls).parts) /\ NextPart = Last(calls).parts[Len(Last(calls).done) + 1]
  BY DEF PartIsNext, NextPart, Top
<1>5. NextPart \in Parts
  <2>1. Len(Last(calls).done) \in Nat /\ Len(Last(calls).parts) \in Nat
    BY <1>3, SeqFacts
  <2>2. Len(Last(calls).done) + 1 \in 1 .. Len(Last(calls).parts)
    BY <1>4, <2>1
  <2>3. QED
    BY <1>3, <1>4, <2>2, SeqFacts
<1>6. Source = SourceOf(heap) /\ Source \in Sources
  BY <1>1, HeapFacts DEF Good, Source, SourceOf
<1>7. active = Above(calls, Len(calls) + 1)
  BY <1>1, <1>2, ActiveObjects
<1>8. QED
  BY <1>1, <1>2, <1>4, <1>5, <1>6, <1>7 DEF Top, Parts

\* A part that is passed on.
LEMMA PassOnInv == Inv /\ PassOn => Inv'
<1> SUFFICES ASSUME Inv, PassOn
             PROVE  Inv'
  OBVIOUS
<1> DEFINE p == NextPart
           r == p.object
<1>1. PartIsNext /\ ~Guarded(Source, r) /\ calls' = Given(calls, r) /\ UNCHANGED <<heap, active, outcome, result>>
  BY DEF PassOn
<1>2. /\ calls # <<>> /\ Good(heap, calls) /\ outcome = "running" /\ result = Nothing /\ calls \in Seq(Calls)
      /\ Len(Last(calls).done) < Len(Last(calls).parts)
      /\ p = Last(calls).parts[Len(Last(calls).done) + 1]
      /\ p \in Parts /\ r \in SourceRefs /\ Source = SourceOf(heap) /\ Source \in Sources
  BY <1>1, NextOne
<1>3. /\ calls \in Seq(Calls) /\ Len(calls) \in DOMAIN calls
  BY <1>2, LastCall
<1>4. Source[r] = heap[r] /\ r \in DOMAIN heap /\ r \in Nat /\ Closed(heap)
  BY <1>2, HeapFacts DEF Good
<1>5. heap[r].kind \in {"scalar", "none"}
  BY <1>1, <1>2, <1>4, SourceObject DEF Guarded
<1>6. PassedOn(heap, r) /\ r \notin NewIn(heap)
  BY <1>2, <1>5 DEF PassedOn, NewIn
<1>7. Hashable(heap, r)
  BY <1>4, <1>5, PassedOnHashable
<1>8. ~Refusable(Source, p, Above(calls, Len(calls) + 1))
  BY <1>1, <1>2, <1>3, AboveParts, RefusableEquation
<1> HIDE DEF p, r
<1>9. InResult(heap, r) /\ StandsFor(heap, r, p.object)
  BY <1>6 DEF InResult, StandsFor, r
<1>10. Refusable(SourceOf(heap), p, Above(calls, Len(calls) + 1)) <=> p.hash /\ ~Hashable(heap, r)
  BY <1>2, <1>7, <1>8
<1>11. Good(heap, Given(calls, r))
  BY <1>2, <1>6, <1>9, <1>10, Give
<1>12. Good(heap', calls')
  BY <1>1, <1>11
<1>13. Control'
  <2>1. /\ active = {calls[i].object : i \in DOMAIN calls}
        /\ active' = active /\ outcome' = outcome /\ result' = result
    BY <1>1 DEF Inv, Control
  <2>2. active' = {calls'[i].object : i \in DOMAIN calls'}
    <3> DEFINE T == Given(calls, r)
    <3>1. {T[i].object : i \in DOMAIN T} = active
      BY <1>2, <1>4, <2>1, GivenObjects
    <3>2. calls' = T
      BY <1>1
    <3> HIDE DEF T
    <3>3. QED
      BY <2>1, <3>1, <3>2
  <2>3. calls' # <<>>
    <3>1. DOMAIN calls' = DOMAIN calls
      BY <1>1, <1>2, <1>4, GivenCall
    <3>2. QED
      BY <1>3, <3>1
  <2>4. QED
    BY <1>2, <2>1, <2>2, <2>3 DEF Control
<1>14. QED
  BY <1>12, <1>13 DEF Inv

\* A part that is taken apart.
LEMMA EnterInv == Inv /\ Enter => Inv'
<1> SUFFICES ASSUME Inv, Enter
             PROVE  Inv'
  OBVIOUS
<1> DEFINE p == NextPart
           c == Call(p, PartsOf(Source, p))
<1>1. /\ PartIsNext /\ Guarded(Source, p.object) /\ p.object \notin active
      /\ calls' = Append(calls, c) /\ active' = active \cup {p.object}
      /\ UNCHANGED <<heap, outcome, result>>
  BY DEF Enter, IsActive
<1>2. /\ calls # <<>> /\ Good(heap, calls) /\ outcome = "running" /\ result = Nothing /\ calls \in Seq(Calls)
      /\ Len(Last(calls).done) < Len(Last(calls).parts)
      /\ p = Last(calls).parts[Len(Last(calls).done) + 1]
      /\ p \in Parts /\ Source = SourceOf(heap) /\ Source \in Sources
      /\ active = Above(calls, Len(calls) + 1)
  BY <1>1, NextOne
<1> HIDE DEF p
<1>3. Good(heap', calls')
  <2>1. Good(heap, Append(calls, c))
    BY <1>1, <1>2, Push
  <2>2. QED
    BY <1>1, <2>1
<1>4. PartsOf(Source, p) \in Seq(Parts)
  BY <1>2, PartsAreParts
<1>5. c \in Calls /\ c.object = p.object
  BY <1>2, <1>4, CallIsForPart
<1> HIDE DEF c
<1>6. /\ calls' \in Seq(Calls) /\ DOMAIN calls' = 1 .. Len(calls) + 1 /\ Len(calls') = Len(calls) + 1
      /\ calls'[Len(calls) + 1] = c /\ \A i \in 1 .. Len(calls) : calls'[i] = calls[i]
      /\ Len(calls) \in Nat
  BY <1>1, <1>2, <1>5, Appended, SeqFacts
<1>7. active' = {calls'[i].object : i \in DOMAIN calls'}
  <2>1. 1 .. Len(calls) + 1 = (1 .. Len(calls)) \cup {Len(calls) + 1}
    BY <1>6
  <2>2. {calls'[i].object : i \in DOMAIN calls'} = {calls[i].object : i \in 1 .. Len(calls)} \cup {p.object}
    BY <1>5, <1>6, <2>1
  <2>3. active = {calls[i].object : i \in 1 .. Len(calls)}
    <3>1. DOMAIN calls = 1 .. Len(calls)
      BY <1>2, SeqFacts
    <3>2. QED
      BY <3>1 DEF Inv, Control
  <2>4. QED
    BY <1>1, <2>2, <2>3
<1>8. calls' # <<>>
  <2>1. 1 \in DOMAIN calls'
    BY <1>6
  <2>2. QED
    BY <2>1
<1>9. Control'
  BY <1>1, <1>2, <1>7, <1>8 DEF Control
<1>10. QED
  BY <1>3, <1>9 DEF Inv

\* A reference to an object that is being extracted, or too many calls.
LEMMA RaiseInv == Inv /\ Raise => Inv'
<1> SUFFICES ASSUME Inv, Raise
             PROVE  Inv'
  OBVIOUS
<1> DEFINE p == NextPart
           n == Len(calls)
<1>1. /\ PartIsNext /\ Guarded(Source, p.object)
      /\ outcome' = IF p.object \in active THEN "raising" ELSE "overflow"
      /\ UNCHANGED <<heap, calls, active, result>>
  BY DEF Raise, IsActive
<1>2. /\ calls # <<>> /\ Good(heap, calls) /\ result = Nothing
      /\ calls \in Seq(Calls)
      /\ Len(Last(calls).done) < Len(Last(calls).parts)
      /\ p = Last(calls).parts[Len(Last(calls).done) + 1]
      /\ p \in Parts /\ Source = SourceOf(heap) /\ Source \in Sources
      /\ active = Above(calls, n + 1)
  BY <1>1, NextOne
<1>3. /\ n \in DOMAIN calls /\ Last(calls) = calls[n] /\ Last(calls) \in Calls
      /\ Guarded(Source, Last(calls).object) /\ Last(calls).parts = PartsOf(Source, PartOf(Last(calls)))
  BY <1>2, LastCall
<1> HIDE DEF p, n
<1>4. ASSUME p.object \in active
      PROVE  Refusable(Source, RootPart, {})
  <2>1. /\ Above(calls, n) \in SUBSET SourceRefs /\ Above(calls, n + 1) \in SUBSET SourceRefs
        /\ Above(calls, n + 1) = Above(calls, n) \cup {Last(calls).object}
    BY <1>2, <1>3, AboveParts
  <2>2. Refusable(Source, p, Above(calls, n + 1))
    BY <1>1, <1>2, <1>4, <2>1, RefusableEquation
  <2>3. PartOf(Last(calls)) \in Parts /\ PartOf(Last(calls)).object = Last(calls).object
        /\ Last(calls).parts \in Seq(Parts) /\ Last(calls).done \in Seq(Nat)
    BY <1>3, CallFields
  <2>4. Len(Last(calls).done) + 1 \in DOMAIN PartsOf(Source, PartOf(Last(calls)))
    <3>1. /\ Len(Last(calls).done) \in Nat /\ Len(Last(calls).parts) \in Nat
          /\ DOMAIN Last(calls).parts = 1 .. Len(Last(calls).parts)
      BY <2>3, SeqFacts
    <3>2. QED
      BY <1>2, <1>3, <3>1
  <2>5. Refusable(Source, PartOf(Last(calls)), Above(calls, n))
    BY <1>2, <1>3, <2>1, <2>2, <2>3, <2>4, RefusableEquation
  <2>6. QED
    BY <1>2, <1>3, <2>5 DEF Good, Judged
<1>5. Good(heap', calls')
  BY <1>1, <1>2
<1>6. Source' = Source
  BY <1>1 DEF Source
<1>7. Control'
  BY <1>1, <1>2, <1>4, <1>6 DEF Inv, Control
<1>8. QED
  BY <1>5, <1>7 DEF Inv

\* A call that returns.
LEMMA ReturnInv == Inv /\ Return => Inv'
<1> SUFFICES ASSUME Inv, Return
             PROVE  Inv'
  OBVIOUS
<1> DEFINE c == Top
           r == Returned(c)
           g == HeapAfter(c)
           F == Front(calls)
<1>1. outcome = "running" /\ Len(c.done) = Len(c.parts) /\ ~Collapses(c)
  BY DEF Return, Finished
<1>2. Good(heap, calls) /\ calls # <<>> /\ result = Nothing /\ active = {calls[i].object : i \in DOMAIN calls}
  BY <1>1 DEF Inv, Control
<1>3. IsFinished(c)
  BY <1>1, <1>2 DEF IsFinished, Top
<1>4. /\ heap' = g /\ active' = active \ {c.object}
      /\ Len(calls) = 1 => calls' = <<>> /\ result' = r /\ outcome' = "extracted"
      /\ Len(calls) # 1 => calls' = Given(F, r) /\ result' = result /\ outcome' = outcome
  BY DEF Return, Left, HeapAfter, Returned
<1>5. /\ SourceOf(g) = Source
      /\ Len(calls) # 1 => Good(g, Given(F, r)) /\ F \in Seq(Calls) /\ F # <<>> /\ r \in Nat
      /\ Len(calls) = 1 => Good(g, <<>>) /\ r \in NewIn(g) /\ ~Refusable(Source, RootPart, {})
  BY <1>1, <1>2, <1>3, ReturnGood
<1>6. {F[i].object : i \in DOMAIN F} = active'
  BY <1>2, <1>4, FrontObjects DEF Top
<1> HIDE DEF c, r, g, F
<1>7. Good(heap', calls')
  BY <1>4, <1>5
<1>8. Source' = Source
  BY <1>4, <1>5 DEF Source, SourceOf
<1>9. Control'
  <2>1. CASE Len(calls) = 1
    <3>1. calls' = <<>> /\ result' = r /\ outcome' = "extracted"
      BY <1>4, <2>1
    <3>2. active' = {}
      <4>1. Len(F) = 0 /\ DOMAIN F = 1 .. 0
        BY <1>2, <2>1, LastCall, FrontOfStack DEF F
      <4>2. DOMAIN F = {}
        BY <4>1
      <4>3. QED
        BY <1>6, <4>2
    <3>3. active' = {calls'[i].object : i \in DOMAIN calls'}
      BY <3>1, <3>2
    <3>4. r \in New'
      BY <1>4, <1>5, <2>1 DEF New, NewIn
    <3>5. QED
      BY <1>5, <1>8, <2>1, <3>1, <3>3, <3>4 DEF Control
  <2>2. CASE Len(calls) # 1
    <3> DEFINE T == Given(F, r)
    <3>1. calls' = T /\ result' = result /\ outcome' = outcome
      BY <1>4, <2>2
    <3>2. {T[i].object : i \in DOMAIN T} = active'
      BY <1>5, <1>6, <2>2, GivenObjects
    <3>3. T # <<>>
      <4>1. DOMAIN T = DOMAIN F
        BY <1>5, <2>2, GivenCall
      <4>2. DOMAIN F # {}
        <5>1. Len(F) \in Nat \ {0} /\ DOMAIN F = 1 .. Len(F)
          BY <1>5, <2>2, FrontOfStack, SeqFacts
        <5>2. 1 \in DOMAIN F
          BY <5>1
        <5>3. QED
          BY <5>2
      <4> HIDE DEF T
      <4>3. QED
        BY <4>1, <4>2
    <3> HIDE DEF T
    <3>4. QED
      BY <1>1, <1>2, <1>8, <3>1, <3>2, <3>3 DEF Control
  <2>3. QED
    BY <2>1, <2>2
<1>10. QED
  BY <1>7, <1>9 DEF Inv

\* A call whose mapping or set collapses.
LEMMA CollapseInv == Inv /\ Collapse => Inv'
<1> SUFFICES ASSUME Inv, Collapse
             PROVE  Inv'
  OBVIOUS
<1>1. /\ outcome = "running" /\ Len(Top.done) = Len(Top.parts) /\ Collapses(Top)
      /\ outcome' = "raising" /\ UNCHANGED <<heap, calls, active, result>>
  BY DEF Collapse, Finished
<1>2. Good(heap, calls) /\ calls # <<>> /\ result = Nothing
  BY <1>1 DEF Inv, Control
<1>3. IsFinished(Top)
  BY <1>1, <1>2 DEF IsFinished, Top
<1>4. \E m \in DOMAIN Top.done : Top.parts[m].hash /\ ~Hashable(heap, Top.done[m])
  BY <1>1, <1>2, <1>3, CollapseMeans
<1>5. Refusable(Source, RootPart, {})
  BY <1>2, <1>3, <1>4, FinishedRefusable
<1>6. Source' = Source
  BY <1>1 DEF Source
<1>7. Control'
  BY <1>1, <1>2, <1>5, <1>6 DEF Inv, Control
<1>8. Good(heap', calls')
  BY <1>1, <1>2
<1>9. QED
  BY <1>7, <1>8 DEF Inv

\* An exception that leaves a call.
LEMMA UnwindInv == Inv /\ Unwind => Inv'
<1> SUFFICES ASSUME Inv, Unwind
             PROVE  Inv'
  OBVIOUS
<1>1. /\ outcome = "raising" /\ active' = active \ {Top.object} /\ calls' = Front(calls)
      /\ outcome' = IF Len(calls) = 1 THEN "refused" ELSE "raising"
      /\ UNCHANGED <<heap, result>>
  BY DEF Unwind, Left
<1>2. /\ Good(heap, calls) /\ calls # <<>> /\ result = Nothing /\ Refusable(Source, RootPart, {})
      /\ active = {calls[i].object : i \in DOMAIN calls}
  BY <1>1 DEF Inv, Control
<1>3. Good(heap', calls')
  <2>1. Good(heap, Front(calls))
    BY <1>2, Shrink
  <2>2. QED
    BY <1>1, <2>1
<1>4. active' = {calls'[i].object : i \in DOMAIN calls'}
  <2> DEFINE F == Front(calls)
  <2>1. {F[i].object : i \in DOMAIN F} = active'
    BY <1>1, <1>2, FrontObjects DEF Top
  <2>2. calls' = F
    BY <1>1
  <2> HIDE DEF F
  <2>3. QED
    BY <2>1, <2>2
<1>5. calls' = <<>> <=> Len(calls) = 1
  <2>1. calls' \in Seq(Calls) /\ Len(calls') = Len(calls) - 1 /\ Len(calls) \in Nat \ {0}
    BY <1>1, <1>2, LastCall, FrontOfStack
  <2>2. QED
    BY <2>1, EmptySeq
<1>6. Source' = Source
  BY <1>1 DEF Source
<1>7. Control'
  BY <1>1, <1>2, <1>4, <1>5, <1>6 DEF Control
<1>8. QED
  BY <1>3, <1>7 DEF Inv

\* The invariant holds in every state.
THEOREM Invariance == ExtractionSpec => []Inv
<1>1. Init => Inv
  BY InitInv
<1>2. Inv /\ [Extract]_vars => Inv'
  <2> SUFFICES ASSUME Inv, [Extract]_vars
               PROVE  Inv'
    OBVIOUS
  <2>1. CASE Extract
    BY <2>1, PassOnInv, EnterInv, RaiseInv, ReturnInv, CollapseInv, UnwindInv DEF Extract
  <2>2. CASE UNCHANGED vars
    BY <2>2 DEF vars, Inv, Control, Source, New
  <2>3. QED
    BY <2>1, <2>2
<1>3. QED
  BY <1>1, <1>2, PTL DEF ExtractionSpec

-----------------------------------------------------------------------------
(* What the invariant says of the properties that are checked. *)

\* Types, and that the active identities are those of the running calls.
THEOREM TypeCorrect == ExtractionSpec => []TypeOK
<1>1. Inv => TypeOK
  <2> SUFFICES ASSUME Inv
               PROVE  TypeOK
    OBVIOUS
  <2>1. Good(heap, calls) /\ Control /\ calls \in Seq(Calls)
    BY DEF Inv, Good, Stack
  <2>2. /\ SourceRefs \subseteq DOMAIN heap
        /\ \A o \in DOMAIN heap : Range(heap[o].of) \subseteq DOMAIN heap
    BY <2>1, HeapFacts DEF Good, Closed
  <2>3. active = {calls[i].object : i \in DOMAIN calls} /\ active \subseteq SourceRefs
    <3>1. active = Above(calls, Len(calls) + 1)
      BY <2>1, ActiveObjects DEF Control
    <3>2. \A i \in DOMAIN calls : calls[i].object \in SourceRefs
      BY <2>1, SeqFacts, CallFields
    <3>3. QED
      BY <2>1, <3>2 DEF Control
  <2>4. \A i \in DOMAIN calls : Len(calls[i].done) <= Len(calls[i].parts)
    BY <2>1 DEF Good, Stack
  <2>5. \A i \in DOMAIN calls : ToSet(calls[i].done) \subseteq DOMAIN heap
    BY <2>1, DoneInHeap DEF ToSet
  <2>6. result \in New \cup {Nothing}
    BY <2>1 DEF Control
  <2>7. QED
    BY <2>1, <2>2, <2>3, <2>4, <2>5, <2>6 DEF TypeOK, Control
<1>2. QED
  BY <1>1, Invariance, PTL

\* All that a result reaches was made, or is passed on.
LEMMA ReachedInResult ==
  ASSUME Inv
  PROVE  \A o \in Reached : InResult(heap, o)
<1> DEFINE T == {o \in DOMAIN heap : InResult(heap, o)}
<1>1. Objects(heap) /\ Source \in Sources /\ Source = SourceOf(heap)
  BY HeapFacts DEF Inv, Good, Source, SourceOf
<1>2. Cardinality(DOMAIN heap) \in Nat
  <2>1. PICK n \in Nat : DOMAIN heap = 1 .. n
    BY <1>1 DEF Objects
  <2>2. Cardinality(1 .. n) \in Nat
    <3>1. Cardinality(1 .. n) = IF 1 > n THEN 0 ELSE n - 1 + 1
      BY FS_Interval
    <3>2. QED
      BY <3>1
  <2>3. QED
    BY <2>1, <2>2
<1>3. \A o : InResult(heap, o) <=> o \in T
  BY <1>1, HeapFacts
<1>4. ASSUME NEW o \in T
      PROVE  Inside(heap, o) \subseteq T
  <2>1. CASE o \in NewIn(heap)
    <3>1. Sound(heap, o)
      BY <1>1, <2>1 DEF Objects
    <3>2. \A q \in Range(heap[o].of) : q \in T
      BY <1>1, <1>3, <2>1, Members
    <3>3. heap[o].kind = "dict" => \A k \in DOMAIN heap[o].of : k \in T
      BY <1>3, <3>1 DEF Sound
    <3>4. QED
      BY <3>2, <3>3 DEF Inside
  <2>2. CASE PassedOn(heap, o)
    <3>1. o \in SourceRefs /\ heap[o].kind \in {"scalar", "none", "dataclass"} /\ Source[o] = heap[o]
      BY <1>1, <2>2, HeapFacts DEF PassedOn
    <3>2. CASE heap[o].kind = "dataclass"
      BY <3>2 DEF Inside
    <3>3. CASE heap[o].kind \in {"scalar", "none"}
      <4>1. heap[o].of = <<>>
        BY <1>1, <3>1, <3>3, SourceObject
      <4>2. Range(heap[o].of) = {}
        BY <4>1 DEF Range
      <4>3. QED
        BY <3>3, <4>2 DEF Inside
    <3>4. QED
      BY <3>1, <3>2, <3>3
  <2>3. QED
    BY <2>1, <2>2 DEF InResult
<1>5. CASE result = Nothing
  BY <1>5 DEF Reached
<1>6. CASE result # Nothing
  <2>1. result \in NewIn(heap)
    BY <1>6 DEF Inv, Control, New, NewIn
  <2>2. {result} \in SUBSET T
    BY <1>3, <2>1 DEF InResult
  <2> HIDE DEF T
  <2>3. Closure(heap, {result}) \subseteq T
    BY <1>2, <1>4, <2>2, ClosureWithin
  <2>4. QED
    BY <1>3, <1>6, <2>3 DEF Reached
<1>7. QED
  BY <1>5, <1>6

\* A place is a value of an object, or a key.
LEMMA PlaceOf ==
  ASSUME NEW R, NEW p \in Places(R)
  PROVE  \E x \in R : \E k \in DOMAIN heap[x].of :
           p = <<x, "at", k, heap[x].of[k]>> \/ (heap[x].kind = "dict" /\ p = <<x, "key", k, k>>)
<1> DEFINE At(x) == {<<x, "at", k, heap[x].of[k]>> : k \in DOMAIN heap[x].of}
           Key(x) == {<<x, "key", k, k>> : k \in DOMAIN heap[x].of}
           AtAll == UNION {At(x) : x \in R}
           KeyAll == UNION {Key(x) : x \in {o \in R : IsMapping(heap, o)}}
<1>1. p \in AtAll \/ p \in KeyAll
  <2>1. Places(R) = AtAll \cup KeyAll
    BY DEF Places
  <2> HIDE DEF AtAll, KeyAll
  <2>2. QED
    BY <2>1
<1>2. ASSUME NEW x \in R, p \in At(x)
      PROVE  \E k \in DOMAIN heap[x].of : p = <<x, "at", k, heap[x].of[k]>>
  BY <1>2
<1>3. ASSUME NEW x \in R, p \in Key(x)
      PROVE  \E k \in DOMAIN heap[x].of : p = <<x, "key", k, k>>
  BY <1>3
<1> HIDE DEF At, Key
<1>4. (\E x \in R : p \in At(x)) \/ (\E x \in R : heap[x].kind = "dict" /\ p \in Key(x))
  <2>1. CASE p \in AtAll
    <3>1. \E x \in R : p \in At(x)
      BY <2>1
    <3>2. QED
      BY <3>1
  <2>2. CASE p \in KeyAll
    <3>1. \E x \in {o \in R : IsMapping(heap, o)} : p \in Key(x)
      BY <2>2
    <3>2. QED
      BY <3>1 DEF IsMapping
  <2>3. QED
    BY <1>1, <2>1, <2>2
<1>5. QED
  BY <1>2, <1>3, <1>4

\* In what a document declares, whatever a callback can change is new and in one place.
THEOREM PayloadDetached == ExtractionSpec => []Detached
<1>1. Inv => Detached
  <2> SUFFICES ASSUME Inv
               PROVE  Detached
    OBVIOUS
  <2> DEFINE reached == {o \in Reached : heap[o].kind # "dataclass"}
             changeable == {p \in Places(reached) : Changeable(p[4])}
  <2>1. Objects(heap) /\ OneHolder(heap) /\ Source \in Sources /\ Source = SourceOf(heap) /\ Closed(heap)
    BY HeapFacts DEF Inv, Good, Source, SourceOf
  <2>2. ASSUME NEW x \in reached, DOMAIN heap[x].of # {}
        PROVE  x \in NewIn(heap)
    <3>1. InResult(heap, x) /\ heap[x].kind # "dataclass"
      BY ReachedInResult
    <3>2. CASE PassedOn(heap, x)
      <4>1. x \in SourceRefs /\ heap[x].kind \in {"scalar", "none"} /\ Source[x] = heap[x]
        BY <2>1, <3>1, <3>2, HeapFacts DEF PassedOn
      <4>2. heap[x].of = <<>>
        BY <2>1, <4>1, SourceObject
      <4>3. QED
        BY <2>2, <4>2
    <3>3. QED
      BY <3>1, <3>2 DEF InResult
  <2>3. ASSUME NEW p \in changeable
        PROVE  \E x \in NewIn(heap) : \E k \in DOMAIN heap[x].of :
                 /\ IsHeld(heap, p[4], x) /\ p[4] \in NewIn(heap)
                 /\ \/ p = <<x, "at", k, heap[x].of[k]>>
                    \/ heap[x].kind = "dict" /\ p = <<x, "key", k, k>>
    <3>1. PICK x \in reached : \E k \in DOMAIN heap[x].of :
            \/ p = <<x, "at", k, heap[x].of[k]>>
            \/ heap[x].kind = "dict" /\ p = <<x, "key", k, k>>
      <4>1. p \in Places(reached)
        OBVIOUS
      <4> HIDE DEF reached, changeable
      <4>2. QED
        BY <4>1, PlaceOf
    <3>2. PICK k \in DOMAIN heap[x].of :
            \/ p = <<x, "at", k, heap[x].of[k]>>
            \/ heap[x].kind = "dict" /\ p = <<x, "key", k, k>>
      BY <3>1
    <3>3. x \in NewIn(heap)
      BY <2>2
    <3>4. p[4] = heap[x].of[k] \/ (heap[x].kind = "dict" /\ p[4] = k)
      BY <3>2
    <3>5. IsHeld(heap, p[4], x)
      BY <3>4 DEF IsHeld
    <3>6. InResult(heap, p[4])
      <4>1. Sound(heap, x)
        BY <2>1, <3>3 DEF Objects
      <4>2. QED
        BY <3>4, <4>1 DEF Sound
    <3>7. Changeable(p[4])
      OBVIOUS
    <3>8. p[4] \in NewIn(heap)
      BY <3>6, <3>7 DEF InResult, PassedOn, Changeable
    <3>9. QED
      BY <3>2, <3>3, <3>5, <3>8
  <2> HIDE DEF changeable
  <2>4. ASSUME NEW p \in changeable, NEW q \in changeable, p[4] = q[4]
        PROVE  p = q
    <3>1. PICK x \in NewIn(heap) : \E k \in DOMAIN heap[x].of :
            /\ IsHeld(heap, p[4], x) /\ p[4] \in NewIn(heap)
            /\ \/ p = <<x, "at", k, heap[x].of[k]>>
               \/ heap[x].kind = "dict" /\ p = <<x, "key", k, k>>
      BY <2>3
    <3>2. PICK k \in DOMAIN heap[x].of :
            /\ IsHeld(heap, p[4], x) /\ p[4] \in NewIn(heap)
            /\ \/ p = <<x, "at", k, heap[x].of[k]>>
               \/ heap[x].kind = "dict" /\ p = <<x, "key", k, k>>
      BY <3>1
    <3>3. PICK y \in NewIn(heap) : \E l \in DOMAIN heap[y].of :
            /\ IsHeld(heap, q[4], y) /\ q[4] \in NewIn(heap)
            /\ \/ q = <<y, "at", l, heap[y].of[l]>>
               \/ heap[y].kind = "dict" /\ q = <<y, "key", l, l>>
      BY <2>3
    <3>4. PICK l \in DOMAIN heap[y].of :
            /\ IsHeld(heap, q[4], y) /\ q[4] \in NewIn(heap)
            /\ \/ q = <<y, "at", l, heap[y].of[l]>>
               \/ heap[y].kind = "dict" /\ q = <<y, "key", l, l>>
      BY <3>3
    <3>5. x = y
      BY <2>1, <2>4, <3>2, <3>4 DEF OneHolder
    <3>6. OnePlace(heap, x)
      BY <2>1 DEF OneHolder
    <3>7. CASE p = <<x, "at", k, heap[x].of[k]>> /\ q = <<y, "at", l, heap[y].of[l]>>
      <4>1. heap[x].of[k] = heap[x].of[l] /\ heap[x].of[k] \in NewIn(heap)
        BY <2>4, <3>2, <3>5, <3>7
      <4>2. k = l
        BY <3>4, <3>5, <3>6, <4>1 DEF OnePlace
      <4>3. QED
        BY <3>5, <3>7, <4>2
    <3>8. CASE heap[x].kind = "dict" /\ p = <<x, "at", k, heap[x].of[k]>> /\ q = <<y, "key", l, l>>
      <4>1. heap[x].of[k] = l /\ heap[x].of[k] \in NewIn(heap)
        BY <2>4, <3>2, <3>8
      <4>2. QED
        BY <3>4, <3>5, <3>6, <3>8, <4>1 DEF OnePlace
    <3>9. CASE heap[x].kind = "dict" /\ p = <<x, "key", k, k>> /\ q = <<y, "at", l, heap[y].of[l]>>
      <4>1. heap[x].of[l] = k /\ heap[x].of[l] \in NewIn(heap)
        BY <2>4, <3>2, <3>5, <3>9
      <4>2. QED
        BY <3>2, <3>4, <3>5, <3>6, <3>9, <4>1 DEF OnePlace
    <3>10. CASE p = <<x, "key", k, k>> /\ q = <<y, "key", l, l>>
      BY <2>4, <3>5, <3>10
    <3>11. QED
      BY <3>2, <3>4, <3>5, <3>7, <3>8, <3>9, <3>10
  <2>5. \A p \in changeable : p[4] \in New /\ \A q \in changeable : p[4] = q[4] => p = q
    BY <2>3, <2>4 DEF New, NewIn
  <2>6. QED
    BY <2>5 DEF Detached, changeable
<1>2. QED
  BY <1>1, Invariance, PTL

\* The calls are for as many objects of the source, so there are no more calls than objects.
LEMMA FewCalls ==
  ASSUME NEW h, NEW S, Stack(h, S)
  PROVE  Len(S) <= Size
<1> DEFINE D == 1 .. Len(S)
           f == [i \in D |-> S[i].object]
<1>1. S \in Seq(Calls) /\ Len(S) \in Nat /\ DOMAIN S = D
  BY SeqFacts DEF Stack
<1>2. IsFiniteSet(D) /\ Cardinality(D) = IF 1 > Len(S) THEN 0 ELSE Len(S) - 1 + 1
  BY <1>1, FS_Interval
<1>3. IsFiniteSet(SourceRefs) /\ Cardinality(SourceRefs) = IF 1 > Size THEN 0 ELSE Size - 1 + 1
  BY SourcesAssumption, FS_Interval DEF SourceRefs
<1>4. Cardinality(D) = Len(S) /\ Cardinality(SourceRefs) = Size
  BY <1>1, <1>2, <1>3, SourcesAssumption
<1>5. ASSUME NEW i \in D
      PROVE  S[i].object \in SourceRefs
  <2>1. S[i] \in Calls
    BY <1>1
  <2>2. QED
    BY <2>1, CallFields
<1>6. ASSUME NEW i \in D, NEW j \in D, i < j
      PROVE  S[i].object # S[j].object
  <2>1. S[j].object \notin Above(S, j)
    BY <1>1 DEF Stack
  <2>2. i \in 1 .. j - 1
    BY <1>6
  <2>3. QED
    BY <2>1, <2>2 DEF Above
<1>7. f \in [D -> SourceRefs]
  BY <1>5
<1>8. \A i, j \in D : f[i] = f[j] => i = j
  <2> SUFFICES ASSUME NEW i \in D, NEW j \in D, f[i] = f[j], i # j
               PROVE  FALSE
    OBVIOUS
  <2>1. S[i].object = S[j].object
    OBVIOUS
  <2>2. i < j \/ j < i
    BY <1>1
  <2>3. QED
    BY <1>6, <2>1, <2>2
<1> HIDE DEF f, D
<1>9. ~(Cardinality(SourceRefs) < Cardinality(D))
  BY <1>2, <1>3, <1>7, <1>8, FS_PigeonHole
<1>10. QED
  BY <1>1, <1>4, <1>9, SourcesAssumption

\* What has come to an end was refused if and only if an object is part of itself, or is not
\* hashable where it has to be, whatever the number of calls that Python admits.
THEOREM RefusedIfRefusable ==
  ExtractionSpec =>
    [](outcome \in {"refused", "extracted"} => (result = Nothing <=> Refusable(Source, RootPart, {})))
<1>1. Inv => (outcome \in {"refused", "extracted"} => (result = Nothing <=> Refusable(Source, RootPart, {})))
  <2> SUFFICES ASSUME Inv, outcome \in {"refused", "extracted"}
               PROVE  result = Nothing <=> Refusable(Source, RootPart, {})
    OBVIOUS
  <2>1. Nothing \notin New
    <3>1. Objects(heap)
      BY DEF Inv, Good
    <3>2. PICK n \in Nat : DOMAIN heap = 1 .. n
      BY <3>1 DEF Objects
    <3>3. QED
      BY <3>2 DEF New, Nothing
  <2>2. QED
    BY <2>1 DEF Inv, Control
<1>2. QED
  BY <1>1, Invariance, PTL

\* If Python admits more calls than there are objects, extraction never needs more.
THEOREM CyclesAreRefused ==
  ASSUME StackLimit \in Nat, StackLimit > Size
  PROVE  ExtractionSpec => []CyclesRefused
<1> DEFINE Within == outcome # "overflow"
<1>1. Init => Within
  BY DEF Init
<1>2. Inv /\ Within /\ [Extract]_vars => Within'
  <2> SUFFICES ASSUME Inv, Within, [Extract]_vars
               PROVE  Within'
    OBVIOUS
  <2>1. CASE Raise
    <3>1. outcome = "running"
      BY <2>1 DEF Raise, PartIsNext
    <3>2. Good(heap, calls)
      BY DEF Inv
    <3>3. Len(calls) <= Size /\ Len(calls) \in Nat
      <4>1. Stack(SourceOf(heap), calls)
        BY <3>2 DEF Good
      <4>2. calls \in Seq(Calls)
        BY <4>1 DEF Stack
      <4>3. QED
        BY <4>1, <4>2, FewCalls, SeqFacts
    <3>4. Len(calls) # StackLimit
      BY <3>3, SourcesAssumption
    <3>5. IsActive(NextPart.object)
      BY <2>1, <3>4 DEF Raise
    <3>6. QED
      BY <2>1, <3>5 DEF Raise
  <2>2. CASE PassOn \/ Enter \/ UNCHANGED vars
    BY <2>2 DEF PassOn, Enter, vars
  <2>3. CASE Return \/ Collapse \/ Unwind
    BY <2>3 DEF Return, Collapse, Unwind
  <2>4. QED
    BY <2>1, <2>2, <2>3 DEF Extract
<1>3. ExtractionSpec => []Within
  BY <1>1, <1>2, Invariance, PTL DEF ExtractionSpec
<1>4. QED
  BY <1>3, RefusedIfRefusable, PTL DEF CyclesRefused

-----------------------------------------------------------------------------
(* Values that match annotations. *)

\* Does a value match an annotation, if what it holds matches as f says?
MatchesIf(h, o, b, f) ==
  \/ b.form = "any"
  \/ b.form \in {"none", "scalar"} /\ h[o].kind = b.form
  \/ b.form = "union" /\ \E i \in DOMAIN b.args : f[<<o, b.args[i]>>]
  \/ /\ b.form \in Collections /\ h[o].kind = b.form
     /\ \A i \in DOMAIN h[o].of : f[<<h[o].of[i], ItemOf(b)>>]
  \/ /\ b.form = "dict" /\ h[o].kind = "dict"
     /\ \A k \in DOMAIN h[o].of : f[<<k, KeyOf(b)>>] /\ f[<<h[o].of[k], ValueOf(b)>>]
  \/ /\ b.form = "class" /\ Shape[b.class] = "typed_dict" /\ h[o].kind = "dict"
     /\ HasKeysOf(h, o, b.class)
     /\ \A k \in DOMAIN h[o].of : f[<<h[o].of[k], Declares[b.class][k]>>]
  \/ b.form = "class" /\ IsInstance(h, o, b.class)

\* A value matches at least as much if what it holds does.
LEMMA MatchesMore ==
  ASSUME NEW h \in Sources, NEW o \in SourceRefs, NEW b \in Forms, NEW f, NEW g,
         \A p \in SourceRefs : \A a \in Forms : f[<<p, a>>] => g[<<p, a>>],
         MatchesIf(h, o, b, f)
  PROVE  MatchesIf(h, o, b, g)
<1>1. /\ \A i \in DOMAIN h[o].of : h[o].of[i] \in SourceRefs
      /\ h[o].kind = "dict" => DOMAIN h[o].of \subseteq SourceRefs
  BY SourceObject DEF Range
<1>2. KeyOf(b) \in Forms /\ ValueOf(b) \in Forms /\ ItemOf(b) \in Forms
  BY ArgumentIsForm
<1>3. \A i \in DOMAIN b.args : b.args[i] \in Forms
  <2>1. b.args \in Seq(Forms)
    BY FormsAssumption
  <2>2. QED
    BY <2>1
<1>4. CASE b.form = "union" /\ \E i \in DOMAIN b.args : f[<<o, b.args[i]>>]
  <2>1. PICK i \in DOMAIN b.args : f[<<o, b.args[i]>>]
    BY <1>4
  <2>2. g[<<o, b.args[i]>>]
    BY <1>3, <2>1
  <2>3. \E j \in DOMAIN b.args : g[<<o, b.args[j]>>]
    BY <2>2, Zenon
  <2>4. QED
    BY <1>4, <2>3, Zenon DEF MatchesIf
<1>5. CASE /\ b.form \in Collections /\ h[o].kind = b.form
           /\ \A i \in DOMAIN h[o].of : f[<<h[o].of[i], ItemOf(b)>>]
  <2>1. \A i \in DOMAIN h[o].of : g[<<h[o].of[i], ItemOf(b)>>]
    BY <1>1, <1>2, <1>5, Zenon
  <2>2. QED
    BY <1>5, <2>1, Zenon DEF MatchesIf
<1>6. CASE /\ b.form = "dict" /\ h[o].kind = "dict"
           /\ \A k \in DOMAIN h[o].of : f[<<k, KeyOf(b)>>] /\ f[<<h[o].of[k], ValueOf(b)>>]
  <2>1. \A k \in DOMAIN h[o].of : g[<<k, KeyOf(b)>>] /\ g[<<h[o].of[k], ValueOf(b)>>]
    <3> TAKE k \in DOMAIN h[o].of
    <3>1. k \in SourceRefs /\ h[o].of[k] \in SourceRefs
      BY <1>1, <1>6
    <3>2. QED
      BY <1>2, <1>6, <3>1, Zenon
  <2>2. QED
    BY <1>6, <2>1, Zenon DEF MatchesIf
<1>7. CASE /\ b.form = "class" /\ Shape[b.class] = "typed_dict" /\ h[o].kind = "dict"
           /\ HasKeysOf(h, o, b.class)
           /\ \A k \in DOMAIN h[o].of : f[<<h[o].of[k], Declares[b.class][k]>>]
  <2>1. \A k \in DOMAIN h[o].of : g[<<h[o].of[k], Declares[b.class][k]>>]
    <3> TAKE k \in DOMAIN h[o].of
    <3>1. b.class \in DOMAIN Mro /\ k \in ToSet(Fields[b.class])
      BY <1>7, FormsAssumption DEF HasKeysOf
    <3>2. Declares[b.class][k] \in Forms
      BY <3>1, ClassesAssumption, FormsAssumption
    <3>3. QED
      BY <1>1, <1>7, <3>2, Zenon
  <2>2. QED
    BY <1>7, <2>1, Zenon DEF MatchesIf
<1>8. CASE \/ b.form = "any"
           \/ b.form \in {"none", "scalar"} /\ h[o].kind = b.form
           \/ b.form = "class" /\ IsInstance(h, o, b.class)
  BY <1>8, Zenon DEF MatchesIf
<1>9. QED
  BY <1>4, <1>5, <1>6, <1>7, <1>8, Zenon DEF MatchesIf

\* What matches, by what matches of what it holds.
LEMMA MatchesEquation ==
  ASSUME NEW h \in Sources, NEW o \in SourceRefs, NEW a \in Forms
  PROVE  Matches(h, o, a) <=>
           MatchesIf(h, o, a, [x \in SourceRefs \X Forms |-> Matches(h, x[1], x[2])])
<1> DEFINE X == SourceRefs \X Forms
           E(f, x) == MatchesIf(h, x[1], x[2], f)
           chi(S) == [x \in X |-> x \in S]
           F == [S \in SUBSET X |-> {x \in X : E(chi(S), x)}]
           matches == CHOOSE f : f = [x \in X |-> E(f, x)]
<1>0. DOMAIN h = SourceRefs
  BY SourceObject
<1>1. \E S \in SUBSET X : F[S] = S
  <2>1. ASSUME NEW S \in SUBSET X, NEW T \in SUBSET X, S \subseteq T, NEW x \in X, E(chi(S), x)
        PROVE  E(chi(T), x)
    <3>1. \A p \in SourceRefs : \A b \in Forms : chi(S)[<<p, b>>] => chi(T)[<<p, b>>]
      BY <2>1
    <3>2. x[1] \in SourceRefs /\ x[2] \in Forms
      OBVIOUS
    <3> HIDE DEF chi
    <3>3. QED
      BY <2>1, <3>1, <3>2, MatchesMore
  <2> HIDE DEF E, chi
  <2>2. \A S, T \in SUBSET X : S \subseteq T => F[S] \subseteq F[T]
    BY <2>1
  <2>3. F \in [SUBSET X -> SUBSET X]
    OBVIOUS
  <2> HIDE DEF F, X
  <2>4. QED
    BY <2>2, <2>3, FixedPoint
<1>2. PICK S \in SUBSET X : F[S] = S
  BY <1>1
<1> DEFINE g == chi(S)
<1>3. ASSUME NEW x \in X
      PROVE  g[x] = E(g, x)
  <2>1. x \in S <=> E(g, x)
    <3> HIDE DEF E, chi
    <3>1. QED
      BY <1>2
  <2>2. E(g, x) \in BOOLEAN /\ (x \in S) \in BOOLEAN
    BY DEF MatchesIf
  <2> HIDE DEF E
  <2>3. QED
    BY <2>1, <2>2, SameTruth
<1>4. g = [x \in X |-> E(g, x)]
  <2> HIDE DEF E
  <2>1. QED
    BY <1>3, Zenon
<1>5. matches = [x \in X |-> E(matches, x)]
  <2> HIDE DEF E, g
  <2>1. QED
    BY <1>4, Zenon
<1>6. \A p, b : Matches(h, p, b) = matches[<<p, b>>]
  BY <1>0 DEF Matches, MatchesIf
<1> HIDE DEF matches
<1>7. matches = [x \in X |-> Matches(h, x[1], x[2])]
  <2>1. \A x \in X : x = <<x[1], x[2]>>
    OBVIOUS
  <2>2. \A x \in X : matches[x] = Matches(h, x[1], x[2])
    BY <1>6, <2>1
  <2>3. matches = [x \in X |-> matches[x]]
    <3> HIDE DEF E
    <3>1. QED
      BY <1>5
  <2>4. QED
    BY <2>2, <2>3
<1>8. matches[<<o, a>>] = MatchesIf(h, o, a, matches)
  BY <1>5
<1>9. QED
  BY <1>6, <1>7, <1>8

\* Whatever matches nothing but a class or anything is an instance of the class.
LEMMA MatchesStructure ==
  ASSUME NEW h \in Sources, NEW o \in SourceRefs, NEW a \in Forms, Matches(h, o, a), ~IsUnion(a),
         h[o].kind \in Structures
  PROVE  a = Anything \/ (a.form = "class" /\ IsInstance(h, o, a.class))
<1>1. MatchesIf(h, o, a, [x \in SourceRefs \X Forms |-> Matches(h, x[1], x[2])])
  BY MatchesEquation
<1>2. a.form = "any" => a = Anything
  BY FormsAssumption
<1>3. /\ h[o].kind \notin {"none", "scalar", "dict"} /\ h[o].kind \notin Collections /\ a.form # "union"
  BY DEF Structures, Collections, IsUnion
<1>4. QED
  BY <1>1, <1>2, <1>3 DEF MatchesIf

\* What is no structure matches a class only if the class is one of typed dictionaries.
LEMMA MatchesClass ==
  ASSUME NEW h \in Sources, NEW o \in SourceRefs, NEW a \in Forms, Matches(h, o, a), a.form = "class",
         h[o].kind \notin Structures
  PROVE  /\ Shape[a.class] = "typed_dict" /\ h[o].kind = "dict" /\ HasKeysOf(h, o, a.class)
         /\ \A k \in DOMAIN h[o].of : Matches(h, h[o].of[k], Declares[a.class][k])
<1> DEFINE f == [x \in SourceRefs \X Forms |-> Matches(h, x[1], x[2])]
<1>1. MatchesIf(h, o, a, f)
  BY MatchesEquation
<1>2. ~IsInstance(h, o, a.class)
  BY DEF IsInstance
<1>3. a.form \notin {"any", "none", "scalar", "union", "dict"} /\ a.form \notin Collections
  BY DEF Collections
<1> HIDE DEF f
<1>4. /\ Shape[a.class] = "typed_dict" /\ h[o].kind = "dict" /\ HasKeysOf(h, o, a.class)
      /\ \A k \in DOMAIN h[o].of : f[<<h[o].of[k], Declares[a.class][k]>>]
  BY <1>1, <1>2, <1>3 DEF MatchesIf
<1>5. \A k \in DOMAIN h[o].of : h[o].of[k] \in SourceRefs /\ Declares[a.class][k] \in Forms
  <2> TAKE k \in DOMAIN h[o].of
  <2>1. a.class \in DOMAIN Mro /\ k \in ToSet(Fields[a.class])
    BY <1>4, FormsAssumption DEF HasKeysOf
  <2>2. Declares[a.class][k] \in Forms
    BY <2>1, ClassesAssumption, FormsAssumption
  <2>3. QED
    BY <2>2, SourceObject DEF Range
<1>6. \A k \in DOMAIN h[o].of : f[<<h[o].of[k], Declares[a.class][k]>>] = Matches(h, h[o].of[k], Declares[a.class][k])
  BY <1>5 DEF f
<1>7. QED
  BY <1>4, <1>6

\* Where anything is declared, keys, values and items may be anything.
LEMMA AnythingWithin ==
  ASSUME NEW a \in Forms, a.form = "any"
  PROVE  KeyOf(a) = Anything /\ ValueOf(a) = Anything /\ ItemOf(a) = Anything
<1>1. a = Anything
  BY FormsAssumption
<1>2. a.args = <<>>
  BY <1>1, Zenon DEF Anything, Form
<1>3. Len(a.args) # 2
  <2>1. Len(<<>>) = 0
    OBVIOUS
  <2>2. QED
    BY <1>2, <2>1
<1>4. QED
  BY <1>2, <1>3 DEF KeyOf, ValueOf, ItemOf

\* A collection that matches anything but a class has items that match.
LEMMA MatchesItems ==
  ASSUME NEW h \in Sources, NEW o \in SourceRefs, NEW a \in Forms, Matches(h, o, a), ~IsUnion(a),
         a.form # "class", h[o].kind \in Collections
  PROVE  \A i \in DOMAIN h[o].of : Matches(h, h[o].of[i], ItemOf(a))
<1> DEFINE f == [x \in SourceRefs \X Forms |-> Matches(h, x[1], x[2])]
<1>1. MatchesIf(h, o, a, f)
  BY MatchesEquation
<1>2. \A i \in DOMAIN h[o].of : h[o].of[i] \in SourceRefs
  BY SourceObject DEF Range
<1>3. ItemOf(a) \in Forms
  BY ArgumentIsForm
<1>4. h[o].kind \notin {"none", "scalar", "dict"}
  BY DEF Collections
<1>5. CASE a.form = "any"
  <2>1. ItemOf(a) = Anything
    BY <1>5, AnythingWithin
  <2>2. \A p \in SourceRefs : Matches(h, p, Anything)
    <3> TAKE p \in SourceRefs
    <3>1. Anything \in Forms /\ Anything.form = "any"
      BY FormsAssumption DEF Anything, Form
    <3>2. MatchesIf(h, p, Anything, f)
      BY <3>1 DEF MatchesIf
    <3>3. QED
      BY <3>1, <3>2, MatchesEquation
  <2>3. QED
    BY <1>2, <2>1, <2>2
<1>6. CASE a.form # "any"
  <2> HIDE DEF f
  <2>1. \A i \in DOMAIN h[o].of : f[<<h[o].of[i], ItemOf(a)>>]
    BY <1>1, <1>4, <1>6 DEF MatchesIf, IsUnion
  <2>2. \A i \in DOMAIN h[o].of : f[<<h[o].of[i], ItemOf(a)>>] = Matches(h, h[o].of[i], ItemOf(a))
    BY <1>2, <1>3 DEF f
  <2>3. QED
    BY <2>1, <2>2
<1>7. QED
  BY <1>5, <1>6

\* A mapping that matches anything but a class has keys and values that match.
LEMMA MatchesEntries ==
  ASSUME NEW h \in Sources, NEW o \in SourceRefs, NEW a \in Forms, Matches(h, o, a), ~IsUnion(a),
         a.form # "class", h[o].kind = "dict"
  PROVE  \A k \in DOMAIN h[o].of : Matches(h, k, KeyOf(a)) /\ Matches(h, h[o].of[k], ValueOf(a))
<1> DEFINE f == [x \in SourceRefs \X Forms |-> Matches(h, x[1], x[2])]
<1>1. MatchesIf(h, o, a, f)
  BY MatchesEquation
<1>2. \A k \in DOMAIN h[o].of : k \in SourceRefs /\ h[o].of[k] \in SourceRefs
  BY SourceObject DEF Range
<1>3. KeyOf(a) \in Forms /\ ValueOf(a) \in Forms
  BY ArgumentIsForm
<1>4. h[o].kind \notin {"none", "scalar"} /\ h[o].kind \notin Collections
  BY DEF Collections
<1>5. CASE a.form = "any"
  <2>1. KeyOf(a) = Anything /\ ValueOf(a) = Anything
    BY <1>5, AnythingWithin
  <2>2. \A p \in SourceRefs : Matches(h, p, Anything)
    <3> TAKE p \in SourceRefs
    <3>1. Anything \in Forms /\ Anything.form = "any"
      BY FormsAssumption DEF Anything, Form
    <3>2. MatchesIf(h, p, Anything, f)
      BY <3>1 DEF MatchesIf
    <3>3. QED
      BY <3>1, <3>2, MatchesEquation
  <2>3. QED
    BY <1>2, <2>1, <2>2
<1>6. CASE a.form # "any"
  <2> HIDE DEF f
  <2>1. \A k \in DOMAIN h[o].of : f[<<k, KeyOf(a)>>] /\ f[<<h[o].of[k], ValueOf(a)>>]
    BY <1>1, <1>4, <1>6 DEF MatchesIf, IsUnion
  <2>2. \A k \in DOMAIN h[o].of : /\ f[<<k, KeyOf(a)>>] = Matches(h, k, KeyOf(a))
                                  /\ f[<<h[o].of[k], ValueOf(a)>>] = Matches(h, h[o].of[k], ValueOf(a))
    BY <1>2, <1>3 DEF f
  <2>3. QED
    BY <2>1, <2>2
<1>7. QED
  BY <1>5, <1>6

\* The first of some arms of a union is one of them.
LEMMA FirstArm ==
  ASSUME NEW a \in Forms, NEW I, I \subseteq DOMAIN a.args, I # {}, NEW b
  PROVE  \E i \in I : ArmOf(a, I, b) = a.args[i]
<1>1. I \in SUBSET Nat
  <2>1. a.args \in Seq(Forms)
    BY FormsAssumption
  <2>2. QED
    BY <2>1
<1>2. \E x \in I : \A y \in I : x <= y
  BY <1>1, LeastNumber
<1>3. First(I) \in I
  BY <1>2 DEF First
<1>4. QED
  BY <1>3 DEF ArmOf

\* Classes of arms are those of an annotation that is a union.
LEMMA ClassArmsOf ==
  ASSUME NEW h, NEW o, NEW a \in Forms, IsUnion(a)
  PROVE  /\ \A i \in DOMAIN a.args : a.args[i] \in Arms(a) /\ a.args[i] \in Forms /\ ~IsUnion(a.args[i])
         /\ ClassArms(h, o, a.args) \subseteq DOMAIN a.args
         /\ DeclaredClasses(h, o, a) = {a.args[i].class : i \in ClassArms(h, o, a.args)}
         /\ \A i \in ClassArms(h, o, a.args) : IsInstance(h, o, a.args[i].class) /\ a.args[i].form = "class"
<1>1. a.args \in Seq(Forms)
  BY FormsAssumption
<1>2. Arms(a) = {a.args[i] : i \in DOMAIN a.args}
  BY DEF Arms, ToSet
<1>3. \A i \in DOMAIN a.args : a.args[i] \in Forms /\ ~IsUnion(a.args[i])
  BY <1>1, FormsAssumption DEF IsUnion
<1>4. DeclaredClasses(h, o, a) = {a.args[i].class : i \in ClassArms(h, o, a.args)}
  BY <1>2 DEF DeclaredClasses, ClassArms
<1>5. QED
  BY <1>2, <1>3, <1>4 DEF ClassArms

\* Among the classes that o is an instance of, the one that comes first in the order of its
\* class is the most specific: no other is a subclass of it.
LEMMA NearestIsMostSpecific ==
  ASSUME NEW h \in Sources, NEW o \in SourceRefs, NEW c, NEW d, IsInstance(h, o, c), IsInstance(h, o, d),
         Distance(h, o, c) <= Distance(h, o, d), c \in ToSet(Mro[d])
  PROVE  c = d
<1> DEFINE e == h[o].class
<1>1. e \in DOMAIN Mro /\ c \in ToSet(Mro[e]) /\ d \in ToSet(Mro[e])
  BY SourceObject DEF IsInstance
<1> HIDE DEF e
<1>2. /\ Mro[e] \in Seq(DOMAIN Mro)
      /\ \A i, j \in DOMAIN Mro[e] : /\ Mro[e][i] = Mro[e][j] => i = j
                                     /\ Mro[e][j] \in ToSet(Mro[Mro[e][i]]) => i <= j
  BY <1>1, ClassesAssumption
<1>3. PICK i \in DOMAIN Mro[e] : Mro[e][i] = c
  BY <1>1 DEF ToSet
<1>4. PICK j \in DOMAIN Mro[e] : Mro[e][j] = d
  BY <1>1 DEF ToSet
<1>5. i \in Nat /\ j \in Nat
  BY <1>2
<1>6. Distance(h, o, c) = i
  <2>1. Distance(h, o, c) = CHOOSE n \in DOMAIN Mro[e] : Mro[e][n] = c
    BY DEF Distance, e
  <2>2. QED
    BY <1>2, <1>3, <2>1
<1>7. Distance(h, o, d) = j
  <2>1. Distance(h, o, d) = CHOOSE n \in DOMAIN Mro[e] : Mro[e][n] = d
    BY DEF Distance, e
  <2>2. QED
    BY <1>2, <1>4, <2>1
<1>8. j <= i
  BY <1>2, <1>3, <1>4
<1>9. QED
  BY <1>3, <1>4, <1>5, <1>6, <1>7, <1>8

\* The distance of a class that o is an instance of is a number.
LEMMA DistanceIsNumber ==
  ASSUME NEW h \in Sources, NEW o \in SourceRefs, NEW c, IsInstance(h, o, c)
  PROVE  Distance(h, o, c) \in Nat
<1> DEFINE e == h[o].class
<1>1. e \in DOMAIN Mro /\ c \in ToSet(Mro[e])
  BY SourceObject DEF IsInstance
<1> HIDE DEF e
<1>2. Mro[e] \in Seq(DOMAIN Mro) /\ \E i \in DOMAIN Mro[e] : Mro[e][i] = c
  BY <1>1, ClassesAssumption DEF ToSet
<1>3. Distance(h, o, c) = CHOOSE n \in DOMAIN Mro[e] : Mro[e][n] = c
  BY DEF Distance, e
<1>4. Distance(h, o, c) \in DOMAIN Mro[e]
  BY <1>2, <1>3
<1>5. QED
  BY <1>2, <1>4

\* One of some arms that o is an instance of is the nearest.
LEMMA NearestArmExists ==
  ASSUME NEW h \in Sources, NEW o \in SourceRefs, NEW a \in Forms, IsUnion(a), ClassArms(h, o, a.args) # {}
  PROVE  NearestArms(h, o, a.args, ClassArms(h, o, a.args)) # {}
<1> DEFINE I == ClassArms(h, o, a.args)
           distance(i) == Distance(h, o, a.args[i].class)
           T == {distance(i) : i \in I}
<1>1. \A i \in I : distance(i) \in Nat
  BY ClassArmsOf, DistanceIsNumber
<1> HIDE DEF distance, I
<1>2. T \in SUBSET Nat /\ T # {}
  BY <1>1 DEF I
<1>3. PICK x \in T : \A y \in T : x <= y
  <2> HIDE DEF T
  <2>1. QED
    BY <1>2, LeastNumber
<1>4. PICK i \in I : x = distance(i)
  BY <1>3
<1>5. \A j \in I : distance(i) <= distance(j)
  BY <1>3, <1>4
<1>6. i \in NearestArms(h, o, a.args, I)
  BY <1>5 DEF NearestArms, distance
<1>7. QED
  BY <1>6 DEF I

\* The matching annotation of what matches: an arm that it matches, of the most specific
\* declared class if there is one.
LEMMA MatchingMatches ==
  ASSUME NEW h \in Sources, NEW o \in SourceRefs, NEW a \in Forms, Matches(h, o, a)
  PROVE  LET d == Matching(h, o, a) IN
         /\ d \in Forms /\ d \in Arms(a) /\ ~IsUnion(d) /\ Matches(h, o, d)
         /\ DeclaredClasses(h, o, a) # {} => d.form = "class" /\ d.class \in DeclaredClasses(h, o, a)
         /\ d.form = "class" /\ IsInstance(h, o, d.class) => d.class \in ShownAs(h, o, a)
<1> DEFINE d == Matching(h, o, a)
           f == [x \in SourceRefs \X Forms |-> Matches(h, x[1], x[2])]
           C == DeclaredClasses(h, o, a)
<1>1. CASE ~IsUnion(a)
  <2>1. d = a /\ Arms(a) = {a}
    BY <1>1 DEF Matching, Arms
  <2>2. C = IF a.form = "class" /\ IsInstance(h, o, a.class) THEN {a.class} ELSE {}
    BY <2>1 DEF DeclaredClasses
  <2>3. QED
    BY <1>1, <2>1, <2>2 DEF ShownAs
<1>2. CASE IsUnion(a)
  <2> DEFINE I == ClassArms(h, o, a.args)
             N == NearestArms(h, o, a.args, I)
             M == MatchingArms(h, o, a.args)
  <2>1. /\ \A i \in DOMAIN a.args : a.args[i] \in Arms(a) /\ a.args[i] \in Forms /\ ~IsUnion(a.args[i])
        /\ I \subseteq DOMAIN a.args
        /\ C = {a.args[i].class : i \in I}
        /\ \A i \in I : IsInstance(h, o, a.args[i].class) /\ a.args[i].form = "class"
    BY <1>2, ClassArmsOf
  <2>2. d = ArmOf(a, N, ArmOf(a, M, ArmOf(a, KindArms(h, o, a.args), a)))
    BY <1>2 DEF Matching
  <2>3. N \subseteq I /\ \A i \in N : \A j \in I : Distance(h, o, a.args[i].class) <= Distance(h, o, a.args[j].class)
    BY DEF NearestArms
  <2>4. CASE I # {}
    <3>1. N # {} /\ N \subseteq DOMAIN a.args
      BY <1>2, <2>1, <2>3, <2>4, NearestArmExists
    <3> HIDE DEF N, I, d, C
    <3>2. PICK i \in N : d = a.args[i]
      BY <2>2, <3>1, FirstArm
    <3>3. i \in I /\ d.form = "class" /\ IsInstance(h, o, d.class) /\ d.class \in C
      BY <2>1, <2>3, <3>2
    <3>4. \A c \in C : d.class \in ToSet(Mro[c]) => d.class = c
      <4> SUFFICES ASSUME NEW j \in I, d.class \in ToSet(Mro[a.args[j].class])
                   PROVE  d.class = a.args[j].class
        BY <2>1
      <4>1. Distance(h, o, d.class) <= Distance(h, o, a.args[j].class) /\ IsInstance(h, o, a.args[j].class)
        BY <2>1, <2>3, <3>2
      <4>2. QED
        BY <3>3, <4>1, NearestIsMostSpecific
    <3>5. d.class \in ShownAs(h, o, a)
      BY <3>3, <3>4 DEF ShownAs, C
    <3>6. d \in Forms /\ d \in Arms(a) /\ ~IsUnion(d)
      BY <2>1, <3>2, <3>3
    <3>7. Matches(h, o, d)
      <4>1. MatchesIf(h, o, d, f)
        BY <3>3 DEF MatchesIf
      <4>2. QED
        BY <3>6, <4>1, MatchesEquation
    <3>8. QED
      BY <3>3, <3>5, <3>6, <3>7 DEF d, C
  <2>5. CASE I = {}
    <3>1. N = {} /\ C = {}
      BY <2>1, <2>3, <2>5
    <3>2. \E i \in DOMAIN a.args : Matches(h, o, a.args[i])
      <4>1. MatchesIf(h, o, a, f)
        BY MatchesEquation
      <4>2. a.form = "union" /\ "union" \notin Collections
        BY <1>2 DEF IsUnion, Collections
      <4> HIDE DEF f
      <4>3. PICK i \in DOMAIN a.args : f[<<o, a.args[i]>>]
        BY <4>1, <4>2 DEF MatchesIf
      <4>4. Matches(h, o, a.args[i])
        BY <2>1, <4>3 DEF f
      <4>5. QED
        BY <4>4
    <3>3. M # {} /\ M \subseteq DOMAIN a.args
      BY <3>2 DEF MatchingArms
    <3>4. d = ArmOf(a, M, ArmOf(a, KindArms(h, o, a.args), a))
      BY <2>2, <3>1 DEF ArmOf
    <3> HIDE DEF d, C, I, N
    <3>5. PICK i \in M : d = a.args[i]
      BY <3>3, <3>4, FirstArm
    <3>6. Matches(h, o, d) /\ i \in DOMAIN a.args
      BY <3>5 DEF MatchingArms
    <3>7. ~(d.form = "class" /\ IsInstance(h, o, d.class))
      BY <2>5, <3>5, <3>6 DEF I, ClassArms
    <3>8. QED
      BY <2>1, <3>1, <3>5, <3>6, <3>7 DEF d, C
  <2>6. QED
    BY <2>4, <2>5
<1>3. QED
  BY <1>1, <1>2

-----------------------------------------------------------------------------
(* Parts that match. *)

\* What a value is taken apart as, if it matches the annotation of its place.
LEMMA StructureShown ==
  ASSUME NEW h \in Sources, NEW p \in Parts, Matches(h, p.object, p.annotation)
  PROVE  LET o == p.object
             d == Matching(h, o, p.annotation)
             c == Structure(h, p)
         IN  /\ h[o].kind \in Structures =>
                  IF c # NoClass THEN c \in ShownAs(h, o, p.annotation)
                  ELSE h[o].kind = "dataclass" /\ DeclaredClasses(h, o, p.annotation) = {}
             /\ h[o].kind \notin Structures =>
                  IF c # NoClass THEN d.form = "class" /\ d.class = c ELSE d.form # "class"
<1> DEFINE o == p.object
           a == p.annotation
           d == Matching(h, o, a)
           c == Structure(h, p)
           C == DeclaredClasses(h, o, a)
<1>1. o \in SourceRefs /\ a \in Forms
  BY DEF Parts
<1>2. /\ d \in Forms /\ d \in Arms(a) /\ ~IsUnion(d) /\ Matches(h, o, d)
      /\ C # {} => d.form = "class" /\ d.class \in C
      /\ d.form = "class" /\ IsInstance(h, o, d.class) => d.class \in ShownAs(h, o, a)
  BY <1>1, MatchingMatches
<1>3. c = StructureOf(h, o, d)
  BY DEF Structure
<1>4. NoClass \notin DOMAIN Mro
  BY SourcesAssumption
<1>5. d.form = "class" => d.class \in DOMAIN Mro
  BY <1>2, FormsAssumption
<1>6. ASSUME NEW e \in C
      PROVE  IsInstance(h, o, e)
  BY DEF DeclaredClasses
<1>7. Anything.form # "class"
  BY DEF Anything, Form
<1> HIDE DEF o, a, d, c
<1>8. CASE h[o].kind \in Structures
  <2>1. d = Anything \/ (d.form = "class" /\ IsInstance(h, o, d.class))
    BY <1>1, <1>2, <1>8, MatchesStructure
  <2>2. /\ h[o].class \in DOMAIN Mro
        /\ \A e \in ToSet(Mro[h[o].class]) : Shape[e] = h[o].kind
    BY <1>1, <1>8, SourcesAssumption DEF WellFormed
  <2>3. CASE d.form = "class" /\ IsInstance(h, o, d.class)
    <3>1. Shape[d.class] = h[o].kind
      BY <2>2, <2>3 DEF IsInstance
    <3>2. c = d.class
      BY <1>3, <1>8, <2>3, <3>1 DEF StructureOf, IsModel, IsModelClass, Structures
    <3>3. QED
      BY <1>2, <1>4, <1>5, <1>8, <2>3, <3>2 DEF o, a, d, c
  <2>4. CASE d = Anything
    <3>1. C = {} /\ d.form # "class"
      BY <1>2, <1>7, <2>4
    <3>2. CASE h[o].kind = "model"
      <4>1. c = h[o].class
        BY <1>3, <3>1, <3>2 DEF StructureOf, IsModel, IsModelClass
      <4>2. c \in ShownAs(h, o, a)
        BY <1>2, <2>4, <3>1, <3>2, <4>1 DEF ShownAs, IsModel
      <4>3. QED
        BY <1>4, <1>8, <2>2, <4>1, <4>2 DEF o, a, c
    <3>3. CASE h[o].kind = "dataclass"
      <4>1. c = NoClass
        BY <1>2, <1>3, <3>1, <3>3 DEF StructureOf, IsModel
      <4>2. QED
        BY <1>8, <3>1, <3>3, <4>1 DEF o, a, c
    <3>4. QED
      BY <1>8, <3>2, <3>3 DEF Structures
  <2>5. QED
    BY <2>1, <2>3, <2>4
<1>9. CASE h[o].kind \notin Structures
  <2>1. ~IsModel(h, o) /\ h[o].kind # "dataclass"
    BY <1>9 DEF IsModel, Structures
  <2>2. CASE d.form = "class"
    <3>1. ~IsModelClass(d)
      <4>1. Shape[d.class] = "typed_dict"
        BY <1>1, <1>2, <1>9, <2>2, MatchesClass
      <4>2. QED
        BY <4>1 DEF IsModelClass
    <3>2. c = d.class
      BY <1>3, <2>1, <2>2, <3>1 DEF StructureOf
    <3>3. QED
      BY <1>4, <1>5, <1>9, <2>2, <3>2 DEF o, a, d, c
  <2>3. CASE d.form # "class"
    <3>1. c = NoClass
      BY <1>3, <2>1, <2>3 DEF StructureOf
    <3>2. QED
      BY <1>9, <2>3, <3>1 DEF o, a, d, c
  <2>4. QED
    BY <2>2, <2>3
<1>10. QED
  BY <1>8, <1>9

\* The names of the parts of a structure: the fields that it has and that are not omitted.
LEMMA CrossingNames ==
  ASSUME NEW h, NEW o, NEW c \in DOMAIN Mro
  PROVE  ToSet(Crossing(h, o, c)) = (ToSet(Fields[c]) \ Omitted[c]) \cap DOMAIN h[o].of
<1> DEFINE K == {i \in DOMAIN Fields[c] : Fields[c][i] \in DOMAIN h[o].of \ Omitted[c]}
           names == Crossing(h, o, c)
<1>1. PICK n \in Nat : DOMAIN Fields[c] = 1 .. n
  <2>1. Fields[c] \in Seq(DOMAIN Declares[c])
    BY ClassesAssumption
  <2>2. QED
    BY <2>1
<1>2. IsFiniteSet(K) /\ K \in SUBSET Nat
  <2>1. IsFiniteSet(1 .. n)
    BY FS_Interval
  <2>2. K \subseteq 1 .. n
    BY <1>1
  <2>3. QED
    BY <2>1, <2>2, FS_Subset
<1>3. /\ \A i \in DOMAIN InOrder(K) : InOrder(K)[i] \in K
      /\ \A i \in K : \E j \in DOMAIN InOrder(K) : InOrder(K)[j] = i
  <2> HIDE DEF K
  <2>1. QED
    BY <1>2, InOrderOnce
<1>4. names = [i \in DOMAIN InOrder(K) |-> Fields[c][InOrder(K)[i]]]
  BY DEF Crossing
<1>5. ToSet(names) = {Fields[c][i] : i \in K}
  <2> HIDE DEF names, K
  <2>1. QED
    BY <1>3, <1>4 DEF ToSet
<1>6. {Fields[c][i] : i \in K} = (ToSet(Fields[c]) \ Omitted[c]) \cap DOMAIN h[o].of
  BY DEF ToSet
<1>7. QED
  BY <1>5, <1>6

\* The parts of a structure are its fields.
LEMMA FieldPartsOf ==
  ASSUME NEW h \in Sources, NEW p \in Parts, Structure(h, p) # NoClass
  PROVE  LET o == p.object
             c == Structure(h, p)
             names == Crossing(h, o, c)
         IN  /\ c \in DOMAIN Mro
             /\ ToSet(names) = (ToSet(Fields[c]) \ Omitted[c]) \cap DOMAIN h[o].of
             /\ DOMAIN PartsOf(h, p) = DOMAIN names
             /\ \A i \in DOMAIN names :
                  /\ PartsOf(h, p)[i].object = h[o].of[names[i]]
                  /\ PartsOf(h, p)[i].annotation = Declares[c][names[i]]
<1> DEFINE o == p.object
           c == Structure(h, p)
           names == Crossing(h, o, c)
<1>1. c \in DOMAIN Mro
  BY StructureIsClass
<1>2. PartsOf(h, p) = [i \in DOMAIN names |-> Part(h[o].of[names[i]], Declares[c][names[i]], FALSE)]
  BY DEF PartsOf, PartsAs, FieldParts
<1>3. ToSet(names) = (ToSet(Fields[c]) \ Omitted[c]) \cap DOMAIN h[o].of
  BY <1>1, CrossingNames
<1> HIDE DEF o, c, names
<1>4. /\ DOMAIN PartsOf(h, p) = DOMAIN names
      /\ \A i \in DOMAIN names : /\ PartsOf(h, p)[i].object = h[o].of[names[i]]
                                 /\ PartsOf(h, p)[i].annotation = Declares[c][names[i]]
  BY <1>2 DEF Part
<1>5. QED
  BY <1>1, <1>3, <1>4 DEF o, c, names

\* The parts of a mapping are its keys, each followed by its value.
EntriesOf(parts, h, o, d, keys, n) ==
  /\ DOMAIN keys = 1 .. n /\ ToSet(keys) = DOMAIN h[o].of
  /\ \A i, j \in 1 .. n : keys[i] = keys[j] => i = j
  /\ DOMAIN parts = 1 .. 2 * n
  /\ \A i \in 1 .. n : /\ parts[2 * i - 1] = Part(keys[i], KeyOf(d), TRUE)
                       /\ parts[2 * i] = Part(h[o].of[keys[i]], ValueOf(d), FALSE)
LEMMA EntryPartsOf ==
  ASSUME NEW h \in Sources, NEW p \in Parts, Structure(h, p) = NoClass, h[p.object].kind = "dict"
  PROVE  \E n \in Nat : EntriesOf(PartsOf(h, p), h, p.object, Matching(h, p.object, p.annotation),
                                  InOrder(DOMAIN h[p.object].of), n)
<1> DEFINE o == p.object
           d == Matching(h, o, p.annotation)
           D == DOMAIN h[o].of
           keys == InOrder(D)
           parts == PartsOf(h, p)
<1>1. D \in SUBSET Nat /\ IsFiniteSet(D)
  <2>1. D \subseteq SourceRefs
    BY SourceObject DEF Parts
  <2>2. IsFiniteSet(SourceRefs) /\ SourceRefs \subseteq Nat
    BY SourcesAssumption, FS_Interval DEF SourceRefs
  <2>3. QED
    BY <2>1, <2>2, FS_Subset
<1>2. PICK n \in Nat : DOMAIN keys = 1 .. n /\ Len(keys) = n
  <2> HIDE DEF D
  <2>1. QED
    BY <1>1, InOrderOnce
<1>3. /\ \A i \in 1 .. n : keys[i] \in D
      /\ \A i, j \in 1 .. n : keys[i] = keys[j] => i = j
      /\ \A k \in D : \E i \in 1 .. n : keys[i] = k
  <2> HIDE DEF D
  <2>1. QED
    BY <1>1, <1>2, InOrderOnce
<1>4. parts = [i \in 1 .. 2 * n |-> IF i % 2 = 1 THEN Part(keys[(i + 1) \div 2], KeyOf(d), TRUE)
                                    ELSE Part(h[o].of[keys[i \div 2]], ValueOf(d), FALSE)]
  <2>1. parts = EntryParts(h, o, d, keys)
    BY DEF PartsOf, PartsAs, IsMapping
  <2> HIDE DEF keys, parts, d, o
  <2>2. QED
    BY <1>2, <2>1 DEF EntryParts
<1> HIDE DEF keys, parts, d, o, D
<1>5. ToSet(keys) = D
  BY <1>2, <1>3 DEF ToSet
<1>6. \A i \in 1 .. n : parts[2 * i - 1] = Part(keys[i], KeyOf(d), TRUE)
  <2> TAKE i \in 1 .. n
  <2>1. 2 * i - 1 \in 1 .. 2 * n /\ (2 * i - 1) % 2 = 1 /\ ((2 * i - 1) + 1) \div 2 = i
    BY <1>2, Halves
  <2>2. QED
    BY <1>4, <2>1
<1>7. \A i \in 1 .. n : parts[2 * i] = Part(h[o].of[keys[i]], ValueOf(d), FALSE)
  <2> TAKE i \in 1 .. n
  <2> DEFINE e == 2 * i
  <2>1. e \in 1 .. 2 * n /\ e % 2 # 1 /\ e \div 2 = i
    BY <1>2, Halves
  <2> HIDE DEF e
  <2>2. parts[e] = Part(h[o].of[keys[i]], ValueOf(d), FALSE)
    BY <1>4, <2>1
  <2>3. QED
    BY <2>2 DEF e
<1>8. DOMAIN parts = 1 .. 2 * n
  BY <1>4
<1>9. EntriesOf(parts, h, o, d, keys, n)
  BY <1>2, <1>3, <1>5, <1>6, <1>7, <1>8 DEF EntriesOf, D
<1>10. QED
  BY <1>2, <1>9, Zenon DEF parts, o, d, keys, D

\* The parts of a collection are its items.
LEMMA ItemPartsOf ==
  ASSUME NEW h \in Sources, NEW p \in Parts, Structure(h, p) = NoClass, h[p.object].kind \in Collections
  PROVE  LET o == p.object IN
         /\ DOMAIN PartsOf(h, p) = DOMAIN h[o].of
         /\ \A i \in DOMAIN h[o].of :
              /\ PartsOf(h, p)[i].object = h[o].of[i]
              /\ PartsOf(h, p)[i].annotation = ItemOf(Matching(h, o, p.annotation))
<1> DEFINE o == p.object
           d == Matching(h, o, p.annotation)
           hash == h[o].kind \in {"set", "frozenset"} \/ (h[o].kind = "tuple" /\ p.hash)
<1>1. PartsOf(h, p) = [i \in DOMAIN h[o].of |-> Part(h[o].of[i], ItemOf(d), hash)]
  BY DEF PartsOf, PartsAs, ItemParts, IsMapping, IsCollection, Collections
<1> HIDE DEF hash, d, o
<1>2. QED
  BY <1>1 DEF Part, o, d

\* The classes that a structure is shown as are classes that it is an instance of.
LEMMA ShownClass ==
  ASSUME NEW h \in Sources, NEW o \in SourceRefs, NEW a \in Forms, NEW c \in ShownAs(h, o, a), h[o].kind \in Structures
  PROVE  c \in ToSet(Mro[h[o].class]) /\ c \in DOMAIN Mro
<1>1. h[o].class \in DOMAIN Mro
  BY SourceObject
<1>2. Mro[h[o].class] \in Seq(DOMAIN Mro) /\ Mro[h[o].class] # <<>> /\ Mro[h[o].class][1] = h[o].class
  BY <1>1, ClassesAssumption
<1>3. c = h[o].class \/ IsInstance(h, o, c)
  BY DEF ShownAs, DeclaredClasses
<1>4. h[o].class \in ToSet(Mro[h[o].class])
  <2>1. 1 \in DOMAIN Mro[h[o].class]
    BY <1>2
  <2>2. QED
    BY <1>2, <2>1 DEF ToSet
<1>5. c \in ToSet(Mro[h[o].class])
  BY <1>3, <1>4 DEF IsInstance
<1>6. QED
  BY <1>2, <1>5 DEF ToSet

\* A number up to 2 * n is even or odd.
LEMMA OddOrEven ==
  ASSUME NEW n \in Nat, NEW m \in 1 .. 2 * n
  PROVE  (\E i \in 1 .. n : m = 2 * i - 1) \/ (\E i \in 1 .. n : m = 2 * i)
<1>1. m \in Nat \ {0} /\ m <= 2 * n
  OBVIOUS
<1>2. CASE m = 2 * (m \div 2) /\ m \div 2 \in Nat \ {0}
  <2>1. m \div 2 \in 1 .. n
    BY <1>1, <1>2
  <2>2. QED
    BY <1>2, <2>1
<1>3. CASE m = 2 * ((m + 1) \div 2) - 1 /\ (m + 1) \div 2 \in Nat \ {0}
  <2>1. (m + 1) \div 2 \in 1 .. n
    BY <1>1, <1>3
  <2>2. QED
    BY <1>3, <2>1
<1>4. QED
  BY <1>1, <1>2, <1>3, Parity

\* The parts of what matches its annotation match theirs.
LEMMA PartsMatch ==
  ASSUME Validated, NEW h \in Sources, NEW p \in Parts, Matches(h, p.object, p.annotation)
  PROVE  \A i \in DOMAIN PartsOf(h, p) : Matches(h, PartsOf(h, p)[i].object, PartsOf(h, p)[i].annotation)
<1> DEFINE o == p.object
           a == p.annotation
           d == Matching(h, o, a)
           c == Structure(h, p)
           parts == PartsOf(h, p)
<1>1. o \in SourceRefs /\ a \in Forms
  BY DEF Parts
<1>2. d \in Forms /\ ~IsUnion(d) /\ Matches(h, o, d)
  BY <1>1, MatchingMatches
<1>3. /\ h[o].kind \in Structures /\ c # NoClass => c \in ShownAs(h, o, a)
      /\ h[o].kind \notin Structures => IF c # NoClass THEN d.form = "class" /\ d.class = c ELSE d.form # "class"
  BY StructureShown
<1>4. CASE c # NoClass
  <2> DEFINE names == Crossing(h, o, c)
  <2>1. /\ c \in DOMAIN Mro
        /\ ToSet(names) = (ToSet(Fields[c]) \ Omitted[c]) \cap DOMAIN h[o].of
        /\ DOMAIN parts = DOMAIN names
        /\ \A i \in DOMAIN names : /\ parts[i].object = h[o].of[names[i]]
                                   /\ parts[i].annotation = Declares[c][names[i]]
    BY <1>4, FieldPartsOf
  <2> HIDE DEF names, parts, c, d, o, a
  <2>2. \A i \in DOMAIN names : names[i] \in ToSet(Fields[c]) /\ names[i] \in DOMAIN h[o].of
    BY <2>1 DEF ToSet
  <2>3. \A f \in ToSet(Fields[c]) \cap DOMAIN h[o].of : Matches(h, h[o].of[f], Declares[c][f])
    <3>1. CASE h[o].kind \in Structures
      <4>1. c \in ToSet(Mro[h[o].class])
        BY <1>1, <1>3, <1>4, <3>1, ShownClass
      <4>2. QED
        BY <1>1, <3>1, <4>1 DEF Validated
    <3>2. CASE h[o].kind \notin Structures
      BY <1>1, <1>2, <1>3, <1>4, <3>2, MatchesClass
    <3>3. QED
      BY <3>1, <3>2
  <2>4. \A i \in DOMAIN parts : Matches(h, parts[i].object, parts[i].annotation)
    BY <2>1, <2>2, <2>3
  <2>5. QED
    BY <2>4 DEF parts
<1>5. CASE c = NoClass /\ h[o].kind = "dict"
  <2>1. \A k \in DOMAIN h[o].of : Matches(h, k, KeyOf(d)) /\ Matches(h, h[o].of[k], ValueOf(d))
    <3>1. h[o].kind \notin Structures
      BY <1>5 DEF Structures
    <3>2. QED
      BY <1>1, <1>2, <1>3, <1>5, <3>1, MatchesEntries
  <2>2. PICK n \in Nat : EntriesOf(parts, h, o, d, InOrder(DOMAIN h[o].of), n)
    BY <1>5, EntryPartsOf, Zenon
  <2> DEFINE keys == InOrder(DOMAIN h[o].of)
  <2>3. /\ DOMAIN keys = 1 .. n /\ ToSet(keys) = DOMAIN h[o].of /\ DOMAIN parts = 1 .. 2 * n
        /\ \A i \in 1 .. n : /\ parts[2 * i - 1] = Part(keys[i], KeyOf(d), TRUE)
                             /\ parts[2 * i] = Part(h[o].of[keys[i]], ValueOf(d), FALSE)
    BY <2>2 DEF EntriesOf
  <2> HIDE DEF keys, parts, c, d, o, a
  <2>4. \A i \in 1 .. n : keys[i] \in DOMAIN h[o].of
    BY <2>3 DEF ToSet
  <2>5. ASSUME NEW i \in 1 .. n, NEW q, q = parts[2 * i - 1] \/ q = parts[2 * i]
        PROVE  Matches(h, q.object, q.annotation)
    <3>1. q = Part(keys[i], KeyOf(d), TRUE) \/ q = Part(h[o].of[keys[i]], ValueOf(d), FALSE)
      BY <2>3, <2>5
    <3>2. \/ q.object = keys[i] /\ q.annotation = KeyOf(d)
          \/ q.object = h[o].of[keys[i]] /\ q.annotation = ValueOf(d)
      BY <3>1 DEF Part
    <3>3. QED
      BY <2>1, <2>4, <3>2
  <2>6. ASSUME NEW m \in DOMAIN parts
        PROVE  Matches(h, parts[m].object, parts[m].annotation)
    <3>1. m \in 1 .. 2 * n
      BY <2>3
    <3>2. \E i \in 1 .. n : m = 2 * i - 1 \/ m = 2 * i
      BY <2>2, <3>1, OddOrEven
    <3>3. PICK i \in 1 .. n : parts[m] = parts[2 * i - 1] \/ parts[m] = parts[2 * i]
      BY <3>2
    <3>4. QED
      BY <2>5, <3>3
  <2>7. QED
    BY <2>6 DEF parts
<1>6. CASE c = NoClass /\ h[o].kind \in Collections
  <2>1. \A i \in DOMAIN h[o].of : Matches(h, h[o].of[i], ItemOf(d))
    <3>1. h[o].kind \notin Structures
      BY <1>6 DEF Structures, Collections
    <3>2. QED
      BY <1>1, <1>2, <1>3, <1>6, <3>1, MatchesItems
  <2>2. /\ DOMAIN parts = DOMAIN h[o].of
        /\ \A i \in DOMAIN h[o].of : parts[i].object = h[o].of[i] /\ parts[i].annotation = ItemOf(d)
    BY <1>6, ItemPartsOf
  <2> HIDE DEF parts, d, o, a, c
  <2>3. \A i \in DOMAIN parts : Matches(h, parts[i].object, parts[i].annotation)
    BY <2>1, <2>2
  <2>4. QED
    BY <2>3 DEF parts
<1>7. CASE c = NoClass /\ h[o].kind \notin Collections \cup {"dict"}
  <2>1. parts = <<>>
    BY <1>7, NoParts
  <2>2. QED
    BY <2>1
<1>8. QED
  BY <1>4, <1>5, <1>6, <1>7

-----------------------------------------------------------------------------
(* Objects that conform to annotations. *)

\* Does an object conform to an annotation, if what it holds conforms as f says?
ShownIf(h, p, q, b, f) == Origin(h, p) = q /\ f[<<p, b>>]
FieldsIf(h, o, c, f) ==
  /\ DOMAIN h[o].of = (ToSet(Fields[c]) \ Omitted[c]) \cap DOMAIN h[h[o].from].of
  /\ \A n \in DOMAIN h[o].of : ShownIf(h, h[o].of[n], h[h[o].from].of[n], Declares[c][n], f)
EntriesIf(h, o, d, f) ==
  /\ {Origin(h, k) : k \in DOMAIN h[o].of} = DOMAIN h[h[o].from].of
  /\ \A k \in DOMAIN h[o].of :
       /\ ShownIf(h, k, Origin(h, k), KeyOf(d), f)
       /\ ShownIf(h, h[o].of[k], h[h[o].from].of[Origin(h, k)], ValueOf(d), f)
ItemsIf(h, o, d, f) ==
  /\ DOMAIN h[o].of = DOMAIN h[h[o].from].of
  /\ \A i \in DOMAIN h[o].of : ShownIf(h, h[o].of[i], h[h[o].from].of[i], ItemOf(d), f)
ArmIf(h, o, d, f) ==
  /\ Matches(SourceOf(h), h[o].from, d)
  /\ IF d.form = "class" THEN FieldsIf(h, o, d.class, f)
     ELSE IF h[h[o].from].kind = "dict" THEN EntriesIf(h, o, d, f)
     ELSE ItemsIf(h, o, d, f)
PassedOnIf(h, o, a) ==
  h[o].kind \in {"scalar", "none"} \/ (h[o].kind = "dataclass" /\ DeclaredClasses(h, o, a) = {})
ConformsIf(h, o, a, f) ==
  IF o \in SourceRefs THEN PassedOnIf(h, o, a)
  ELSE IF h[h[o].from].kind \in Structures THEN \E c \in ShownAs(h, h[o].from, a) : FieldsIf(h, o, c, f)
  ELSE \E d \in Arms(a) : ArmIf(h, o, d, f)

\* The arms of an annotation are annotations.
LEMMA ArmsAreForms ==
  ASSUME NEW a \in Forms
  PROVE  Arms(a) \subseteq Forms
<1>1. a.args \in Seq(Forms)
  BY FormsAssumption
<1>2. ToSet(a.args) \subseteq Forms
  BY <1>1 DEF ToSet
<1>3. QED
  BY <1>2 DEF Arms

\* What a source object is shown as depends on the object only.
LEMMA SameClasses ==
  ASSUME NEW h, NEW g, NEW o, h[o] = g[o], NEW a
  PROVE  DeclaredClasses(h, o, a) = DeclaredClasses(g, o, a) /\ ShownAs(h, o, a) = ShownAs(g, o, a)
<1>1. \A c : IsInstance(h, o, c) <=> IsInstance(g, o, c)
  BY DEF IsInstance
<1>2. DeclaredClasses(h, o, a) = DeclaredClasses(g, o, a)
  BY <1>1 DEF DeclaredClasses
<1>3. QED
  BY <1>2 DEF ShownAs, IsModel

\* What a new object was made of is a source object, and what it holds is older.
LEMMA NewObject ==
  ASSUME NEW h, Objects(h), NEW o \in NewIn(h)
  PROVE  /\ o \notin SourceRefs /\ h[o].from \in SourceRefs /\ SourceOf(h)[h[o].from] = h[h[o].from]
         /\ \A i \in DOMAIN h[o].of : h[o].of[i] \in DOMAIN h /\ InResult(h, h[o].of[i]) /\ h[o].of[i] < o
         /\ h[h[o].from].kind = "dict" => \A k \in DOMAIN h[o].of : k \in DOMAIN h /\ InResult(h, k) /\ k < o
<1>1. Sound(h, o)
  BY DEF Objects
<1>2. \A p : InResult(h, p) => p \in DOMAIN h
  BY HeapFacts
<1>3. o \notin SourceRefs /\ h[o].from \in SourceRefs
  BY <1>1 DEF NewIn, Sound
<1>4. SourceOf(h)[h[o].from] = h[h[o].from]
  BY <1>3, HeapFacts
<1>5. \A i \in DOMAIN h[o].of : h[o].of[i] \in DOMAIN h /\ InResult(h, h[o].of[i]) /\ h[o].of[i] < o
  BY <1>1, <1>2 DEF Sound
<1>6. h[h[o].from].kind = "dict" => \A k \in DOMAIN h[o].of : k \in DOMAIN h /\ InResult(h, k) /\ k < o
  BY <1>1, <1>2 DEF Sound
<1>7. QED
  BY <1>3, <1>4, <1>5, <1>6

\* An object conforms at least as much if what it holds does, also in a heap that has grown.
LEMMA ConformsMore ==
  ASSUME NEW h, Objects(h), NEW g, Grows(h, g), SourceOf(g) = SourceOf(h),
         NEW o \in DOMAIN h, NEW a \in Forms, NEW f, NEW e,
         \A p \in DOMAIN h : InResult(h, p) /\ p < o => \A b \in Forms : f[<<p, b>>] => e[<<p, b>>],
         ConformsIf(h, o, a, f)
  PROVE  ConformsIf(g, o, a, e)
<1>1. \A p \in SourceRefs : g[p] = h[p]
  <2> TAKE p \in SourceRefs
  <2>1. SourceOf(g)[p] = g[p] /\ SourceOf(h)[p] = h[p]
    BY DEF SourceOf
  <2>2. QED
    BY <2>1
<1>2. CASE o \in SourceRefs
  <2>1. PassedOnIf(h, o, a)
    BY <1>2 DEF ConformsIf
  <2>2. g[o] = h[o]
    BY <1>1, <1>2
  <2>3. PassedOnIf(g, o, a)
    BY <2>1, <2>2, SameClasses DEF PassedOnIf
  <2>4. QED
    BY <1>2, <2>3 DEF ConformsIf
<1>3. CASE o \notin SourceRefs
  <2> DEFINE s == h[o].from
  <2>1. /\ s \in SourceRefs /\ SourceOf(h)[s] = h[s]
        /\ \A i \in DOMAIN h[o].of : h[o].of[i] \in DOMAIN h /\ InResult(h, h[o].of[i]) /\ h[o].of[i] < o
        /\ h[s].kind = "dict" => \A k \in DOMAIN h[o].of : k \in DOMAIN h /\ InResult(h, k) /\ k < o
    BY <1>3, NewObject DEF NewIn
  <2>2. g[o].of = h[o].of /\ g[o].from = s
    BY DEF Grows
  <2>3. g[s] = h[s]
    BY <1>1, <2>1
  <2> HIDE DEF s
  <2>4. \A p \in DOMAIN h : Origin(g, p) = Origin(h, p)
    BY DEF Origin, Grows
  <2>5. ASSUME NEW p \in DOMAIN h, InResult(h, p), p < o, NEW q, NEW b \in Forms, ShownIf(h, p, q, b, f)
        PROVE  ShownIf(g, p, q, b, e)
    BY <2>4, <2>5 DEF ShownIf
  <2>6. ASSUME NEW c \in DOMAIN Mro, FieldsIf(h, o, c, f)
        PROVE  FieldsIf(g, o, c, e)
    <3>1. /\ DOMAIN h[o].of = (ToSet(Fields[c]) \ Omitted[c]) \cap DOMAIN h[s].of
          /\ \A n \in DOMAIN h[o].of : ShownIf(h, h[o].of[n], h[s].of[n], Declares[c][n], f)
      BY <2>6 DEF FieldsIf, s
    <3>2. \A n \in DOMAIN h[o].of : Declares[c][n] \in Forms
      BY <3>1, ClassesAssumption, FormsAssumption
    <3>3. \A n \in DOMAIN h[o].of : ShownIf(g, h[o].of[n], h[s].of[n], Declares[c][n], e)
      BY <2>1, <2>5, <3>1, <3>2
    <3>4. QED
      BY <2>2, <2>3, <3>1, <3>3 DEF FieldsIf
  <2>7. CASE h[s].kind \in Structures
    <3>1. PICK c \in ShownAs(h, s, a) : FieldsIf(h, o, c, f)
      BY <1>3, <2>7 DEF ConformsIf, s
    <3>2. c \in DOMAIN Mro
      <4>1. c \in ShownAs(SourceOf(h), s, a)
        BY <2>1, SameClasses
      <4>2. QED
        BY <2>1, <2>7, <4>1, ShownClass DEF Objects
    <3>3. FieldsIf(g, o, c, e)
      BY <2>6, <3>1, <3>2
    <3>4. c \in ShownAs(g, s, a)
      BY <2>3, SameClasses
    <3>5. QED
      BY <1>3, <2>2, <2>3, <2>7, <3>3, <3>4 DEF ConformsIf
  <2>8. CASE h[s].kind \notin Structures
    <3>1. PICK d \in Arms(a) : ArmIf(h, o, d, f)
      BY <1>3, <2>8 DEF ConformsIf, s
    <3>2. d \in Forms
      BY ArmsAreForms
    <3>3. Matches(SourceOf(g), s, d)
      BY <3>1 DEF ArmIf, s
    <3>4. CASE d.form = "class"
      <4>1. FieldsIf(h, o, d.class, f) /\ d.class \in DOMAIN Mro
        BY <3>1, <3>2, <3>4, FormsAssumption DEF ArmIf
      <4>2. FieldsIf(g, o, d.class, e)
        BY <2>6, <4>1
      <4>3. ArmIf(g, o, d, e)
        BY <2>2, <3>3, <3>4, <4>2 DEF ArmIf
      <4>4. QED
        BY <1>3, <2>2, <2>3, <2>8, <4>3 DEF ConformsIf
    <3>5. CASE d.form # "class" /\ h[s].kind = "dict"
      <4>1. /\ {Origin(h, k) : k \in DOMAIN h[o].of} = DOMAIN h[s].of
            /\ \A k \in DOMAIN h[o].of : /\ ShownIf(h, k, Origin(h, k), KeyOf(d), f)
                                         /\ ShownIf(h, h[o].of[k], h[s].of[Origin(h, k)], ValueOf(d), f)
        BY <3>1, <3>5 DEF ArmIf, EntriesIf, s
      <4>2. KeyOf(d) \in Forms /\ ValueOf(d) \in Forms
        BY <3>2, ArgumentIsForm
      <4>3. \A k \in DOMAIN h[o].of : /\ ShownIf(g, k, Origin(h, k), KeyOf(d), e)
                                      /\ ShownIf(g, h[o].of[k], h[s].of[Origin(h, k)], ValueOf(d), e)
        BY <2>1, <2>5, <3>5, <4>1, <4>2
      <4>4. \A k \in DOMAIN h[o].of : Origin(g, k) = Origin(h, k)
        BY <2>1, <2>4, <3>5
      <4>5. EntriesIf(g, o, d, e)
        BY <2>2, <2>3, <4>1, <4>3, <4>4 DEF EntriesIf
      <4>6. ArmIf(g, o, d, e)
        BY <2>2, <2>3, <3>3, <3>5, <4>5 DEF ArmIf
      <4>7. QED
        BY <1>3, <2>2, <2>3, <2>8, <4>6 DEF ConformsIf
    <3>6. CASE d.form # "class" /\ h[s].kind # "dict"
      <4>1. /\ DOMAIN h[o].of = DOMAIN h[s].of
            /\ \A i \in DOMAIN h[o].of : ShownIf(h, h[o].of[i], h[s].of[i], ItemOf(d), f)
        BY <3>1, <3>6 DEF ArmIf, ItemsIf, s
      <4>2. ItemOf(d) \in Forms
        BY <3>2, ArgumentIsForm
      <4>3. \A i \in DOMAIN h[o].of : ShownIf(g, h[o].of[i], h[s].of[i], ItemOf(d), e)
        BY <2>1, <2>5, <4>1, <4>2
      <4>4. ItemsIf(g, o, d, e)
        BY <2>2, <2>3, <4>1, <4>3 DEF ItemsIf
      <4>5. ArmIf(g, o, d, e)
        BY <2>2, <2>3, <3>3, <3>6, <4>4 DEF ArmIf
      <4>6. QED
        BY <1>3, <2>2, <2>3, <2>8, <4>5 DEF ConformsIf
    <3>7. QED
      BY <3>4, <3>5, <3>6
  <2>9. QED
    BY <2>7, <2>8
<1>4. QED
  BY <1>2, <1>3

\* A heap is one that has grown by nothing.
LEMMA GrowsByNothing ==
  ASSUME NEW h
  PROVE  Grows(h, h)
BY DEF Grows

\* What conforms, by what conforms of what it holds.
LEMMA ConformsEquation ==
  ASSUME NEW h, Objects(h), NEW o \in DOMAIN h, NEW a \in Forms
  PROVE  Conforms(h, o, a) <=>
           ConformsIf(h, o, a, [x \in (DOMAIN h) \X Forms |-> Conforms(h, x[1], x[2])])
<1> DEFINE X == (DOMAIN h) \X Forms
           E(f, x) == ConformsIf(h, x[1], x[2], f)
           chi(S) == [x \in X |-> x \in S]
           F == [S \in SUBSET X |-> {x \in X : E(chi(S), x)}]
           conforms == CHOOSE f : f = [x \in X |-> E(f, x)]
<1>1. \E S \in SUBSET X : F[S] = S
  <2>1. ASSUME NEW S \in SUBSET X, NEW T \in SUBSET X, S \subseteq T, NEW x \in X, E(chi(S), x)
        PROVE  E(chi(T), x)
    <3>1. \A p \in DOMAIN h : \A b \in Forms : chi(S)[<<p, b>>] => chi(T)[<<p, b>>]
      BY <2>1
    <3>2. x[1] \in DOMAIN h /\ x[2] \in Forms
      OBVIOUS
    <3> HIDE DEF chi
    <3>3. Grows(h, h)
      BY GrowsByNothing
    <3>4. QED
      BY <2>1, <3>1, <3>2, <3>3, ConformsMore
  <2> HIDE DEF E, chi
  <2>2. \A S, T \in SUBSET X : S \subseteq T => F[S] \subseteq F[T]
    BY <2>1
  <2>3. F \in [SUBSET X -> SUBSET X]
    OBVIOUS
  <2> HIDE DEF F, X
  <2>4. QED
    BY <2>2, <2>3, FixedPoint
<1>2. PICK S \in SUBSET X : F[S] = S
  BY <1>1
<1> DEFINE g == chi(S)
<1>3. ASSUME NEW x \in X
      PROVE  g[x] = E(g, x)
  <2>1. x \in S <=> E(g, x)
    <3> HIDE DEF E, chi
    <3>1. QED
      BY <1>2
  <2>2. E(g, x) \in BOOLEAN /\ (x \in S) \in BOOLEAN
    <3>1. PassedOnIf(h, x[1], x[2]) \in BOOLEAN
      BY DEF PassedOnIf
    <3> HIDE DEF g, X
    <3>2. (\E c \in ShownAs(h, h[x[1]].from, x[2]) : FieldsIf(h, x[1], c, g)) \in BOOLEAN
      OBVIOUS
    <3>3. (\E d \in Arms(x[2]) : ArmIf(h, x[1], d, g)) \in BOOLEAN
      OBVIOUS
    <3>4. ConformsIf(h, x[1], x[2], g) \in BOOLEAN
      BY <3>1, <3>2, <3>3 DEF ConformsIf
    <3>5. (x \in S) \in BOOLEAN
      OBVIOUS
    <3>6. QED
      BY <3>4, <3>5
  <2> HIDE DEF E
  <2>3. QED
    BY <2>1, <2>2, SameTruth
<1>4. g = [x \in X |-> E(g, x)]
  <2> HIDE DEF E
  <2>1. QED
    BY <1>3, Zenon
<1>5. conforms = [x \in X |-> E(conforms, x)]
  <2> HIDE DEF E, g
  <2>1. QED
    BY <1>4, Zenon
<1>6. \A p, b : Conforms(h, p, b) = conforms[<<p, b>>]
  BY DEF Conforms, ConformsIf, PassedOnIf, FieldsIf, ArmIf, EntriesIf, ItemsIf, ShownIf
<1> HIDE DEF conforms
<1>7. conforms = [x \in X |-> Conforms(h, x[1], x[2])]
  <2>1. \A x \in X : x = <<x[1], x[2]>>
    OBVIOUS
  <2>2. \A x \in X : conforms[x] = Conforms(h, x[1], x[2])
    BY <1>6, <2>1
  <2>3. conforms = [x \in X |-> conforms[x]]
    <3> HIDE DEF E
    <3>1. QED
      BY <1>5
  <2>4. QED
    BY <2>2, <2>3
<1>8. conforms[<<o, a>>] = ConformsIf(h, o, a, conforms)
  BY <1>5
<1>9. QED
  BY <1>6, <1>7, <1>8

\* What conforms still does when the heap grows.
LEMMA ConformsKept ==
  ASSUME NEW h, NEW g, Objects(h), Objects(g), Grows(h, g), SourceOf(g) = SourceOf(h)
  PROVE  \A o : InResult(h, o) => \A a \in Forms : Conforms(h, o, a) => Conforms(g, o, a)
<1> DEFINE T == {o \in Nat : InResult(h, o) => \A a \in Forms : Conforms(h, o, a) => Conforms(g, o, a)}
           f == [x \in (DOMAIN h) \X Forms |-> Conforms(h, x[1], x[2])]
           e == [x \in (DOMAIN g) \X Forms |-> Conforms(g, x[1], x[2])]
<1>1. ASSUME NEW o \in Nat, \A q \in Nat : q < o => q \in T
      PROVE  o \in T
  <2> SUFFICES ASSUME InResult(h, o), NEW a \in Forms, Conforms(h, o, a)
               PROVE  Conforms(g, o, a)
    OBVIOUS
  <2>1. o \in DOMAIN h /\ o \in DOMAIN g
    BY HeapFacts DEF Grows
  <2>2. \A p \in DOMAIN h : InResult(h, p) /\ p < o => \A b \in Forms : f[<<p, b>>] => e[<<p, b>>]
    <3> SUFFICES ASSUME NEW p \in DOMAIN h, InResult(h, p), p < o, NEW b \in Forms, f[<<p, b>>]
                 PROVE  e[<<p, b>>]
      OBVIOUS
    <3>1. p \in Nat /\ p \in DOMAIN g
      BY HeapFacts DEF Grows
    <3>2. p \in T
      BY <1>1, <3>1
    <3>3. QED
      BY <3>1, <3>2
  <2>3. ConformsIf(h, o, a, f)
    BY <2>1, ConformsEquation
  <2> HIDE DEF f, e
  <2>4. ConformsIf(g, o, a, e)
    BY <2>1, <2>2, <2>3, ConformsMore
  <2>5. QED
    BY <2>1, <2>4, ConformsEquation DEF e
<1>2. Nat \subseteq T
  <2> HIDE DEF T
  <2>1. QED
    BY <1>1, Induction
<1>3. \A o : InResult(h, o) => o \in Nat
  BY HeapFacts
<1>4. QED
  BY <1>2, <1>3

\* The origin of what stands for a source object is that object.
LEMMA OriginOf ==
  ASSUME NEW h, Objects(h), NEW o, NEW s \in SourceRefs, InResult(h, o), StandsFor(h, o, s)
  PROVE  Origin(h, o) = s
<1>1. o \in NewIn(h) => h[o].from = s /\ o \notin SourceRefs
  BY StandsForOne DEF NewIn
<1>2. o \notin NewIn(h) => o = s
  BY StandsForOne
<1>3. QED
  BY <1>1, <1>2 DEF Origin

-----------------------------------------------------------------------------
(* What a finished call has made conforms. *)

\* Every part conforms to its annotation.
PartsConform(h, c) == \A i \in DOMAIN c.done : Conforms(h, c.done[i], c.parts[i].annotation)
Conforming(h) == [x \in (DOMAIN h) \X Forms |-> Conforms(h, x[1], x[2])]

\* A finished call that has made an object, in the heap with it.
LEMMA FinishedParts ==
  ASSUME Good(heap, calls), NEW c, IsFinished(c), ~HandsOn(c), PartsConform(heap, c)
  PROVE  LET g == Grown(c) IN
         /\ Objects(g) /\ FirstNew \in DOMAIN g /\ FirstNew \notin SourceRefs
         /\ g[FirstNew] = Made(c) /\ g[FirstNew].from = c.object
         /\ c.object \in SourceRefs /\ g[c.object] = Source[c.object] /\ SourceOf(g) = Source
         /\ \A i \in DOMAIN c.done : /\ Origin(g, c.done[i]) = c.parts[i].object
                                     /\ ShownIf(g, c.done[i], c.parts[i].object, c.parts[i].annotation, Conforming(g))
<1> DEFINE g == Grown(c)
<1>1. /\ Source = SourceOf(heap) /\ c.object \in SourceRefs
      /\ \A i \in DOMAIN c.done : /\ InResult(heap, c.done[i]) /\ c.parts[i] \in Parts
                                  /\ StandsFor(heap, c.done[i], c.parts[i].object)
  BY FinishedCall
<1>2. /\ FirstNew \notin SourceRefs /\ DOMAIN g = DOMAIN heap \cup {FirstNew} /\ g[FirstNew] = Made(c)
      /\ Grows(heap, g) /\ SourceOf(g) = SourceOf(heap)
  BY GrownHeap
<1>3. Objects(g) /\ Objects(heap)
  BY GrownObjects DEF Good
<1>4. Made(c).from = c.object
  BY MadeObject
<1> HIDE DEF g
<1>5. g[c.object] = Source[c.object]
  <2>1. SourceOf(g)[c.object] = g[c.object]
    BY <1>1 DEF SourceOf
  <2>2. QED
    BY <1>1, <1>2, <2>1
<1>6. ASSUME NEW i \in DOMAIN c.done
      PROVE  /\ Origin(g, c.done[i]) = c.parts[i].object
             /\ ShownIf(g, c.done[i], c.parts[i].object, c.parts[i].annotation, Conforming(g))
  <2> DEFINE r == c.done[i]
             s == c.parts[i].object
             a == c.parts[i].annotation
  <2>1. InResult(heap, r) /\ StandsFor(heap, r, s) /\ s \in SourceRefs /\ a \in Forms
    BY <1>1 DEF Parts
  <2>2. Conforms(heap, r, a)
    BY DEF PartsConform
  <2> HIDE DEF r, s, a
  <2>3. InResult(g, r) /\ StandsFor(g, r, s) /\ r \in DOMAIN g
    BY <1>2, <1>3, <2>1, ResultGrows, HeapFacts
  <2>4. Origin(g, r) = s
    BY <1>3, <2>1, <2>3, OriginOf
  <2>5. Conforms(g, r, a)
    BY <1>2, <1>3, <2>1, <2>2, ConformsKept
  <2>6. Conforming(g)[<<r, a>>]
    BY <2>1, <2>3, <2>5 DEF Conforming
  <2>7. QED
    BY <2>4, <2>6 DEF ShownIf, r, s, a
<1>7. QED
  BY <1>1, <1>2, <1>3, <1>4, <1>5, <1>6 DEF g

\* A new structure shows the fields of the class it was taken apart as.
LEMMA FieldsShown ==
  ASSUME Good(heap, calls), NEW c, IsFinished(c), PartsConform(heap, c), Structure(Source, c) # NoClass
  PROVE  FieldsIf(Grown(c), FirstNew, Structure(Source, c), Conforming(Grown(c)))
<1> DEFINE g == Grown(c)
           e == Conforming(g)
           class == Structure(Source, c)
           names == Crossing(Source, c.object, class)
           v == Made(c)
           index(n) == CHOOSE i \in DOMAIN names : names[i] = n
<1>0. ~HandsOn(c)
  BY DEF HandsOn
<1>1. /\ Source \in Sources /\ PartOf(c) \in Parts /\ PartOf(c).object = c.object
      /\ Structure(Source, PartOf(c)) = class
      /\ c.parts = PartsOf(Source, PartOf(c)) /\ DOMAIN c.parts = DOMAIN c.done
  BY FinishedCall
<1>2. /\ ToSet(names) = (ToSet(Fields[class]) \ Omitted[class]) \cap DOMAIN Source[c.object].of
      /\ DOMAIN c.parts = DOMAIN names
      /\ \A i \in DOMAIN names : /\ c.parts[i].object = Source[c.object].of[names[i]]
                                 /\ c.parts[i].annotation = Declares[class][names[i]]
  <2> DEFINE p == PartOf(c)
             k == Structure(Source, p)
             N == Crossing(Source, p.object, k)
  <2>1. Structure(Source, p) # NoClass
    BY <1>1
  <2>2. /\ ToSet(N) = (ToSet(Fields[k]) \ Omitted[k]) \cap DOMAIN Source[p.object].of
        /\ DOMAIN PartsOf(Source, p) = DOMAIN N
        /\ \A i \in DOMAIN N : /\ PartsOf(Source, p)[i].object = Source[p.object].of[N[i]]
                               /\ PartsOf(Source, p)[i].annotation = Declares[k][N[i]]
    BY <1>1, <2>1, FieldPartsOf
  <2>3. k = class /\ p.object = c.object /\ N = names /\ PartsOf(Source, p) = c.parts
    BY <1>1
  <2> HIDE DEF p, k, N, class, names
  <2>4. QED
    BY <2>2, <2>3
<1>3. v = Object("dict", FieldsMade(names, c.done), c.hash, IF c.hash THEN {c.object} ELSE {}, c.object)
  BY DEF Made, MadeAs
<1>4. v.of = FieldsMade(names, c.done)
  BY <1>3, ObjectFields
<1>5. v.of = [n \in ToSet(names) |-> c.done[index(n)]]
  BY <1>4 DEF FieldsMade
<1>6. \A n \in ToSet(names) : index(n) \in DOMAIN names /\ names[index(n)] = n
  BY DEF ToSet
<1>7. /\ g[FirstNew] = v /\ v.from = c.object /\ g[c.object] = Source[c.object]
      /\ \A i \in DOMAIN c.done : ShownIf(g, c.done[i], c.parts[i].object, c.parts[i].annotation, e)
  BY <1>0, FinishedParts
<1> HIDE DEF g, e, v, names, index, class
<1>8. \A n \in ToSet(names) : ShownIf(g, v.of[n], Source[c.object].of[n], Declares[class][n], e)
  <2> TAKE n \in ToSet(names)
  <2> DEFINE i == index(n)
  <2>1. i \in DOMAIN c.done /\ names[i] = n /\ v.of[n] = c.done[i] /\ i \in DOMAIN names
    BY <1>1, <1>2, <1>5, <1>6
  <2> HIDE DEF i
  <2>2. c.parts[i].object = Source[c.object].of[n] /\ c.parts[i].annotation = Declares[class][n]
    BY <1>2, <2>1
  <2>3. QED
    BY <1>7, <2>1, <2>2
<1>9. DOMAIN v.of = ToSet(names)
  BY <1>5
<1>10. FieldsIf(g, FirstNew, class, e)
  BY <1>2, <1>7, <1>8, <1>9 DEF FieldsIf
<1>11. QED
  BY <1>10 DEF g, e, class

\* A new mapping shows the entries of the one it was made of.
LEMMA EntriesShown ==
  ASSUME Good(heap, calls), NEW c, IsFinished(c), PartsConform(heap, c),
         Structure(Source, c) = NoClass, Source[c.object].kind = "dict"
  PROVE  EntriesIf(Grown(c), FirstNew, Matching(Source, c.object, c.annotation), Conforming(Grown(c)))
<1> DEFINE g == Grown(c)
           e == Conforming(g)
           w == Source[c.object]
           d == Matching(Source, c.object, c.annotation)
           names == InOrder(DOMAIN w.of)
           keys == Keys(c.done)
           v == Made(c)
           index(k) == CHOOSE i \in DOMAIN keys : keys[i] = k
<1>0. ~HandsOn(c)
  BY DEF HandsOn, IsMapping
<1>1. /\ Source \in Sources /\ PartOf(c) \in Parts /\ PartOf(c).object = c.object
      /\ PartOf(c).annotation = c.annotation
      /\ Structure(Source, PartOf(c)) = NoClass
      /\ c.parts = PartsOf(Source, PartOf(c)) /\ DOMAIN c.parts = DOMAIN c.done
      /\ Len(c.done) = Len(c.parts)
  BY FinishedCall, CallFields DEF IsFinished
<1>2. PICK n \in Nat : EntriesOf(c.parts, Source, c.object, d, names, n)
  BY <1>1, EntryPartsOf, Zenon
<1>3. /\ DOMAIN names = 1 .. n /\ ToSet(names) = DOMAIN w.of
      /\ DOMAIN c.parts = 1 .. 2 * n
      /\ \A i \in 1 .. n : /\ c.parts[2 * i - 1] = Part(names[i], KeyOf(d), TRUE)
                           /\ c.parts[2 * i] = Part(w.of[names[i]], ValueOf(d), FALSE)
  BY <1>2 DEF EntriesOf
<1>4. PICK m \in Nat : /\ Alternating(c.parts, DOMAIN w.of, m)
                       /\ keys = [i \in 1 .. m |-> c.done[2 * i - 1]]
  BY FinishedMapping
<1>5. m = n
  <2>1. DOMAIN c.parts = 1 .. 2 * m
    BY <1>4 DEF Alternating
  <2>2. 1 .. 2 * m = 1 .. 2 * n
    BY <1>3, <2>1
  <2>3. \A i \in Nat \ {0} : i <= 2 * m <=> i <= 2 * n
    BY <1>2, <1>4, <2>2
  <2>4. QED
    BY <1>2, <1>4, <2>3
<1>6. v = Object("dict", EntriesMade(c.done), c.hash, {}, c.object)
  BY <1>1 DEF Made, MadeAs, IsMapping
<1>7. v.of = EntriesMade(c.done)
  BY <1>6, ObjectFields
<1>8. v.of = [k \in ToSet(keys) |-> c.done[2 * index(k)]]
  BY <1>7 DEF EntriesMade
<1>9. \A k \in ToSet(keys) : index(k) \in DOMAIN keys /\ keys[index(k)] = k
  BY DEF ToSet
<1>10. /\ g[FirstNew] = v /\ v.from = c.object /\ g[c.object] = w
       /\ \A i \in DOMAIN c.done : /\ Origin(g, c.done[i]) = c.parts[i].object
                                   /\ ShownIf(g, c.done[i], c.parts[i].object, c.parts[i].annotation, e)
  BY <1>0, FinishedParts
<1> HIDE DEF g, e, v, keys, names, index, d, w
<1>11. \A i \in 1 .. n : 2 * i - 1 \in DOMAIN c.done /\ 2 * i \in DOMAIN c.done
  BY <1>1, <1>2, <1>3
<1>12. ASSUME NEW i \in 1 .. n
       PROVE  /\ Origin(g, c.done[2 * i - 1]) = names[i]
              /\ ShownIf(g, c.done[2 * i - 1], names[i], KeyOf(d), e)
              /\ ShownIf(g, c.done[2 * i], w.of[names[i]], ValueOf(d), e)
  <2>1. /\ c.parts[2 * i - 1].object = names[i] /\ c.parts[2 * i - 1].annotation = KeyOf(d)
        /\ c.parts[2 * i].object = w.of[names[i]] /\ c.parts[2 * i].annotation = ValueOf(d)
    <3>1. c.parts[2 * i - 1] = Part(names[i], KeyOf(d), TRUE) /\ c.parts[2 * i] = Part(w.of[names[i]], ValueOf(d), FALSE)
      BY <1>3
    <3>2. /\ Part(names[i], KeyOf(d), TRUE).object = names[i]
          /\ Part(names[i], KeyOf(d), TRUE).annotation = KeyOf(d)
          /\ Part(w.of[names[i]], ValueOf(d), FALSE).object = w.of[names[i]]
          /\ Part(w.of[names[i]], ValueOf(d), FALSE).annotation = ValueOf(d)
      BY DEF Part
    <3>3. QED
      BY <3>1, <3>2, Zenon
  <2>2. 2 * i - 1 \in DOMAIN c.done /\ 2 * i \in DOMAIN c.done
    BY <1>11
  <2>3. /\ Origin(g, c.done[2 * i - 1]) = c.parts[2 * i - 1].object
        /\ ShownIf(g, c.done[2 * i - 1], c.parts[2 * i - 1].object, c.parts[2 * i - 1].annotation, e)
    BY <1>10, <2>2
  <2>4. ShownIf(g, c.done[2 * i], c.parts[2 * i].object, c.parts[2 * i].annotation, e)
    BY <1>10, <2>2
  <2>5. QED
    BY <2>1, <2>3, <2>4
<1>13. \A k \in DOMAIN v.of : /\ k \in ToSet(keys) /\ index(k) \in 1 .. n /\ k = c.done[2 * index(k) - 1]
                              /\ v.of[k] = c.done[2 * index(k)]
  BY <1>4, <1>5, <1>8, <1>9
<1>14. ASSUME NEW k \in DOMAIN v.of
       PROVE  /\ Origin(g, k) \in DOMAIN w.of
              /\ ShownIf(g, k, Origin(g, k), KeyOf(d), e)
              /\ ShownIf(g, v.of[k], w.of[Origin(g, k)], ValueOf(d), e)
  <2>1. index(k) \in 1 .. n /\ k = c.done[2 * index(k) - 1] /\ v.of[k] = c.done[2 * index(k)]
    BY <1>13
  <2>2. Origin(g, k) = names[index(k)]
    BY <1>12, <2>1
  <2>3. names[index(k)] \in DOMAIN w.of
    BY <1>3, <2>1 DEF ToSet
  <2>4. QED
    BY <1>12, <2>1, <2>2, <2>3
<1>15. ASSUME NEW s \in DOMAIN w.of
       PROVE  \E k \in DOMAIN v.of : Origin(g, k) = s
  <2>1. PICK i \in 1 .. n : names[i] = s
    BY <1>3 DEF ToSet
  <2>2. keys[i] = c.done[2 * i - 1] /\ i \in DOMAIN keys
    BY <1>4, <1>5
  <2>3. keys[i] \in DOMAIN v.of
    BY <1>8, <2>2 DEF ToSet
  <2>4. QED
    BY <1>12, <2>1, <2>2, <2>3
<1>16. {Origin(g, k) : k \in DOMAIN v.of} = DOMAIN w.of
  BY <1>14, <1>15
<1>17. EntriesIf(g, FirstNew, d, e)
  BY <1>10, <1>14, <1>16 DEF EntriesIf
<1>18. QED
  BY <1>17 DEF g, e, d

\* A new collection shows the items of the one it was made of.
LEMMA ItemsShown ==
  ASSUME Good(heap, calls), NEW c, IsFinished(c), PartsConform(heap, c),
         Structure(Source, c) = NoClass, Source[c.object].kind \in Collections
  PROVE  ItemsIf(Grown(c), FirstNew, Matching(Source, c.object, c.annotation), Conforming(Grown(c)))
<1> DEFINE g == Grown(c)
           e == Conforming(g)
           d == Matching(Source, c.object, c.annotation)
<1>0. ~HandsOn(c)
  BY DEF HandsOn, IsCollection
<1>1. /\ Source \in Sources /\ PartOf(c) \in Parts /\ PartOf(c).object = c.object
      /\ PartOf(c).annotation = c.annotation
      /\ Structure(Source, PartOf(c)) = NoClass
      /\ c.parts = PartsOf(Source, PartOf(c)) /\ DOMAIN c.parts = DOMAIN c.done
  BY FinishedCall, CallFields
<1>2. /\ DOMAIN c.parts = DOMAIN Source[c.object].of
      /\ \A i \in DOMAIN Source[c.object].of :
           c.parts[i].object = Source[c.object].of[i] /\ c.parts[i].annotation = ItemOf(d)
  BY <1>1, ItemPartsOf
<1>3. Made(c).of = c.done
  BY MadeOfCollection
<1>4. /\ g[FirstNew] = Made(c) /\ Made(c).from = c.object /\ g[c.object] = Source[c.object]
      /\ \A i \in DOMAIN c.done : ShownIf(g, c.done[i], c.parts[i].object, c.parts[i].annotation, e)
  BY <1>0, FinishedParts
<1> HIDE DEF g, e, d
<1>5. ItemsIf(g, FirstNew, d, e)
  <2>1. g[FirstNew].of = c.done /\ g[g[FirstNew].from].of = Source[c.object].of
    BY <1>3, <1>4
  <2>2. DOMAIN c.done = DOMAIN Source[c.object].of
    BY <1>1, <1>2
  <2>3. \A i \in DOMAIN c.done : ShownIf(g, c.done[i], Source[c.object].of[i], ItemOf(d), e)
    BY <1>2, <1>4, <2>2
  <2>4. QED
    BY <2>1, <2>2, <2>3, Zenon DEF ItemsIf
<1>6. QED
  BY <1>5 DEF g, e, d

\* What a call returns conforms to its annotation.
LEMMA ReturnedConforms ==
  ASSUME Good(heap, calls), NEW c, IsFinished(c), PartsConform(heap, c), Matches(Source, c.object, c.annotation)
  PROVE  Conforms(HeapAfter(c), Returned(c), c.annotation)
<1> DEFINE o == c.object
           a == c.annotation
           d == Matching(Source, o, a)
           class == Structure(Source, c)
<1>1. /\ Source \in Sources /\ Source = SourceOf(heap) /\ o \in SourceRefs /\ Guarded(Source, o) /\ a \in Forms
      /\ PartOf(c) \in Parts /\ PartOf(c).object = o /\ PartOf(c).annotation = a
      /\ Structure(Source, PartOf(c)) = class
  BY FinishedCall, CallFields
<1>2. /\ Source[o].kind \in Structures =>
           IF class # NoClass THEN class \in ShownAs(Source, o, a)
           ELSE Source[o].kind = "dataclass" /\ DeclaredClasses(Source, o, a) = {}
      /\ Source[o].kind \notin Structures =>
           IF class # NoClass THEN d.form = "class" /\ d.class = class ELSE d.form # "class"
  BY <1>1, StructureShown
<1>3. d \in Arms(a) /\ Matches(Source, o, d)
  BY <1>1, MatchingMatches
<1>4. CASE HandsOn(c)
  <2>1. heap[o].kind = "dataclass" /\ o \in DOMAIN heap
    BY <1>4, HandedOn
  <2>2. Source[o] = heap[o]
    BY <1>1 DEF SourceOf
  <2>3. DeclaredClasses(heap, o, a) = {}
    <3>1. class = NoClass
      BY <1>4 DEF HandsOn
    <3>2. DeclaredClasses(Source, o, a) = {}
      BY <1>2, <2>1, <2>2, <3>1 DEF Structures
    <3>3. QED
      BY <2>2, <3>2, SameClasses
  <2>4. ConformsIf(heap, o, a, Conforming(heap))
    BY <1>1, <2>1, <2>3 DEF ConformsIf, PassedOnIf
  <2>5. Conforms(heap, o, a)
    BY <1>1, <2>1, <2>4, ConformsEquation DEF Conforming, Good
  <2>6. QED
    BY <1>4, <2>5 DEF HeapAfter, Returned
<1>5. CASE ~HandsOn(c)
  <2> DEFINE g == Grown(c)
             e == Conforming(g)
  <2>1. /\ Objects(g) /\ FirstNew \in DOMAIN g /\ FirstNew \notin SourceRefs
        /\ g[FirstNew].from = o /\ g[o] = Source[o] /\ SourceOf(g) = Source
    BY <1>5, FinishedParts
  <2>2. class # NoClass => FieldsIf(g, FirstNew, class, e)
    BY FieldsShown
  <2>3. class = NoClass /\ Source[o].kind = "dict" => EntriesIf(g, FirstNew, d, e)
    BY EntriesShown
  <2>4. class = NoClass /\ Source[o].kind \in Collections => ItemsIf(g, FirstNew, d, e)
    BY ItemsShown
  <2>5. class = NoClass => Source[o].kind \in Collections \cup {"dict"}
    BY <1>5 DEF HandsOn, IsMapping, IsCollection
  <2>6. Collections \cap Structures = {} /\ "dict" \notin Collections /\ "dict" \notin Structures
    BY DEF Collections, Structures
  <2> HIDE DEF g, e, o, a, d, class
  <2>7. ASSUME Source[o].kind \in Structures
        PROVE  ConformsIf(g, FirstNew, a, e)
    <3>1. class # NoClass
      BY <2>5, <2>6, <2>7
    <3>2. class \in ShownAs(g, o, a)
      <4>1. class \in ShownAs(Source, o, a)
        BY <1>2, <2>7, <3>1
      <4>2. QED
        BY <2>1, <4>1, SameClasses
    <3>3. \E s \in ShownAs(g, o, a) : FieldsIf(g, FirstNew, s, e)
      BY <2>2, <3>1, <3>2
    <3>4. QED
      BY <2>1, <2>7, <3>3 DEF ConformsIf
  <2>8. ASSUME Source[o].kind \notin Structures
        PROVE  ConformsIf(g, FirstNew, a, e)
    <3>1. ArmIf(g, FirstNew, d, e)
      BY <1>2, <1>3, <2>1, <2>2, <2>3, <2>4, <2>5, <2>6, <2>8 DEF ArmIf
    <3>2. \E b \in Arms(a) : ArmIf(g, FirstNew, b, e)
      BY <1>3, <3>1
    <3>3. QED
      BY <2>1, <2>8, <3>2 DEF ConformsIf
  <2>9. ConformsIf(g, FirstNew, a, e)
    BY <2>7, <2>8
  <2>10. Conforms(g, FirstNew, a)
    BY <1>1, <2>1, <2>9, ConformsEquation DEF Conforming, e
  <2>11. QED
    BY <1>5, <2>10 DEF HeapAfter, Returned, g, a
<1>6. QED
  BY <1>4, <1>5

-----------------------------------------------------------------------------
(* What every payload shows. *)

\* Every object that is being extracted matches its annotation, and what was made of its
\* parts conforms to theirs.
Fits(h, S) ==
  \A k \in DOMAIN S : Matches(SourceOf(h), S[k].object, S[k].annotation) /\ PartsConform(h, S[k])
Fitting == Inv /\ Fits(heap, calls) /\ DeclaredOnly

\* A scalar that is passed on conforms.
LEMMA ScalarConforms ==
  ASSUME NEW h, Objects(h), NEW o \in SourceRefs, h[o].kind \in {"scalar", "none"}, NEW a \in Forms
  PROVE  Conforms(h, o, a)
<1>1. ConformsIf(h, o, a, Conforming(h))
  BY DEF ConformsIf, PassedOnIf
<1>2. o \in DOMAIN h
  BY HeapFacts
<1>3. QED
  BY <1>1, <1>2, ConformsEquation DEF Conforming

\* Calls fit when the innermost is given what conforms.
LEMMA GivenFits ==
  ASSUME NEW h, NEW S \in Seq(Calls), S # <<>>, Fits(h, S), NEW r \in Nat,
         Len(Last(S).done) < Len(Last(S).parts),
         Conforms(h, r, Last(S).parts[Len(Last(S).done) + 1].annotation)
  PROVE  Fits(h, Given(S, r))
<1> DEFINE n == Len(S)
           T == Given(S, r)
           m == Len(S[n].done)
<1>1. n \in Nat \ {0} /\ DOMAIN S = 1 .. n /\ n \in DOMAIN S /\ Last(S) = S[n] /\ \A k \in DOMAIN S : S[k] \in Calls
  <2>1. n \in Nat \ {0} /\ Last(S) = S[n]
    BY FrontOfStack
  <2>2. QED
    BY <2>1, SeqFacts
<1>2. /\ DOMAIN T = DOMAIN S
      /\ \A k \in DOMAIN S : /\ T[k].object = S[k].object /\ PartOf(T[k]) = PartOf(S[k]) /\ T[k].parts = S[k].parts
                             /\ k # n => T[k].done = S[k].done
      /\ T[n].done = Append(S[n].done, r) /\ T \in Seq(Calls)
  BY GivenCall
<1>3. \A k \in DOMAIN S : T[k] \in Calls
  BY <1>2, SeqFacts
<1> HIDE DEF T
<1>4. \A k \in DOMAIN S : T[k].annotation = S[k].annotation
  <2> TAKE k \in DOMAIN S
  <2>1. PartOf(T[k]).annotation = T[k].annotation /\ PartOf(S[k]).annotation = S[k].annotation
    BY <1>1, <1>3, CallFields
  <2>2. QED
    BY <1>2, <2>1
<1>5. /\ m \in Nat /\ DOMAIN S[n].done = 1 .. m /\ DOMAIN T[n].done = 1 .. m + 1
      /\ \A i \in 1 .. m : T[n].done[i] = S[n].done[i]
      /\ T[n].done[m + 1] = r
  <2>1. S[n].done \in Seq(Nat)
    BY <1>1, CallFields
  <2>2. QED
    BY <1>2, <2>1, Appended, SeqFacts
<1>6. PartsConform(h, T[n])
  <2> SUFFICES ASSUME NEW i \in 1 .. m + 1
               PROVE  Conforms(h, T[n].done[i], S[n].parts[i].annotation)
    BY <1>1, <1>2, <1>5 DEF PartsConform
  <2>1. CASE i = m + 1
    BY <1>1, <1>5, <2>1
  <2>2. CASE i # m + 1
    <3>1. i \in 1 .. m
      BY <1>5, <2>2
    <3>2. PartsConform(h, S[n])
      BY <1>1 DEF Fits
    <3>3. QED
      BY <1>5, <3>1, <3>2 DEF PartsConform
  <2>3. QED
    BY <2>1, <2>2
<1>7. ASSUME NEW k \in DOMAIN S, k # n
      PROVE  PartsConform(h, T[k])
  BY <1>2, <1>7 DEF PartsConform, Fits
<1>8. Fits(h, T)
  BY <1>2, <1>4, <1>6, <1>7 DEF Fits
<1>9. QED
  BY <1>8 DEF T

\* Calls fit without the innermost.
LEMMA FrontFits ==
  ASSUME NEW h, NEW S \in Seq(Calls), S # <<>>, Fits(h, S)
  PROVE  Fits(h, Front(S))
<1>1. /\ DOMAIN Front(S) = 1 .. Len(S) - 1 /\ Len(S) \in Nat \ {0} /\ \A i \in 1 .. Len(S) - 1 : Front(S)[i] = S[i]
  BY FrontOfStack
<1>2. DOMAIN S = 1 .. Len(S)
  BY SeqFacts
<1>3. \A i \in 1 .. Len(S) - 1 : i \in DOMAIN S
  BY <1>1, <1>2
<1> DEFINE F == Front(S)
<1>4. \A i \in DOMAIN F : i \in DOMAIN S /\ F[i] = S[i]
  BY <1>1, <1>3
<1> HIDE DEF F
<1>5. Fits(h, F)
  BY <1>4 DEF Fits
<1>6. QED
  BY <1>5 DEF F

\* Calls still fit when the heap grows.
LEMMA FitsKept ==
  ASSUME NEW h, NEW S, Good(h, S), Fits(h, S), NEW g, Objects(g), Grows(h, g), SourceOf(g) = SourceOf(h)
  PROVE  Fits(g, S)
<1> SUFFICES ASSUME NEW k \in DOMAIN S, NEW i \in DOMAIN S[k].done
             PROVE  Conforms(g, S[k].done[i], S[k].parts[i].annotation)
  BY DEF Fits, PartsConform
<1>1. Conforms(h, S[k].done[i], S[k].parts[i].annotation)
  BY DEF Fits, PartsConform
<1>2. InResult(h, S[k].done[i])
  BY DoneInHeap
<1>3. S[k].parts[i].annotation \in Forms
  <2>1. /\ S[k] \in Calls /\ S[k].parts \in Seq(Parts) /\ S[k].done \in Seq(Nat)
        /\ Len(S[k].done) <= Len(S[k].parts)
    BY SeqFacts, CallFields DEF Good, Stack
  <2>2. i \in 1 .. Len(S[k].parts)
    BY <2>1, SeqFacts
  <2>3. S[k].parts[i] \in Parts
    BY <2>1, <2>2, SeqFacts
  <2>4. QED
    BY <2>3 DEF Parts
<1>4. QED
  BY <1>1, <1>2, <1>3, ConformsKept DEF Good

\* The root is an instance of the class it is extracted as.
LEMMA InitFitting == Init => Fitting
<1> SUFFICES ASSUME Init
             PROVE  Fitting
  OBVIOUS
<1> DEFINE c == Call(RootPart, PartsOf(Source, RootPart))
<1>1. Inv
  BY InitInv
<1>2. /\ heap \in Sources /\ heap = [o \in SourceRefs |-> heap[o]] /\ Root \in SourceRefs
      /\ heap[Root].kind = "model" /\ RootClass \in ToSet(Mro[heap[Root].class]) /\ RootClass \in DOMAIN Mro
  BY SourcesAssumption DEF Init
<1>3. SourceOf(heap) = heap /\ Source = heap
  BY <1>2, Zenon DEF SourceOf, Source
<1>4. RootPart \in Parts /\ RootPart.object = Root /\ RootPart.annotation = Of(RootClass) /\ Of(RootClass) \in Forms
  BY <1>2, FormsAssumption DEF RootPart, Part, Parts
<1>5. Matches(heap, Root, Of(RootClass))
  <2>1. Of(RootClass).form = "class" /\ Of(RootClass).class = RootClass
    BY DEF Of, Form
  <2>2. IsInstance(heap, Root, RootClass)
    BY <1>2 DEF IsInstance, Structures
  <2>3. MatchesIf(heap, Root, Of(RootClass), [x \in SourceRefs \X Forms |-> Matches(heap, x[1], x[2])])
    BY <2>1, <2>2 DEF MatchesIf
  <2>4. QED
    BY <1>2, <1>4, <2>3, MatchesEquation
<1>6. PartsOf(Source, RootPart) \in Seq(Parts)
  BY <1>2, <1>3, <1>4, PartsAreParts
<1>7. c \in Calls /\ PartOf(c) = RootPart /\ c.done = <<>>
  BY <1>4, <1>6, CallIsForPart
<1>8. c.object = Root /\ c.annotation = Of(RootClass)
  BY <1>4, <1>7, CallFields
<1>9. calls = <<c>>
  BY DEF Init
<1> HIDE DEF c
<1>10. Fits(heap, calls)
  BY <1>3, <1>5, <1>7, <1>8, <1>9 DEF Fits, PartsConform
<1>11. DeclaredOnly
  BY DEF Init, DeclaredOnly
<1>12. QED
  BY <1>1, <1>10, <1>11 DEF Fitting

\* A part that is passed on.
LEMMA PassOnFitting == Fitting /\ PassOn => Fitting'
<1> SUFFICES ASSUME Fitting, PassOn
             PROVE  Fitting'
  OBVIOUS
<1> DEFINE p == NextPart
           r == p.object
<1>1. Inv /\ Inv' /\ Fits(heap, calls)
  BY PassOnInv DEF Fitting
<1>2. PartIsNext /\ ~Guarded(Source, r) /\ calls' = Given(calls, r) /\ UNCHANGED <<heap, active, outcome, result>>
  BY DEF PassOn
<1>3. /\ calls # <<>> /\ Good(heap, calls) /\ outcome = "running" /\ calls \in Seq(Calls)
      /\ Len(Last(calls).done) < Len(Last(calls).parts)
      /\ p = Last(calls).parts[Len(Last(calls).done) + 1]
      /\ p \in Parts /\ r \in SourceRefs /\ Source = SourceOf(heap) /\ Source \in Sources
  BY <1>1, <1>2, NextOne
<1>4. Source[r] = heap[r] /\ r \in Nat /\ p.annotation \in Forms
  BY <1>3, HeapFacts DEF Good, Parts
<1>5. heap[r].kind \in {"scalar", "none"}
  BY <1>2, <1>3, <1>4, SourceObject DEF Guarded
<1> HIDE DEF p, r
<1>6. Conforms(heap, r, p.annotation)
  BY <1>3, <1>4, <1>5, ScalarConforms DEF Good
<1>7. Fits(heap, Given(calls, r))
  BY <1>1, <1>3, <1>4, <1>6, GivenFits
<1>8. Fits(heap', calls')
  BY <1>2, <1>7
<1>9. DeclaredOnly'
  BY <1>2, <1>3 DEF DeclaredOnly
<1>10. QED
  BY <1>1, <1>8, <1>9 DEF Fitting

\* A part that is taken apart matches its annotation, as the object it is a part of does.
LEMMA EnterFitting == Validated /\ Fitting /\ Enter => Fitting'
<1> SUFFICES ASSUME Validated, Fitting, Enter
             PROVE  Fitting'
  OBVIOUS
<1> DEFINE p == NextPart
           c == Call(p, PartsOf(Source, p))
           q == PartOf(Last(calls))
           m == Len(Last(calls).done) + 1
<1>1. Inv /\ Inv' /\ Fits(heap, calls)
  BY EnterInv DEF Fitting
<1>2. PartIsNext /\ calls' = Append(calls, c) /\ UNCHANGED <<heap, outcome, result>>
  BY DEF Enter
<1>3. /\ calls # <<>> /\ Good(heap, calls) /\ outcome = "running" /\ calls \in Seq(Calls)
      /\ Len(Last(calls).done) < Len(Last(calls).parts)
      /\ p = Last(calls).parts[m]
      /\ p \in Parts /\ Source = SourceOf(heap) /\ Source \in Sources
  BY <1>1, <1>2, NextOne
<1>4. /\ Len(calls) \in DOMAIN calls /\ Last(calls) = calls[Len(calls)] /\ Last(calls) \in Calls
      /\ Last(calls).parts = PartsOf(Source, q)
  BY <1>3, LastCall
<1>5. /\ q \in Parts /\ q.object = Last(calls).object /\ q.annotation = Last(calls).annotation
      /\ Last(calls).parts \in Seq(Parts) /\ Last(calls).done \in Seq(Nat)
  BY <1>4, CallFields
<1>6. Matches(Source, q.object, q.annotation)
  BY <1>1, <1>3, <1>4, <1>5 DEF Fits
<1>7. m \in DOMAIN PartsOf(Source, q)
  BY <1>3, <1>4, <1>5, SeqFacts
<1>8. PartsOf(Source, p) \in Seq(Parts)
  BY <1>3, PartsAreParts
<1>9. c \in Calls /\ PartOf(c) = p /\ c.done = <<>>
  BY <1>3, <1>8, CallIsForPart
<1>10. c.object = p.object /\ c.annotation = p.annotation
  BY <1>9, CallFields
<1> HIDE DEF p, c, q, m
<1>11. Matches(Source, p.object, p.annotation)
  <2>1. \A i \in DOMAIN PartsOf(Source, q) : Matches(Source, PartsOf(Source, q)[i].object, PartsOf(Source, q)[i].annotation)
    BY <1>3, <1>5, <1>6, PartsMatch
  <2>2. QED
    BY <1>3, <1>4, <1>7, <2>1
<1>12. /\ DOMAIN calls' = 1 .. Len(calls) + 1 /\ calls'[Len(calls) + 1] = c
       /\ \A i \in 1 .. Len(calls) : calls'[i] = calls[i]
       /\ Len(calls) \in Nat /\ DOMAIN calls = 1 .. Len(calls)
  BY <1>2, <1>3, <1>9, Appended, SeqFacts
<1>13. PartsConform(heap, c)
  BY <1>9 DEF PartsConform
<1>14. Fits(heap, calls')
  <2> SUFFICES ASSUME NEW k \in DOMAIN calls'
               PROVE  Matches(SourceOf(heap), calls'[k].object, calls'[k].annotation) /\ PartsConform(heap, calls'[k])
    BY DEF Fits
  <2>1. CASE k = Len(calls) + 1
    BY <1>3, <1>10, <1>11, <1>12, <1>13, <2>1
  <2>2. CASE k # Len(calls) + 1
    <3>1. k \in DOMAIN calls /\ calls'[k] = calls[k]
      BY <1>12, <2>2
    <3>2. QED
      BY <1>1, <3>1 DEF Fits
  <2>3. QED
    BY <2>1, <2>2
<1>15. Fits(heap', calls')
  BY <1>2, <1>14
<1>16. DeclaredOnly'
  BY <1>2, <1>3 DEF DeclaredOnly
<1>17. QED
  BY <1>1, <1>15, <1>16 DEF Fitting

\* A call that returns.
LEMMA ReturnFitting == Fitting /\ Return => Fitting'
<1> SUFFICES ASSUME Fitting, Return
             PROVE  Fitting'
  OBVIOUS
<1> DEFINE c == Top
           r == Returned(c)
           g == HeapAfter(c)
           F == Front(calls)
           n == Len(calls)
<1>1. Inv /\ Inv' /\ Fits(heap, calls)
  BY ReturnInv DEF Fitting
<1>2. outcome = "running" /\ Len(c.done) = Len(c.parts) /\ ~Collapses(c)
  BY DEF Return, Finished
<1>3. Good(heap, calls) /\ calls # <<>>
  BY <1>1, <1>2 DEF Inv, Control
<1>4. IsFinished(c)
  BY <1>2, <1>3 DEF IsFinished, Top
<1>5. /\ heap' = g
      /\ n = 1 => calls' = <<>> /\ result' = r /\ outcome' = "extracted"
      /\ n # 1 => calls' = Given(F, r) /\ result' = result /\ outcome' = outcome
  BY DEF Return, HeapAfter, Returned
<1>6. /\ calls \in Seq(Calls) /\ n \in Nat \ {0} /\ DOMAIN calls = 1 .. n /\ n \in DOMAIN calls
      /\ c = calls[n] /\ c \in Calls /\ Source = SourceOf(heap)
  BY <1>3, <1>4, LastCall, FinishedCall DEF Top
<1>7. /\ SourceOf(g) = SourceOf(heap) /\ Objects(g) /\ Grows(heap, g)
  <2>1. CASE HandsOn(c)
    BY <1>3, <2>1, GrowsByNothing DEF HeapAfter, Good
  <2>2. CASE ~HandsOn(c)
    BY <1>3, <1>4, <2>2, GrownHeap, GrownObjects DEF HeapAfter
  <2>3. QED
    BY <2>1, <2>2
<1>8. Matches(Source, c.object, c.annotation) /\ PartsConform(heap, c)
  BY <1>1, <1>6 DEF Fits
<1>9. Conforms(g, r, c.annotation)
  BY <1>3, <1>4, <1>8, ReturnedConforms
<1>10. n # 1 => F \in Seq(Calls) /\ F # <<>> /\ r \in Nat
  BY <1>2, <1>3, <1>4, ReturnGood
<1>11. Fits(g, calls)
  BY <1>1, <1>3, <1>7, FitsKept
<1>12. Fits(g, F)
  BY <1>3, <1>6, <1>11, FrontFits
<1>13. c.annotation = PartOf(c).annotation
  BY <1>6, CallFields
<1>14. CASE n = 1
  <2>1. PartOf(c) = RootPart
    BY <1>3, <1>6, <1>14 DEF Good, Stack
  <2>2. RootPart.annotation = Of(RootClass)
    BY DEF RootPart, Part
  <2>3. Conforms(heap', result', Of(RootClass))
    BY <1>5, <1>9, <1>13, <1>14, <2>1, <2>2
  <2>4. Fits(heap', calls')
    BY <1>5, <1>14 DEF Fits
  <2>5. DeclaredOnly'
    BY <2>3 DEF DeclaredOnly
  <2>6. QED
    BY <1>1, <2>4, <2>5 DEF Fitting
<1>15. CASE n # 1
  <2>1. /\ Len(F) = n - 1 /\ Last(F) = F[n - 1] /\ F[n - 1] = calls[n - 1]
    <3>1. Len(F) = n - 1 /\ \A i \in 1 .. n - 1 : F[i] = calls[i]
      BY <1>3, <1>6, FrontOfStack
    <3>2. Last(F) = F[Len(F)] /\ n - 1 \in 1 .. n - 1
      BY <1>6, <1>10, <1>15, FrontOfStack
    <3>3. QED
      BY <3>1, <3>2
  <2>2. /\ Len(calls[n - 1].done) < Len(calls[n - 1].parts)
        /\ PartOf(c) = calls[n - 1].parts[Len(calls[n - 1].done) + 1]
    <3>1. n \in DOMAIN calls /\ n > 1 /\ c = calls[n] /\ Stack(SourceOf(heap), calls)
      BY <1>3, <1>6, <1>15 DEF Good
    <3> HIDE DEF c, n
    <3>2. QED
      BY <3>1 DEF Stack
  <2> HIDE DEF c, r, g, F, n
  <2>3. Conforms(g, r, Last(F).parts[Len(Last(F).done) + 1].annotation)
    BY <1>9, <1>13, <2>1, <2>2
  <2>4. Fits(g, Given(F, r))
    BY <1>10, <1>12, <1>15, <2>1, <2>2, <2>3, GivenFits
  <2>5. Fits(heap', calls')
    BY <1>5, <1>15, <2>4
  <2>6. DeclaredOnly'
    BY <1>2, <1>5, <1>15 DEF DeclaredOnly
  <2>7. QED
    BY <1>1, <2>5, <2>6 DEF Fitting
<1>16. QED
  BY <1>14, <1>15

\* An exception shows nothing.
LEMMA RaisedFitting == Fitting /\ (Raise \/ Collapse) => Fitting'
<1> SUFFICES ASSUME Fitting, Raise \/ Collapse
             PROVE  Fitting'
  OBVIOUS
<1>1. Inv'
  BY RaiseInv, CollapseInv DEF Fitting
<1>2. UNCHANGED <<heap, calls>> /\ outcome' # "extracted"
  BY DEF Raise, Collapse
<1>3. Fits(heap', calls')
  BY <1>2 DEF Fitting
<1>4. DeclaredOnly'
  BY <1>2 DEF DeclaredOnly
<1>5. QED
  BY <1>1, <1>3, <1>4 DEF Fitting

\* An exception that leaves a call.
LEMMA UnwindFitting == Fitting /\ Unwind => Fitting'
<1> SUFFICES ASSUME Fitting, Unwind
             PROVE  Fitting'
  OBVIOUS
<1>1. Inv /\ Inv' /\ Fits(heap, calls)
  BY UnwindInv DEF Fitting
<1>2. outcome = "raising" /\ calls' = Front(calls) /\ outcome' # "extracted" /\ heap' = heap
  BY DEF Unwind
<1>3. Good(heap, calls) /\ calls # <<>> /\ calls \in Seq(Calls)
  BY <1>1, <1>2, LastCall DEF Inv, Control
<1>4. Fits(heap, Front(calls))
  BY <1>1, <1>3, FrontFits
<1>5. Fits(heap', calls')
  BY <1>2, <1>4
<1>6. DeclaredOnly'
  BY <1>2 DEF DeclaredOnly
<1>7. QED
  BY <1>1, <1>5, <1>6 DEF Fitting

\* If the fields of structures hold what their classes declare, a payload shows of a source
\* what annotations declare, and nothing that only a subclass has.
THEOREM PayloadDeclared ==
  ASSUME Validated
  PROVE  ExtractionSpec => []DeclaredOnly
<1>1. Init => Fitting
  BY InitFitting
<1>2. Fitting /\ [Extract]_vars => Fitting'
  <2> SUFFICES ASSUME Fitting, [Extract]_vars
               PROVE  Fitting'
    OBVIOUS
  <2>1. CASE Extract
    BY <2>1, PassOnFitting, EnterFitting, ReturnFitting, RaisedFitting, UnwindFitting DEF Extract
  <2>2. CASE UNCHANGED vars
    BY <2>2 DEF vars, Fitting, Inv, Control, Source, New, DeclaredOnly
  <2>3. QED
    BY <2>1, <2>2
<1>3. Fitting => DeclaredOnly
  BY DEF Fitting
<1>4. QED
  BY <1>1, <1>2, <1>3, PTL DEF ExtractionSpec
================================================================================
