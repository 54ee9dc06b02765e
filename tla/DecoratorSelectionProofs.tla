---------------------- MODULE DecoratorSelectionProofs ----------------------
(***************************************************************************)
(* Theorems about the selections of decorated occurrences, for all         *)
(* families, dispatch sites, documents and callbacks of the root family:   *)
(* types; that what a selection says of its value is so; that nothing is   *)
(* overlooked; that a conversion that ends has converted every value; that *)
(* reordered values are accepted, and that what is accepted is apart.      *)
(*                                                                         *)
(* All but the types are proved for callbacks of embedded owners that      *)
(* leave the values in them in place (OwnerEdits = {}): they do not hold   *)
(* where such a callback lets values of two families change places.        *)
(*                                                                         *)
(* The inductive invariant is Typing (types, and a payload that is a tree) *)
(* and Kept: between the steps of the loop over the edges, the selections  *)
(* are consistent with the payload; while a callback works, what is known  *)
(* of the objects it was given still holds of them, wherever they are      *)
(* (Given); and while its result is reconciled, every selection whose      *)
(* group is reconciled is found, in the same owner, wherever that is now   *)
(* (Progress).                                                             *)
(***************************************************************************)
EXTENDS DecoratorSelection, FiniteSetTheorems, SequenceTheorems, TLAPS

-----------------------------------------------------------------------------
(* Numbers. *)

\* A set of natural numbers has a least element.
LEMMA NatMin ==
  ASSUME NEW T \in SUBSET Nat, T # {}
  PROVE  \E x \in T : \A y \in T : x <= y
<1> DEFINE R == OpToRel(<, Nat)
<1>1. IsWellFoundedOn(R, Nat)
  BY NatLessThanWellFounded, Zenon
<1>2. \A x, y \in Nat : x < y <=> <<x, y>> \in R
  BY DEF OpToRel
<1> HIDE DEF R
<1>3. PICK x \in T : \A y \in T : ~(<<y, x>> \in R)
  BY <1>1, WFMin
<1>4. x \in Nat /\ \A y \in T : y \in Nat /\ ~(y < x)
  BY <1>2, <1>3
<1>5. \A y \in T : x <= y
  BY <1>4
<1>6. QED
  BY <1>5

\* Induction over the natural numbers.
LEMMA NatInd ==
  ASSUME NEW S, 0 \in S, \A n \in Nat : n \in S => n + 1 \in S
  PROVE  Nat \subseteq S
<1> DEFINE T == Nat \ S
<1>1. SUFFICES ASSUME T # {}
               PROVE  FALSE
  OBVIOUS
<1>2. PICK x \in T : \A y \in T : x <= y
  BY <1>1, NatMin
<1>3. x # 0 /\ x - 1 \in Nat /\ (x - 1) + 1 = x
  OBVIOUS
<1>4. x - 1 \in S
  BY <1>2, <1>3
<1>5. QED
  BY <1>3, <1>4

-----------------------------------------------------------------------------
(* Locations. *)

\* What SubSeq gives of the beginning of a sequence.
LEMMA Beginning ==
  ASSUME NEW S, NEW s \in Seq(S), NEW n \in 0 .. Len(s)
  PROVE  /\ SubSeq(s, 1, n) \in Seq(S) /\ Len(SubSeq(s, 1, n)) = n
         /\ \A i \in 1 .. n : SubSeq(s, 1, n)[i] = s[i]
<1>1. \A i \in 1 .. n : s[i] \in S
  BY ElementOfSeq
<1>2. QED
  BY <1>1, SubSeqProperties, LenProperties

\* A sequence without its last element, and that element.
LEMMA FrontAndLast ==
  ASSUME NEW S, NEW s \in Seq(S), s # <<>>
  PROVE  /\ Len(s) \in Nat \ {0}
         /\ Front(s) \in Seq(S) /\ Len(Front(s)) = Len(s) - 1
         /\ \A i \in 1 .. Len(s) - 1 : Front(s)[i] = s[i]
         /\ Last(s) = s[Len(s)] /\ Last(s) \in S
<1>1. Len(s) \in Nat \ {0}
  BY EmptySeq
<1>2. Len(s) - 1 \in 0 .. Len(s) /\ Len(s) \in 1 .. Len(s)
  BY <1>1
<1>3. /\ Front(s) \in Seq(S) /\ Len(Front(s)) = Len(s) - 1
      /\ \A i \in 1 .. Len(s) - 1 : Front(s)[i] = s[i]
  BY <1>2, Beginning DEF Front
<1>4. Last(s) = s[Len(s)] /\ Last(s) \in S
  BY <1>2, ElementOfSeq DEF Last
<1>5. QED
  BY <1>1, <1>3, <1>4

\* Sequences with the same beginning and the same last element are the same.
LEMMA SameFrontAndLast ==
  ASSUME NEW S, NEW s \in Seq(S), NEW t \in Seq(S), s # <<>>, t # <<>>,
         Front(s) = Front(t), Last(s) = Last(t)
  PROVE  s = t
<1>1. Len(s) = Len(t) /\ Len(s) \in Nat \ {0}
  BY FrontAndLast
<1>2. \A i \in 1 .. Len(s) : s[i] = t[i]
  BY <1>1, FrontAndLast
<1>3. QED
  BY <1>1, <1>2, SeqEqual

\* One sequence begins another.
LEMMA PrefixMeans ==
  ASSUME NEW S, NEW s \in Seq(S), NEW t \in Seq(S)
  PROVE  IsPrefix(s, t) <=> Len(s) <= Len(t) /\ \A i \in 1 .. Len(s) : s[i] = t[i]
<1>1. Len(s) \in Nat /\ Len(t) \in Nat
  BY LenProperties
<1>2. CASE Len(s) <= Len(t)
  <2>1. Len(s) \in 0 .. Len(s) /\ Len(s) \in 0 .. Len(t)
    BY <1>1, <1>2
  <2>2. SubSeq(s, 1, Len(s)) \in Seq(S) /\ SubSeq(t, 1, Len(s)) \in Seq(S)
    BY <2>1, Beginning
  <2>3. /\ Len(SubSeq(s, 1, Len(s))) = Len(s) /\ Len(SubSeq(t, 1, Len(s))) = Len(s)
        /\ \A i \in 1 .. Len(s) : SubSeq(s, 1, Len(s))[i] = s[i] /\ SubSeq(t, 1, Len(s))[i] = t[i]
    BY <2>1, Beginning
  <2>4. SubSeq(s, 1, Len(s)) = SubSeq(t, 1, Len(s)) <=> \A i \in 1 .. Len(s) : s[i] = t[i]
    BY <2>2, <2>3, SeqEqual
  <2>5. QED
    BY <1>2, <2>4 DEF IsPrefix
<1>3. CASE ~(Len(s) <= Len(t))
  BY <1>3 DEF IsPrefix
<1>4. QED
  BY <1>2, <1>3

\* A strict beginning is one of all but the last element.
LEMMA PrefixOfFront ==
  ASSUME NEW S, NEW s \in Seq(S), NEW t \in Seq(S), t # <<>>
  PROVE  /\ IsPrefix(s, Front(t)) <=> IsStrictPrefix(s, t)
         /\ IsPrefix(s, t) <=> s = t \/ IsPrefix(s, Front(t))
<1>1. /\ Len(s) \in Nat /\ Len(t) \in Nat \ {0} /\ Front(t) \in Seq(S) /\ Len(Front(t)) = Len(t) - 1
      /\ \A i \in 1 .. Len(t) - 1 : Front(t)[i] = t[i]
  BY FrontAndLast, LenProperties
<1>2. IsPrefix(s, Front(t)) <=> Len(s) <= Len(t) - 1 /\ \A i \in 1 .. Len(s) : s[i] = Front(t)[i]
  BY <1>1, PrefixMeans
<1>3. IsPrefix(s, t) <=> Len(s) <= Len(t) /\ \A i \in 1 .. Len(s) : s[i] = t[i]
  BY PrefixMeans
<1>4. s = t <=> Len(s) = Len(t) /\ \A i \in 1 .. Len(s) : s[i] = t[i]
  BY SeqEqual
<1>5. IsPrefix(s, Front(t)) <=> Len(s) <= Len(t) - 1 /\ \A i \in 1 .. Len(s) : s[i] = t[i]
  BY <1>1, <1>2
<1>6. QED
  BY <1>1, <1>3, <1>4, <1>5 DEF IsStrictPrefix

\* Beginnings of beginnings.
LEMMA PrefixOfPrefix ==
  ASSUME NEW S, NEW s \in Seq(S), NEW t \in Seq(S), NEW u \in Seq(S), IsPrefix(s, t)
  PROVE  /\ IsPrefix(t, u) => IsPrefix(s, u)
         /\ IsPrefix(u, t) => IsPrefix(s, u) \/ IsPrefix(u, s)
         /\ Len(s) <= Len(t)
<1>1. Len(s) \in Nat /\ Len(t) \in Nat /\ Len(u) \in Nat
  BY LenProperties
<1>2. Len(s) <= Len(t) /\ \A i \in 1 .. Len(s) : s[i] = t[i]
  BY PrefixMeans
<1>3. ASSUME IsPrefix(t, u) PROVE IsPrefix(s, u)
  <2>1. Len(t) <= Len(u) /\ \A i \in 1 .. Len(t) : t[i] = u[i]
    BY <1>3, PrefixMeans
  <2>2. Len(s) <= Len(u) /\ \A i \in 1 .. Len(s) : s[i] = u[i]
    BY <1>1, <1>2, <2>1
  <2>3. QED
    BY <2>2, PrefixMeans
<1>4. ASSUME IsPrefix(u, t) PROVE IsPrefix(s, u) \/ IsPrefix(u, s)
  <2>1. Len(u) <= Len(t) /\ \A i \in 1 .. Len(u) : u[i] = t[i]
    BY <1>4, PrefixMeans
  <2>2. CASE Len(s) <= Len(u)
    <3>1. \A i \in 1 .. Len(s) : s[i] = u[i]
      BY <1>1, <1>2, <2>1, <2>2
    <3>2. QED
      BY <2>2, <3>1, PrefixMeans
  <2>3. CASE Len(u) <= Len(s)
    <3>1. \A i \in 1 .. Len(u) : u[i] = s[i]
      BY <1>1, <1>2, <2>1, <2>3
    <3>2. QED
      BY <2>3, <3>1, PrefixMeans
  <2>4. QED
    BY <1>1, <2>2, <2>3
<1>5. QED
  BY <1>2, <1>3, <1>4

\* Every sequence begins itself, and the empty one begins all.
LEMMA PrefixOfItself ==
  ASSUME NEW S, NEW s \in Seq(S)
  PROVE  IsPrefix(s, s) /\ IsPrefix(<<>>, s)
<1>1. IsPrefix(s, s)
  BY LenProperties, PrefixMeans
<1>2. ASSUME NEW e \in Seq(S), Len(e) = 0
      PROVE  IsPrefix(e, s)
  <2>1. IsPrefix(e, s) <=> Len(e) <= Len(s) /\ \A i \in 1 .. Len(e) : e[i] = s[i]
    BY PrefixMeans
  <2>2. Len(s) \in Nat
    BY LenProperties
  <2>3. QED
    BY <1>2, <2>1, <2>2
<1>3. <<>> \in Seq(S) /\ Len(<<>>) = 0
  BY EmptySeq
<1>4. QED
  BY <1>1, <1>2, <1>3, Zenon

\* What lies below a location, and the way back to it.
LEMMA PlaceUnder ==
  ASSUME NEW S, NEW l \in Seq(S), NEW m \in Seq(S), IsPrefix(l, m)
  PROVE  /\ Under(m, l) \in Seq(S)
         /\ l \o Under(m, l) = m
         /\ Under(m, l) = <<>> <=> m = l
<1>1. Len(l) \in Nat /\ Len(m) \in Nat /\ Len(l) <= Len(m) /\ \A i \in 1 .. Len(l) : l[i] = m[i]
  BY LenProperties, PrefixMeans
<1> DEFINE r == Under(m, l)
<1>2. \A i \in Len(l) + 1 .. Len(m) : m[i] \in S
  BY <1>1, ElementOfSeq
<1>3. Len(l) + 1 \in Int /\ Len(m) \in Int
  BY <1>1
<1>4. /\ r \in Seq(S) /\ Len(r) = IF Len(l) + 1 <= Len(m) THEN Len(m) - (Len(l) + 1) + 1 ELSE 0
      /\ \A i \in 1 .. Len(m) - (Len(l) + 1) + 1 : r[i] = m[Len(l) + 1 + i - 1]
  BY <1>2, <1>3, SubSeqProperties DEF Under
<1>5. Len(r) = Len(m) - Len(l) /\ \A i \in 1 .. Len(m) - Len(l) : r[i] = m[Len(l) + i]
  BY <1>1, <1>4
<1> HIDE DEF r
<1>6. /\ l \o r \in Seq(S) /\ Len(l \o r) = Len(l) + Len(r)
      /\ \A i \in 1 .. Len(l) + Len(r) : (l \o r)[i] = IF i <= Len(l) THEN l[i] ELSE r[i - Len(l)]
  BY <1>4, ConcatProperties
<1>7. Len(l \o r) = Len(m)
  BY <1>1, <1>5, <1>6
<1>8. ASSUME NEW i \in 1 .. Len(m) PROVE (l \o r)[i] = m[i]
  <2>1. CASE i <= Len(l)
    BY <1>1, <1>5, <1>6, <2>1
  <2>2. CASE ~(i <= Len(l))
    <3>1. i - Len(l) \in 1 .. Len(m) - Len(l) /\ Len(l) + (i - Len(l)) = i
      BY <1>1, <2>2
    <3>2. (l \o r)[i] = r[i - Len(l)]
      BY <1>1, <1>5, <1>6, <2>2
    <3>3. QED
      BY <1>5, <3>1, <3>2
  <2>3. QED
    BY <2>1, <2>2
<1>9. l \o r = m
  BY <1>6, <1>7, <1>8, SeqEqual
<1>10. r = <<>> <=> m = l
  <2>1. r = <<>> <=> Len(r) = 0
    BY <1>4, EmptySeq
  <2>2. m = l <=> Len(m) = Len(l)
    BY <1>1, SeqEqual
  <2>3. QED
    BY <1>1, <1>5, <2>1, <2>2
<1>11. QED
  BY <1>4, <1>9, <1>10 DEF r

\* A place below a location.
LEMMA PlaceBelow ==
  ASSUME NEW S, NEW l \in Seq(S), NEW r \in Seq(S)
  PROVE  /\ l \o r \in Seq(S) /\ Len(l \o r) = Len(l) + Len(r)
         /\ IsPrefix(l, l \o r) /\ Under(l \o r, l) = r
         /\ r # <<>> => Front(l \o r) = l \o Front(r)
<1>1. /\ l \o r \in Seq(S) /\ Len(l \o r) = Len(l) + Len(r)
      /\ \A i \in 1 .. Len(l) + Len(r) : (l \o r)[i] = IF i <= Len(l) THEN l[i] ELSE r[i - Len(l)]
  BY ConcatProperties
<1>2. Len(l) \in Nat /\ Len(r) \in Nat
  BY LenProperties
<1>3. IsPrefix(l, l \o r)
  <2>1. Len(l) <= Len(l \o r) /\ \A i \in 1 .. Len(l) : l[i] = (l \o r)[i]
    BY <1>1, <1>2
  <2>2. QED
    BY <1>1, <2>1, PrefixMeans
<1>4. Under(l \o r, l) = r
  <2>1. \A m \in Seq(S) : IsPrefix(l, m) => l \o Under(m, l) = m /\ Under(m, l) \in Seq(S)
    BY PlaceUnder
  <2>2. l \o Under(l \o r, l) = l \o r /\ Under(l \o r, l) \in Seq(S)
    BY <1>1, <1>3, <2>1, Zenon
  <2>3. QED
    BY <2>2, ConcatSimplifications
<1>5. ASSUME r # <<>> PROVE Front(l \o r) = l \o Front(r)
  <2>1. /\ Len(r) \in Nat \ {0} /\ Front(r) \in Seq(S) /\ Len(Front(r)) = Len(r) - 1
        /\ \A i \in 1 .. Len(r) - 1 : Front(r)[i] = r[i]
    BY <1>5, FrontAndLast
  <2>2. l \o r # <<>>
    <3>1. Len(<<>>) = 0
      BY EmptySeq
    <3>2. Len(l \o r) # 0
      BY <1>1, <1>2, <2>1
    <3>3. QED
      BY <3>1, <3>2
  <2>3. /\ Front(l \o r) \in Seq(S) /\ Len(Front(l \o r)) = Len(l \o r) - 1
        /\ \A i \in 1 .. Len(l \o r) - 1 : Front(l \o r)[i] = (l \o r)[i]
    BY <1>1, <2>2, FrontAndLast
  <2>4. /\ l \o Front(r) \in Seq(S) /\ Len(l \o Front(r)) = Len(l) + Len(Front(r))
        /\ \A i \in 1 .. Len(l) + Len(Front(r)) :
             (l \o Front(r))[i] = IF i <= Len(l) THEN l[i] ELSE Front(r)[i - Len(l)]
    BY <2>1, ConcatProperties
  <2>5. Len(Front(l \o r)) = Len(l \o Front(r)) /\ Len(Front(l \o r)) = Len(l) + Len(r) - 1
    BY <1>1, <1>2, <2>1, <2>3, <2>4
  <2>6. ASSUME NEW i \in 1 .. Len(l) + Len(r) - 1
        PROVE  Front(l \o r)[i] = (l \o Front(r))[i]
    <3>1. Front(l \o r)[i] = IF i <= Len(l) THEN l[i] ELSE r[i - Len(l)]
      <4>1. i \in 1 .. Len(l) + Len(r) /\ i \in 1 .. Len(l \o r) - 1
        BY <1>1, <1>2
      <4>2. QED
        BY <1>1, <2>3, <4>1
    <3>2. (l \o Front(r))[i] = IF i <= Len(l) THEN l[i] ELSE Front(r)[i - Len(l)]
      <4>1. i \in 1 .. Len(l) + Len(Front(r))
        BY <1>2, <2>1
      <4>2. QED
        BY <2>4, <4>1
    <3>3. ~(i <= Len(l)) => i - Len(l) \in 1 .. Len(r) - 1
      BY <1>2
    <3>4. QED
      BY <2>1, <3>1, <3>2, <3>3
  <2>7. QED
    BY <2>3, <2>4, <2>5, <2>6, SeqEqual
<1>6. QED
  BY <1>1, <1>3, <1>4, <1>5

-----------------------------------------------------------------------------
(* Payloads as trees. *)

\* The image of a finite set.
LEMMA FiniteImage ==
  ASSUME NEW f, IsFiniteSet(DOMAIN f)
  PROVE  /\ IsFiniteSet({f[x] : x \in DOMAIN f})
         /\ Cardinality({f[x] : x \in DOMAIN f}) <= Cardinality(DOMAIN f)
<1> DEFINE T == {f[x] : x \in DOMAIN f}
           g == [x \in DOMAIN f |-> f[x]]
<1>1. g \in Surjection(DOMAIN f, T)
  BY DEF Surjection
<1> HIDE DEF g, T
<1>2. IsFiniteSet(T) /\ Cardinality(T) <= Cardinality(DOMAIN f)
  BY <1>1, FS_Surjection
<1>3. QED
  BY <1>2 DEF T

\* The values of a payload or a branch.
Values(p) == {p[l] : l \in DOMAIN p}

\* A payload: the owners of values are there.
Tree(p) ==
  /\ IsFiniteSet(DOMAIN p)
  /\ DOMAIN p \subseteq Seq(Slots) \ {<<>>}
  /\ \A l \in DOMAIN p : Len(l) > 1 => Front(l) \in DOMAIN p

\* A branch begins with a value.
IsBranch(b) ==
  /\ IsFiniteSet(DOMAIN b)
  /\ DOMAIN b \subseteq Seq(Slots)
  /\ <<>> \in DOMAIN b
  /\ \A r \in DOMAIN b : r # <<>> => Front(r) \in DOMAIN b

\* A branch of a tree.
LEMMA BranchOfTree ==
  ASSUME NEW p, Tree(p), NEW l \in DOMAIN p
  PROVE  /\ IsBranch(Branch(p, l))
         /\ Values(Branch(p, l)) \subseteq Values(p)
         /\ \A r \in DOMAIN Branch(p, l) : l \o r \in DOMAIN p /\ Branch(p, l)[r] = p[l \o r]
<1> DEFINE below == Subtree(p, l)
           f == [m \in below |-> Under(m, l)]
           b == Branch(p, l)
<1>1. l \in Seq(Slots) /\ l # <<>> /\ below \subseteq DOMAIN p /\ below \subseteq Seq(Slots)
  BY DEF Tree, Subtree
<1>2. DOMAIN b = {Under(m, l) : m \in below} /\ \A r \in DOMAIN b : b[r] = p[l \o r]
  BY DEF Branch
<1>3. \A m \in below : Under(m, l) \in Seq(Slots) /\ l \o Under(m, l) = m /\ (Under(m, l) = <<>> <=> m = l)
  BY <1>1, PlaceUnder DEF Subtree
<1>4. IsFiniteSet(DOMAIN b)
  <2>1. IsFiniteSet(below)
    BY <1>1, FS_Subset DEF Tree
  <2>2. DOMAIN b = {f[m] : m \in DOMAIN f} /\ DOMAIN f = below
    BY <1>2
  <2> HIDE DEF b, f, below
  <2>3. QED
    BY <2>1, <2>2, FiniteImage
<1>5. l \in below
  BY <1>1, PrefixOfItself DEF Subtree
<1>6. <<>> \in DOMAIN b
  BY <1>2, <1>3, <1>5
<1>7. ASSUME NEW r \in DOMAIN b
      PROVE  /\ r \in Seq(Slots) /\ l \o r \in DOMAIN p /\ b[r] = p[l \o r]
             /\ r # <<>> => Front(r) \in DOMAIN b
  <2>1. PICK m \in below : r = Under(m, l)
    BY <1>2
  <2>2. r \in Seq(Slots) /\ l \o r = m
    BY <1>3, <2>1
  <2>3. ASSUME r # <<>> PROVE Front(r) \in DOMAIN b
    <3>1. Front(m) = l \o Front(r) /\ Front(r) \in Seq(Slots)
      BY <1>1, <2>2, <2>3, PlaceBelow, FrontAndLast
    <3>2. IsPrefix(l, Front(m)) /\ Under(Front(m), l) = Front(r)
      BY <1>1, <3>1, PlaceBelow
    <3>3. Len(m) > 1
      <4>1. Len(m) = Len(l) + Len(r) /\ Len(l) \in Nat \ {0} /\ Len(r) \in Nat \ {0}
        BY <1>1, <2>2, <2>3, PlaceBelow, EmptySeq
      <4>2. QED
        BY <4>1
    <3>4. Front(m) \in below
      BY <1>1, <3>2, <3>3 DEF Tree, Subtree
    <3>5. QED
      BY <1>2, <3>2, <3>4
  <2>4. QED
    BY <1>1, <1>2, <2>2, <2>3
<1> HIDE DEF b
<1>8. IsBranch(b) /\ Values(b) \subseteq Values(p)
  BY <1>4, <1>6, <1>7 DEF IsBranch, Values
<1>9. QED
  BY <1>7, <1>8 DEF b

\* A branch that is put into a tree.
LEMMA GraftOfTree ==
  ASSUME NEW p, Tree(p), NEW b, IsBranch(b), NEW l \in Seq(Slots) \ {<<>>},
         Len(l) > 1 => Front(l) \in DOMAIN p
  PROVE  /\ Tree(Grafted(p, l, b))
         /\ Values(Grafted(p, l, b)) \subseteq Values(p) \cup Values(b)
         /\ \A r \in DOMAIN b : l \o r \in DOMAIN Grafted(p, l, b) /\ Grafted(p, l, b)[l \o r] = b[r]
         /\ \A m \in Seq(Slots) : ~IsPrefix(l, m) =>
              (m \in DOMAIN Grafted(p, l, b) <=> m \in DOMAIN p)
         /\ \A m \in DOMAIN Grafted(p, l, b) :
              m \in DOMAIN p \/ \E r \in DOMAIN b : m = l \o r
<1> DEFINE q == Grafted(p, l, b)
           rest == DOMAIN p \ Subtree(p, l)
           new == {l \o r : r \in DOMAIN b}
           f == [r \in DOMAIN b |-> l \o r]
<1>1. DOMAIN q = rest \cup new /\ \A m \in DOMAIN q : q[m] = IF IsPrefix(l, m) THEN b[Under(m, l)] ELSE p[m]
  BY DEF Grafted
<1>2. \A r \in DOMAIN b : /\ l \o r \in Seq(Slots) /\ l \o r # <<>> /\ IsPrefix(l, l \o r)
                          /\ Under(l \o r, l) = r /\ (r # <<>> => Front(l \o r) = l \o Front(r))
  <2>1. TAKE r \in DOMAIN b
  <2>2. r \in Seq(Slots)
    BY DEF IsBranch
  <2>3. Len(l \o r) = Len(l) + Len(r) /\ Len(l) \in Nat \ {0} /\ Len(r) \in Nat /\ Len(<<>>) = 0
    BY <2>2, PlaceBelow, EmptySeq, LenProperties
  <2>4. QED
    BY <2>2, <2>3, PlaceBelow
<1>3. \A m \in rest : m \in Seq(Slots) /\ m # <<>> /\ ~IsPrefix(l, m) /\ m \in DOMAIN p
  BY DEF Tree, Subtree
<1>4. \A r \in DOMAIN b : l \o r \in DOMAIN q /\ q[l \o r] = b[r]
  BY <1>1, <1>2
<1>5. \A m \in rest : m \in DOMAIN q /\ q[m] = p[m]
  BY <1>1, <1>3
<1>6. Values(q) \subseteq Values(p) \cup Values(b)
  <2>1. ASSUME NEW m \in DOMAIN q
        PROVE  q[m] \in Values(p) \cup Values(b)
    <3>1. m \in rest \/ \E r \in DOMAIN b : m = l \o r
      BY <1>1
    <3> HIDE DEF q, rest
    <3>2. QED
      BY <1>3, <1>4, <1>5, <3>1 DEF Values
  <2> HIDE DEF q
  <2>2. QED
    BY <2>1 DEF Values
<1>7. IsFiniteSet(DOMAIN q)
  <2>1. new = {f[r] : r \in DOMAIN f} /\ DOMAIN f = DOMAIN b
    OBVIOUS
  <2>2. IsFiniteSet(DOMAIN b) /\ IsFiniteSet(rest)
    BY FS_Subset DEF IsBranch, Tree
  <2> HIDE DEF f, new, rest, q
  <2>3. IsFiniteSet(new)
    BY <2>1, <2>2, FiniteImage
  <2>4. QED
    BY <1>1, <2>2, <2>3, FS_Union
<1>8. ASSUME NEW m \in DOMAIN q, Len(m) > 1
      PROVE  Front(m) \in DOMAIN q
  <2>1. CASE m \in rest
    <3>1. Front(m) \in DOMAIN p /\ m \in Seq(Slots) /\ m # <<>>
      BY <1>3, <1>8, <2>1 DEF Tree
    <3>2. Front(m) \in Seq(Slots) /\ ~IsPrefix(l, Front(m))
      BY <1>3, <2>1, <3>1, PrefixOfFront, FrontAndLast
    <3>3. QED
      BY <1>1, <3>1, <3>2 DEF Subtree
  <2>2. CASE m \in new
    <3>1. PICK r \in DOMAIN b : m = l \o r
      BY <2>2
    <3>2. CASE r # <<>>
      BY <1>2, <1>4, <3>1, <3>2 DEF IsBranch
    <3>3. CASE r = <<>>
      <4>1. m = l
        BY <3>1, <3>3, ConcatEmptySeq
      <4>2. Front(l) \in DOMAIN p /\ Front(l) \in Seq(Slots)
        BY <1>8, <4>1, FrontAndLast
      <4>3. ~IsPrefix(l, Front(l))
        BY PrefixOfFront DEF IsStrictPrefix
      <4>4. QED
        BY <1>1, <4>1, <4>2, <4>3 DEF Subtree
    <3>4. QED
      BY <3>2, <3>3
  <2>3. QED
    BY <1>1, <2>1, <2>2
<1>9. Tree(q)
  <2>1. ASSUME NEW m \in DOMAIN q
        PROVE  m \in Seq(Slots) /\ m # <<>>
    <3>1. m \in rest \/ \E r \in DOMAIN b : m = l \o r
      BY <1>1
    <3> HIDE DEF q, rest
    <3>2. QED
      BY <1>2, <1>3, <3>1
  <2> HIDE DEF q
  <2>2. QED
    BY <1>7, <1>8, <2>1 DEF Tree
<1>10. ASSUME NEW m \in Seq(Slots), ~IsPrefix(l, m)
       PROVE  m \in DOMAIN q <=> m \in DOMAIN p
  <2>1. m \notin new
    BY <1>2, <1>10
  <2>2. m \in rest <=> m \in DOMAIN p
    BY <1>10 DEF Subtree
  <2> HIDE DEF q, rest, new
  <2>3. QED
    BY <1>1, <2>1, <2>2
<1>11. \A m \in DOMAIN q : m \in DOMAIN p \/ \E r \in DOMAIN b : m = l \o r
  BY <1>1, <1>3
<1>12. QED
  BY <1>4, <1>6, <1>9, <1>10, <1>11

\* A tree without one of its branches, where the items after it have moved up.
LEMMA WithoutFromTree ==
  ASSUME NEW p, Tree(p), NEW l \in DOMAIN p
  PROVE  /\ Tree(Without(p, l))
         /\ Values(Without(p, l)) \subseteq Values(p)
         /\ \A m \in DOMAIN Without(p, l) : \E x \in DOMAIN p : Len(x) = Len(m)
<1> DEFINE n == Len(l)
           Later(m) == /\ Kind[SiteOf(l)] = "list"
                       /\ Len(m) >= n /\ Front(SubSeq(m, 1, n)) = Front(l)
                       /\ m[n][1] = l[n][1] /\ m[n][2] > l[n][2]
           Up(m) == IF Later(m) THEN [m EXCEPT ![n][2] = @ - 1] ELSE m
           rest == DOMAIN p \ Subtree(p, l)
           q == Without(p, l)
           f == [x \in rest |-> Up(x)]
<1>1. q = [m \in {Up(x) : x \in rest} |-> p[CHOOSE x \in rest : Up(x) = m]]
  BY DEF Without
<1>2. l \in Seq(Slots) /\ n \in Nat \ {0}
  BY EmptySeq DEF Tree
<1>3. \A m \in rest : m \in DOMAIN p /\ m \in Seq(Slots) /\ m # <<>> /\ ~IsPrefix(l, m)
  BY DEF Tree, Subtree
<1>4. \A x \in Slots : x[2] \in 1 .. MaxItems /\ x = <<x[1], x[2]>> /\ x[1] \in Sites
  BY DEF Slots
<1>5. ASSUME NEW m \in Seq(Slots), m # <<>>, Later(m)
      PROVE  /\ Up(m) \in Seq(Slots) /\ Len(Up(m)) = Len(m) /\ n \in 1 .. Len(m)
             /\ \A j \in 1 .. Len(m) : Up(m)[j] = IF j = n THEN <<m[n][1], m[n][2] - 1>> ELSE m[j]
  <2>1. n \in 1 .. Len(m)
    BY <1>2, <1>5, LenProperties
  <2>2. m[n] \in Slots /\ l[n] \in Slots
    BY <1>2, <2>1, ElementOfSeq
  <2> DEFINE e == <<m[n][1], m[n][2] - 1>>
  <2>3. m[n][2] - 1 \in 1 .. MaxItems /\ m[n][1] \in Sites
    BY <1>4, <1>5, <2>2, BoundsAssumption DEF BoundsAssumption
  <2>4. e \in Slots
    BY <2>3 DEF Slots
  <2>5. Up(m) = [m EXCEPT ![n] = e]
    <3>1. Up(m) = [m EXCEPT ![n] = [m[n] EXCEPT ![2] = m[n][2] - 1]]
      BY <1>5
    <3>2. [m[n] EXCEPT ![2] = m[n][2] - 1] = e
      <4>1. PICK a, c : m[n] = <<a, c>>
        BY <1>4, <2>2
      <4>2. QED
        BY <4>1
    <3>3. QED
      BY <3>1, <3>2
  <2> HIDE DEF e, Up, Later
  <2>6. Up(m) \in Seq(Slots) /\ Len(Up(m)) = Len(m)
        /\ \A j \in 1 .. Len(m) : Up(m)[j] = IF j = n THEN e ELSE m[j]
    BY <2>1, <2>4, <2>5, ExceptSeq
  <2>7. QED
    BY <2>1, <2>6 DEF e
<1>6. \A m \in rest : Up(m) \in Seq(Slots) /\ Len(Up(m)) = Len(m) /\ Up(m) # <<>>
  <2>1. TAKE m \in rest
  <2>2. Up(m) \in Seq(Slots) /\ Len(Up(m)) = Len(m)
    BY <1>3, <1>5
  <2>3. Len(m) # 0
    BY <1>3, EmptySeq
  <2> HIDE DEF Up
  <2>4. Up(m) # <<>>
    BY <2>2, <2>3, EmptySeq
  <2>5. QED
    BY <2>2, <2>4
<1>7. ASSUME NEW x \in rest, Len(x) > 1
      PROVE  Front(x) \in rest /\ Front(Up(x)) = Up(Front(x))
  <2>1. /\ x \in Seq(Slots) /\ x # <<>> /\ Len(x) \in Nat \ {0}
        /\ Front(x) \in Seq(Slots) /\ Len(Front(x)) = Len(x) - 1
        /\ \A j \in 1 .. Len(x) - 1 : Front(x)[j] = x[j]
    BY <1>3, FrontAndLast
  <2>2. Front(x) \in DOMAIN p /\ ~IsPrefix(l, Front(x))
    BY <1>2, <1>3, <1>7, <2>1, PrefixOfFront DEF Tree
  <2>3. Front(x) \in rest
    BY <2>2 DEF Subtree
  <2>4. Front(x) # <<>>
    BY <1>3, <2>3
  <2>5. ASSUME n <= Len(x) - 1
        PROVE  Later(Front(x)) <=> Later(x)
    <3>1. n \in 0 .. Len(Front(x)) /\ n \in 0 .. Len(x)
      BY <1>2, <2>1, <2>5
    <3>2. /\ SubSeq(x, 1, n) \in Seq(Slots) /\ Len(SubSeq(x, 1, n)) = n
          /\ \A i \in 1 .. n : SubSeq(x, 1, n)[i] = x[i]
      BY <2>1, <3>1, Beginning
    <3>3. /\ SubSeq(Front(x), 1, n) \in Seq(Slots) /\ Len(SubSeq(Front(x), 1, n)) = n
          /\ \A i \in 1 .. n : SubSeq(Front(x), 1, n)[i] = Front(x)[i]
      BY <2>1, <3>1, Beginning
    <3>4. \A i \in 1 .. n : SubSeq(Front(x), 1, n)[i] = SubSeq(x, 1, n)[i]
      BY <1>2, <2>1, <2>5, <3>2, <3>3
    <3>5. SubSeq(Front(x), 1, n) = SubSeq(x, 1, n)
      BY <3>2, <3>3, <3>4, SeqEqual
    <3>6. Front(x)[n] = x[n]
      BY <1>2, <2>1, <2>5
    <3>7. Len(Front(x)) >= n /\ Len(x) >= n
      BY <1>2, <2>1, <2>5
    <3>8. QED
      BY <3>5, <3>6, <3>7
  <2>6. Later(Front(x)) => n <= Len(x) - 1
    BY <2>1
  <2>7. CASE ~Later(x)
    <3>1. ~Later(Front(x))
      <4> HIDE DEF Later
      <4>1. QED
        BY <2>5, <2>6, <2>7
    <3>2. QED
      BY <2>3, <2>7, <3>1
  <2>8. CASE Later(x)
    <3>1. /\ Up(x) \in Seq(Slots) /\ Len(Up(x)) = Len(x) /\ n \in 1 .. Len(x)
          /\ \A j \in 1 .. Len(x) : Up(x)[j] = IF j = n THEN <<x[n][1], x[n][2] - 1>> ELSE x[j]
      BY <1>5, <2>1, <2>8
    <3>2. Up(x) # <<>>
      BY <1>6
    <3>3. /\ Front(Up(x)) \in Seq(Slots) /\ Len(Front(Up(x))) = Len(x) - 1
          /\ \A j \in 1 .. Len(x) - 1 : Front(Up(x))[j] = Up(x)[j]
      <4> HIDE DEF Up
      <4>1. QED
        BY <3>1, <3>2, FrontAndLast
    <3>4. CASE n <= Len(x) - 1
      <4>1. /\ Up(Front(x)) \in Seq(Slots) /\ Len(Up(Front(x))) = Len(x) - 1
            /\ \A j \in 1 .. Len(x) - 1 :
                 Up(Front(x))[j] = IF j = n THEN <<Front(x)[n][1], Front(x)[n][2] - 1>> ELSE Front(x)[j]
        BY <1>5, <2>1, <2>4, <2>5, <2>8, <3>4
      <4>2. Front(x)[n] = x[n]
        BY <1>2, <2>1, <3>4
      <4>3. \A j \in 1 .. Len(x) - 1 : Front(Up(x))[j] = Up(Front(x))[j]
        <5> TAKE j \in 1 .. Len(x) - 1
        <5>1. j \in 1 .. Len(x) /\ Front(x)[j] = x[j]
          BY <2>1
        <5> HIDE DEF Up, Later
        <5>2. Front(Up(x))[j] = IF j = n THEN <<x[n][1], x[n][2] - 1>> ELSE x[j]
          BY <3>1, <3>3, <5>1
        <5>3. Up(Front(x))[j] = IF j = n THEN <<x[n][1], x[n][2] - 1>> ELSE x[j]
          BY <4>1, <4>2, <5>1
        <5>4. QED
          BY <5>2, <5>3
      <4> HIDE DEF Up, Later
      <4>4. QED
        BY <2>3, <3>3, <4>1, <4>3, SeqEqual
    <3>5. CASE ~(n <= Len(x) - 1)
      <4>1. Up(Front(x)) = Front(x)
        BY <2>6, <3>5
      <4>2. \A j \in 1 .. Len(x) - 1 : Front(Up(x))[j] = Front(x)[j]
        <5>1. \A j \in 1 .. Len(x) - 1 : j # n /\ j \in 1 .. Len(x)
          BY <1>2, <2>1, <3>1, <3>5
        <5> HIDE DEF Up, Later
        <5>2. QED
          BY <2>1, <3>1, <3>3, <5>1
      <4> HIDE DEF Up, Later
      <4>3. QED
        BY <2>1, <2>3, <3>3, <4>1, <4>2, SeqEqual
    <3>6. QED
      BY <3>4, <3>5
  <2>9. QED
    BY <2>3, <2>7, <2>8
<1>8. DOMAIN q = {Up(x) : x \in rest}
  BY <1>1
<1>9. \A m \in DOMAIN q : \E x \in rest : m = Up(x) /\ q[m] = p[x]
  BY <1>1
<1>10. IsFiniteSet(DOMAIN q)
  <2>1. IsFiniteSet(rest)
    BY FS_Subset DEF Tree
  <2>2. DOMAIN q = {f[x] : x \in DOMAIN f} /\ DOMAIN f = rest
    BY <1>8
  <2> HIDE DEF q, f, rest
  <2>3. QED
    BY <2>1, <2>2, FiniteImage
<1> HIDE DEF q, Up, Later, rest
<1>11. DOMAIN q \subseteq Seq(Slots) \ {<<>>}
  BY <1>6, <1>9
<1>12. ASSUME NEW m \in DOMAIN q, Len(m) > 1
       PROVE  Front(m) \in DOMAIN q
  <2>1. PICK x \in rest : m = Up(x)
    BY <1>9
  <2>2. Len(x) > 1
    BY <1>6, <1>12, <2>1
  <2>3. Front(m) = Up(Front(x)) /\ Front(x) \in rest
    BY <1>7, <2>1, <2>2
  <2>4. QED
    BY <1>8, <2>3
<1>13. Tree(q)
  BY <1>10, <1>11, <1>12 DEF Tree
<1>14. Values(q) \subseteq Values(p)
  BY <1>3, <1>9 DEF Values
<1>15. \A m \in DOMAIN q : \E x \in DOMAIN p : Len(x) = Len(m)
  BY <1>3, <1>6, <1>9
<1>16. QED
  BY <1>13, <1>14, <1>15 DEF q

\* A tree with two branches exchanged.
LEMMA SwappedInTree ==
  ASSUME NEW p, Tree(p), NEW l \in DOMAIN p, NEW m \in DOMAIN p,
         ~IsPrefix(l, m) \/ Front(l) = Front(m)
  PROVE  /\ Tree(Swapped(p, l, m))
         /\ Values(Swapped(p, l, m)) \subseteq Values(p)
         /\ Len(l) = Len(m) =>
              \A x \in DOMAIN Swapped(p, l, m) : \E y \in DOMAIN p : Len(y) = Len(x)
<1> DEFINE q == Grafted(p, l, Branch(p, m))
           b == Branch(p, l)
           c == Branch(p, m)
<1>1. l \in Seq(Slots) \ {<<>>} /\ m \in Seq(Slots) \ {<<>>}
      /\ (Len(l) > 1 => Front(l) \in DOMAIN p) /\ (Len(m) > 1 => Front(m) \in DOMAIN p)
  BY DEF Tree
<1>2. /\ IsBranch(c) /\ Values(c) \subseteq Values(p)
      /\ \A r \in DOMAIN c : m \o r \in DOMAIN p
  BY BranchOfTree
<1>3. /\ IsBranch(b) /\ Values(b) \subseteq Values(p)
      /\ \A r \in DOMAIN b : l \o r \in DOMAIN p
  BY BranchOfTree
<1> HIDE DEF b, c
<1>4. /\ Tree(q) /\ Values(q) \subseteq Values(p) \cup Values(c)
      /\ \A x \in Seq(Slots) : ~IsPrefix(l, x) => (x \in DOMAIN q <=> x \in DOMAIN p)
      /\ \A x \in DOMAIN q : x \in DOMAIN p \/ \E r \in DOMAIN c : x = l \o r
  BY <1>1, <1>2, GraftOfTree DEF c
<1>5. ~IsPrefix(l, Front(m)) /\ Front(m) \in Seq(Slots)
  <2>1. Front(m) \in Seq(Slots)
    BY <1>1, FrontAndLast
  <2>2. CASE ~IsPrefix(l, m)
    BY <1>1, <2>1, <2>2, PrefixOfFront
  <2>3. CASE Front(l) = Front(m)
    BY <1>1, <2>1, <2>3, PrefixOfFront DEF IsStrictPrefix
  <2>4. QED
    BY <2>1, <2>2, <2>3
<1>6. Len(m) > 1 => Front(m) \in DOMAIN q
  BY <1>1, <1>4, <1>5
<1> HIDE DEF q
<1>7. /\ Tree(Grafted(q, m, b))
      /\ Values(Grafted(q, m, b)) \subseteq Values(q) \cup Values(b)
      /\ \A x \in DOMAIN Grafted(q, m, b) : x \in DOMAIN q \/ \E r \in DOMAIN b : x = m \o r
  BY <1>1, <1>3, <1>4, <1>6, GraftOfTree
<1>8. Swapped(p, l, m) = Grafted(q, m, b)
  BY DEF Swapped, q, b
<1>9. ASSUME Len(l) = Len(m), NEW x \in DOMAIN Grafted(q, m, b)
      PROVE  \E y \in DOMAIN p : Len(y) = Len(x)
  <2>1. \A r \in Seq(Slots) : Len(l \o r) = Len(m \o r)
    BY <1>1, <1>9, ConcatProperties
  <2>2. (\A r \in DOMAIN b : r \in Seq(Slots)) /\ (\A r \in DOMAIN c : r \in Seq(Slots))
    BY <1>2, <1>3 DEF IsBranch
  <2>3. CASE x \in DOMAIN p
    BY <2>3
  <2>4. CASE \E r \in DOMAIN c : x = l \o r
    BY <1>2, <2>1, <2>2, <2>4
  <2>5. CASE \E r \in DOMAIN b : x = m \o r
    BY <1>3, <2>1, <2>2, <2>5
  <2>6. QED
    BY <1>4, <1>7, <1>9, <2>3, <2>4, <2>5
<1>10. QED
  BY <1>2, <1>3, <1>4, <1>7, <1>8, <1>9

-----------------------------------------------------------------------------
(* Orders. *)

\* order lists the elements of S, each once.
Enumerates(order, S) ==
  /\ Cardinality(S) \in Nat
  /\ DOMAIN order = 1 .. Cardinality(S)
  /\ \A n \in 1 .. Cardinality(S) : order[n] \in S
  /\ \A x \in S : \E n \in 1 .. Cardinality(S) : order[n] = x
  /\ \A n, k \in 1 .. Cardinality(S) : order[n] = order[k] => n = k

\* The sets of those before grow.
Grows(S, upto) ==
  /\ \A x \in S : x \in upto[x] /\ upto[x] \subseteq S
  /\ \A x, y \in S : x # y => \/ upto[x] \subseteq upto[y] /\ y \notin upto[x]
                              \/ upto[y] \subseteq upto[x] /\ x \notin upto[y]

\* What Listed gives then.
LEMMA ListedInOrder ==
  ASSUME NEW S, IsFiniteSet(S), NEW upto, Grows(S, upto)
  PROVE  Enumerates(Listed(S, upto), S)
<1> /\ \A x \in S : x \in upto[x] /\ upto[x] \subseteq S
    /\ \A x, y \in S : x # y => \/ upto[x] \subseteq upto[y] /\ y \notin upto[x]
                                \/ upto[y] \subseteq upto[x] /\ x \notin upto[y]
  BY DEF Grows
<1> DEFINE N == Cardinality(S)
           rank == [x \in S |-> Cardinality(upto[x])]
           order == Listed(S, upto)
<1>1. N \in Nat
  BY FS_CardinalityType
<1>2. ASSUME NEW x \in S PROVE rank[x] \in 1 .. N
  <2>1. IsFiniteSet(upto[x]) /\ Cardinality(upto[x]) <= N
    BY FS_Subset
  <2>2. Cardinality(upto[x]) \in Nat /\ Cardinality(upto[x]) # 0
    BY <2>1, FS_CardinalityType, FS_EmptySet
  <2>3. QED
    BY <1>1, <2>1, <2>2
<1>3. ASSUME NEW x \in S, NEW y \in S, upto[x] \subseteq upto[y], y \notin upto[x]
      PROVE  rank[x] # rank[y]
  <2>1. IsFiniteSet(upto[y])
    BY FS_Subset
  <2>2. Cardinality(upto[x]) = Cardinality(upto[y]) => upto[x] = upto[y]
    BY <1>3, <2>1, FS_Subset
  <2>3. upto[x] # upto[y]
    BY <1>3
  <2>4. QED
    BY <2>2, <2>3
<1>4. rank \in Injection(S, 1 .. N)
  <2>1. \A x, y \in S : rank[x] = rank[y] => x = y
    <3> HIDE DEF rank
    <3>1. QED
      BY <1>3
  <2>2. rank \in [S -> 1 .. N]
    BY <1>2
  <2>3. QED
    BY <2>1, <2>2 DEF Injection, IsInjective
<1>5. IsFiniteSet(1 .. N) /\ Cardinality(1 .. N) = N
  BY <1>1, FS_Interval
<1>6. rank \in Surjection(S, 1 .. N)
  BY <1>4, <1>5, FS_Injection
<1>7. ASSUME NEW n \in 1 .. N
      PROVE  order[n] \in S /\ rank[order[n]] = n
  <2>1. \E x \in S : rank[x] = n
    BY <1>6 DEF Surjection
  <2>2. order[n] = CHOOSE x \in S : Cardinality(upto[x]) = n
    BY DEF Listed
  <2>3. QED
    BY <2>1, <2>2
<1>8. DOMAIN order = 1 .. N
  BY DEF Listed
<1> HIDE DEF order, rank
<1>9. \A x \in S : \E n \in 1 .. N : order[n] = x
  BY <1>2, <1>4, <1>7 DEF Injection, IsInjective
<1> HIDE DEF N
<1>10. Enumerates(order, S)
  BY <1>1, <1>7, <1>8, <1>9 DEF Enumerates, N
<1>11. QED
  BY <1>10 DEF order

\* Numbers, in order.
LEMMA AscendingOrder ==
  ASSUME NEW S, S \subseteq Int, IsFiniteSet(S)
  PROVE  Enumerates(Ascending(S), S)
<1> DEFINE upto == [i \in S |-> {j \in S : j <= i}]
<1>1. \A x \in S : x \in upto[x] /\ upto[x] \subseteq S
  OBVIOUS
<1>2. ASSUME NEW x \in S, NEW y \in S, x # y
      PROVE  \/ upto[x] \subseteq upto[y] /\ y \notin upto[x]
             \/ upto[y] \subseteq upto[x] /\ x \notin upto[y]
  <2>1. CASE x < y
    <3>1. \A m \in S : m <= x => m <= y
      BY <2>1
    <3>2. ~(y <= x)
      BY <2>1
    <3>3. QED
      BY <3>1, <3>2
  <2>2. CASE y < x
    <3>1. \A m \in S : m <= y => m <= x
      BY <2>2
    <3>2. ~(x <= y)
      BY <2>2
    <3>3. QED
      BY <3>1, <3>2
  <2>3. QED
    BY <1>2, <2>1, <2>2
<1> HIDE DEF upto
<1>3. Grows(S, upto)
  BY <1>1, <1>2 DEF Grows
<1>4. Enumerates(Listed(S, upto), S)
  BY <1>3, ListedInOrder
<1>5. QED
  BY <1>4 DEF Ascending, upto

\* Locations with different keys, in the order of the keys.
LEMMA ByKeyOrder ==
  ASSUME NEW S, IsFiniteSet(S), \A l \in S : KeyOf(l) \in Int,
         \A l, m \in S : KeyOf(l) = KeyOf(m) => l = m
  PROVE  Enumerates(ByKey(S), S)
<1> DEFINE upto == [l \in S |-> {m \in S : KeyOf(m) <= KeyOf(l)}]
<1>1. \A x \in S : x \in upto[x] /\ upto[x] \subseteq S
  OBVIOUS
<1>2. ASSUME NEW x \in S, NEW y \in S, x # y
      PROVE  \/ upto[x] \subseteq upto[y] /\ y \notin upto[x]
             \/ upto[y] \subseteq upto[x] /\ x \notin upto[y]
  <2>1. KeyOf(x) # KeyOf(y) /\ KeyOf(x) \in Int /\ KeyOf(y) \in Int
    BY <1>2
  <2>2. CASE KeyOf(x) < KeyOf(y)
    <3>1. \A m \in S : KeyOf(m) \in Int /\ (KeyOf(m) <= KeyOf(x) => KeyOf(m) <= KeyOf(y))
      BY <2>1, <2>2
    <3>2. ~(KeyOf(y) <= KeyOf(x))
      BY <2>1, <2>2
    <3>3. QED
      BY <3>1, <3>2
  <2>3. CASE KeyOf(y) < KeyOf(x)
    <3>1. \A m \in S : KeyOf(m) \in Int /\ (KeyOf(m) <= KeyOf(y) => KeyOf(m) <= KeyOf(x))
      BY <2>1, <2>3
    <3>2. ~(KeyOf(x) <= KeyOf(y))
      BY <2>1, <2>3
    <3>3. QED
      BY <3>1, <3>2
  <2>4. QED
    BY <2>1, <2>2, <2>3
<1> HIDE DEF upto
<1>3. Grows(S, upto)
  BY <1>1, <1>2 DEF Grows
<1>4. Enumerates(Listed(S, upto), S)
  BY <1>3, ListedInOrder
<1>5. QED
  BY <1>4 DEF ByKey, upto

\* Sequences of N numbers.
Tuples(N) == {v \in Seq(Int) : Len(v) = N}

\* Tuples of one length are in a total order.
LEMMA LessIsOrder ==
  ASSUME NEW N \in Nat, NEW x \in Tuples(N), NEW y \in Tuples(N), NEW z \in Tuples(N)
  PROVE  /\ ~Less(x, x)
         /\ x # y => Less(x, y) \/ Less(y, x)
         /\ Less(x, y) /\ Less(y, z) => Less(x, z)
<1>1. /\ DOMAIN x = 1 .. N /\ DOMAIN y = 1 .. N
      /\ \A n \in 1 .. N : x[n] \in Int /\ y[n] \in Int /\ z[n] \in Int
  BY ElementOfSeq, LenProperties DEF Tuples
<1>2. ~Less(x, x)
  BY <1>1 DEF Less
<1>3. ASSUME x # y PROVE Less(x, y) \/ Less(y, x)
  <2> DEFINE D == {n \in 1 .. N : x[n] # y[n]}
  <2>1. D # {}
    <3>1. x \in Seq(Int) /\ y \in Seq(Int) /\ Len(x) = N /\ Len(y) = N
      BY DEF Tuples
    <3>2. (\A n \in 1 .. N : x[n] = y[n]) => x = y
      BY <3>1, SeqEqual
    <3>3. QED
      BY <1>3, <3>2
  <2>2. D \in SUBSET Nat
    OBVIOUS
  <2> HIDE DEF D
  <2>3. PICK n \in D : \A m \in D : n <= m
    BY <2>1, <2>2, NatMin
  <2>4. n \in 1 .. N /\ x[n] # y[n] /\ \A m \in 1 .. n - 1 : x[m] = y[m]
    BY <2>3 DEF D
  <2>5. x[n] < y[n] \/ y[n] < x[n]
    BY <1>1, <2>4
  <2>6. QED
    BY <1>1, <2>4, <2>5 DEF Less
<1>4. ASSUME Less(x, y), Less(y, z) PROVE Less(x, z)
  <2>1. PICK n \in 1 .. N : x[n] < y[n] /\ \A m \in 1 .. n - 1 : x[m] = y[m]
    BY <1>1, <1>4 DEF Less
  <2>2. PICK k \in 1 .. N : y[k] < z[k] /\ \A m \in 1 .. k - 1 : y[m] = z[m]
    BY <1>1, <1>4 DEF Less
  <2>3. CASE n <= k
    <3>1. x[n] < z[n] /\ \A m \in 1 .. n - 1 : x[m] = z[m]
      BY <1>1, <2>1, <2>2, <2>3
    <3>2. QED
      BY <1>1, <3>1 DEF Less
  <2>4. CASE ~(n <= k)
    <3>1. x[k] < z[k] /\ \A m \in 1 .. k - 1 : x[m] = z[m]
      BY <1>1, <2>1, <2>2, <2>4
    <3>2. QED
      BY <1>1, <3>1 DEF Less
  <2>5. QED
    BY <2>3, <2>4
<1>5. QED
  BY <1>2, <1>3, <1>4

\* Sequences of such tuples are in a total order.
LEMMA PrecedesIsOrder ==
  ASSUME NEW N \in Nat,
         NEW a \in Seq(Tuples(N)), NEW b \in Seq(Tuples(N)), NEW c \in Seq(Tuples(N))
  PROVE  /\ ~Precedes(a, a)
         /\ a # b => Precedes(a, b) \/ Precedes(b, a)
         /\ Precedes(a, b) /\ Precedes(b, c) => Precedes(a, c)
<1> DEFINE T == Tuples(N)
           Longer(x, y) == Len(x) < Len(y) /\ \A i \in 1 .. Len(x) : x[i] = y[i]
           Parts(x, y, n) == /\ n \in 1 .. Len(x) /\ n \in 1 .. Len(y)
                             /\ Less(x[n], y[n]) /\ \A i \in 1 .. n - 1 : x[i] = y[i]
<1>1. ASSUME NEW x \in Seq(T), NEW y \in Seq(T)
      PROVE  Precedes(x, y) <=> Longer(x, y) \/ \E n \in Nat : Parts(x, y, n)
  <2>0. DOMAIN x = 1 .. Len(x) /\ DOMAIN y = 1 .. Len(y)
    BY LenProperties
  <2>1. Len(x) \in Nat /\ Len(y) \in Nat
    BY LenProperties
  <2>2. IsPrefix(x, y) <=> Len(x) <= Len(y) /\ \A i \in 1 .. Len(x) : x[i] = y[i]
    BY PrefixMeans
  <2>3. Len(x) = Len(y) /\ (\A i \in 1 .. Len(x) : x[i] = y[i]) => x = y
    BY SeqEqual
  <2>4. IsStrictPrefix(x, y) <=> Longer(x, y)
    <3>1. ASSUME IsPrefix(x, y), x # y PROVE Longer(x, y)
      BY <2>1, <2>2, <2>3, <3>1 DEF Longer
    <3>2. ASSUME Longer(x, y) PROVE IsPrefix(x, y) /\ x # y
      <4>1. Len(x) < Len(y) /\ Len(x) # Len(y)
        BY <2>1, <3>2 DEF Longer
      <4>2. QED
        BY <2>1, <2>2, <3>2, <4>1
    <3> HIDE DEF Longer
    <3>3. QED
      BY <3>1, <3>2 DEF IsStrictPrefix
  <2>5. (\E n \in DOMAIN x \cap DOMAIN y : Less(x[n], y[n]) /\ \A m \in 1 .. n - 1 : x[m] = y[m])
          <=> \E n \in Nat : Parts(x, y, n)
    <3>1. \A n : n \in DOMAIN x \cap DOMAIN y <=> n \in 1 .. Len(x) /\ n \in 1 .. Len(y)
      BY <2>0
    <3>2. \A n : n \in 1 .. Len(x) => n \in Nat
      BY <2>1
    <3>3. QED
      BY <3>1, <3>2, Zenon
  <2> HIDE DEF Longer, Parts
  <2>6. QED
    BY <2>4, <2>5 DEF Precedes
<1>2. Len(a) \in Nat /\ Len(b) \in Nat /\ Len(c) \in Nat
  BY LenProperties
<1>3. /\ \A i \in 1 .. Len(a) : a[i] \in T
      /\ \A i \in 1 .. Len(b) : b[i] \in T
      /\ \A i \in 1 .. Len(c) : c[i] \in T
  BY ElementOfSeq
<1>4. \A x, y, z \in T : /\ ~Less(x, x)
                         /\ x # y => Less(x, y) \/ Less(y, x)
                         /\ Less(x, y) /\ Less(y, z) => Less(x, z)
  BY LessIsOrder
<1> HIDE DEF T
<1>5. ~Precedes(a, a)
  <2>1. ~Longer(a, a)
    BY <1>2
  <2>2. \A n \in Nat : ~Parts(a, a, n)
    BY <1>3, <1>4
  <2>3. QED
    BY <1>1, <2>1, <2>2 DEF T
<1>6. ASSUME a # b PROVE Precedes(a, b) \/ Precedes(b, a)
  <2> DEFINE D == {n \in 1 .. Len(a) : n <= Len(b) /\ a[n] # b[n]}
  <2>1. CASE D = {}
    <3>1. \A i \in 1 .. Len(a) : i <= Len(b) => a[i] = b[i]
      BY <2>1
    <3>2. Len(a) # Len(b)
      BY <1>2, <1>6, <3>1, SeqEqual
    <3>3. CASE Len(a) < Len(b)
      <4>1. Longer(a, b)
        BY <1>2, <3>1, <3>3
      <4> HIDE DEF Longer, Parts
      <4>2. QED
        BY <1>1, <4>1 DEF T
    <3>4. CASE Len(b) < Len(a)
      <4>1. Longer(b, a)
        BY <1>2, <3>1, <3>4
      <4> HIDE DEF Longer, Parts
      <4>2. QED
        BY <1>1, <4>1 DEF T
    <3>5. QED
      BY <1>2, <3>2, <3>3, <3>4
  <2>2. CASE D # {}
    <3>1. D \in SUBSET Nat
      OBVIOUS
    <3> HIDE DEF D
    <3>2. PICK n \in D : \A m \in D : n <= m
      BY <2>2, <3>1, NatMin
    <3>3. n \in 1 .. Len(a) /\ n \in 1 .. Len(b) /\ a[n] # b[n] /\ \A i \in 1 .. n - 1 : a[i] = b[i]
      BY <1>2, <3>2 DEF D
    <3>4. Less(a[n], b[n]) \/ Less(b[n], a[n])
      BY <1>3, <1>4, <3>3
    <3>5. Parts(a, b, n) \/ Parts(b, a, n)
      BY <3>3, <3>4
    <3>6. n \in Nat
      BY <3>3
    <3> HIDE DEF Longer, Parts
    <3>7. QED
      BY <1>1, <3>5, <3>6 DEF T
  <2>3. QED
    BY <2>1, <2>2
<1>7. ASSUME Precedes(a, b), Precedes(b, c) PROVE Precedes(a, c)
  <2>1. Longer(a, b) \/ \E n \in Nat : Parts(a, b, n)
    <3> HIDE DEF Longer, Parts
    <3>1. QED
      BY <1>1, <1>7 DEF T
  <2>2. Longer(b, c) \/ \E n \in Nat : Parts(b, c, n)
    <3> HIDE DEF Longer, Parts
    <3>1. QED
      BY <1>1, <1>7 DEF T
  <2>3. ASSUME Longer(a, b), Longer(b, c) PROVE Longer(a, c)
    BY <1>2, <2>3
  <2>4. ASSUME NEW n \in Nat, Longer(a, b), Parts(b, c, n) PROVE Longer(a, c) \/ Parts(a, c, n)
    <3>1. CASE n <= Len(a)
      BY <1>2, <2>4, <3>1
    <3>2. CASE ~(n <= Len(a))
      BY <1>2, <2>4, <3>2
    <3>3. QED
      BY <3>1, <3>2
  <2>5. ASSUME NEW n \in Nat, Parts(a, b, n), Longer(b, c) PROVE Parts(a, c, n)
    BY <1>2, <2>5
  <2>6. ASSUME NEW n \in Nat, NEW k \in Nat, Parts(a, b, n), Parts(b, c, k)
        PROVE  Parts(a, c, n) \/ Parts(a, c, k)
    <3>1. CASE n < k
      <4>1. b[n] = c[n] /\ \A i \in 1 .. n - 1 : b[i] = c[i]
        BY <1>2, <2>6, <3>1
      <4>2. QED
        BY <1>2, <2>6, <3>1, <4>1
    <3>2. CASE k < n
      <4>1. a[k] = b[k] /\ \A i \in 1 .. k - 1 : a[i] = b[i]
        BY <1>2, <2>6, <3>2
      <4>2. QED
        BY <1>2, <2>6, <3>2, <4>1
    <3>3. CASE n = k
      <4>1. Less(a[n], c[n])
        BY <1>3, <1>4, <2>6, <3>3
      <4>2. QED
        BY <1>2, <2>6, <3>3, <4>1
    <3>4. QED
      BY <3>1, <3>2, <3>3
  <2> HIDE DEF Longer, Parts
  <2>7. Longer(a, c) \/ \E n \in Nat : Parts(a, c, n)
    BY <2>1, <2>2, <2>3, <2>4, <2>5, <2>6
  <2>8. QED
    BY <1>1, <2>7 DEF T
<1>8. QED
  BY <1>5, <1>6, <1>7

\* Things with different trails, in the order of the trails.
LEMMA SortedByTrail ==
  ASSUME NEW S, IsFiniteSet(S), NEW N \in Nat, NEW t, \A x \in S : t[x] \in Seq(Tuples(N)),
         \A x, y \in S : t[x] = t[y] => x = y
  PROVE  Enumerates(Listed(S, [x \in S |-> {y \in S : y = x \/ Precedes(t[y], t[x])}]), S)
<1> DEFINE upto == [x \in S |-> {y \in S : y = x \/ Precedes(t[y], t[x])}]
<1>1. \A x \in S : x \in upto[x] /\ upto[x] \subseteq S
  OBVIOUS
<1>2. \A x, y, z \in S : /\ ~Precedes(t[x], t[x])
                         /\ x # y => Precedes(t[x], t[y]) \/ Precedes(t[y], t[x])
                         /\ Precedes(t[x], t[y]) /\ Precedes(t[y], t[z]) => Precedes(t[x], t[z])
  BY PrecedesIsOrder
<1>3. ASSUME NEW x \in S, NEW y \in S, x # y
      PROVE  \/ upto[x] \subseteq upto[y] /\ y \notin upto[x]
             \/ upto[y] \subseteq upto[x] /\ x \notin upto[y]
  <2>1. CASE Precedes(t[x], t[y])
    <3>1. y \notin upto[x]
      BY <1>2, <1>3, <2>1
    <3>2. upto[x] \subseteq upto[y]
      BY <1>2, <2>1
    <3>3. QED
      BY <3>1, <3>2
  <2>2. CASE Precedes(t[y], t[x])
    <3>1. x \notin upto[y]
      BY <1>2, <1>3, <2>2
    <3>2. upto[y] \subseteq upto[x]
      BY <1>2, <2>2
    <3>3. QED
      BY <3>1, <3>2
  <2>3. QED
    BY <1>2, <1>3, <2>1, <2>2
<1> HIDE DEF upto
<1>4. Grows(S, upto)
  BY <1>1, <1>3 DEF Grows
<1>5. Enumerates(Listed(S, upto), S)
  BY <1>4, ListedInOrder
<1>6. QED
  BY <1>5 DEF upto

\* A function on 1 .. n is a sequence.
LEMMA SeqOfFunction ==
  ASSUME NEW S, NEW n \in Nat, NEW f, DOMAIN f = 1 .. n, f = [i \in DOMAIN f |-> f[i]],
         \A i \in 1 .. n : f[i] \in S
  PROVE  f \in Seq(S) /\ Len(f) = n
<1>1. f \in [1 .. n -> S]
  OBVIOUS
<1>2. f \in Seq(S)
  BY <1>1
<1>3. Len(f) = n
  BY <1>1
<1>4. QED
  BY <1>2, <1>3

-----------------------------------------------------------------------------
(* Selections. *)

\* Sites and slots are numbers.
LEMMA SlotNumbers ==
  /\ Sites \subseteq Int
  /\ \A x \in Slots : x[1] \in Sites /\ x[2] \in 1 .. MaxItems /\ x[2] \in Int /\ x = <<x[1], x[2]>>
<1>1. Sites = 1 .. Cardinality(Sites) /\ Cardinality(Sites) \in Nat
  BY SitesAssumption, FS_CardinalityType DEF SitesAssumption
<1>2. MaxItems \in Int
  BY BoundsAssumption DEF BoundsAssumption
<1>3. \A x \in Slots : x[1] \in Sites /\ x[2] \in 1 .. MaxItems /\ x = <<x[1], x[2]>>
  BY DEF Slots
<1>4. \A k \in 1 .. MaxItems : k \in Int
  BY <1>2
<1>5. Sites \subseteq Int
  <2> HIDE DEF Sites
  <2>1. QED
    BY <1>1
<1>6. QED
  BY <1>3, <1>4, <1>5

\* The parts of a location that lead to it.
LEMMA PartsOfPlace ==
  ASSUME NEW p, Tree(p), NEW l \in DOMAIN p
  PROVE  \A n \in 1 .. Len(l) : SubSeq(l, 1, n) \in DOMAIN p
<1>1. l \in Seq(Slots) /\ l # <<>> /\ Len(l) \in Nat \ {0}
  BY EmptySeq DEF Tree
<1> DEFINE D == {d \in Nat : \A n \in 1 .. Len(l) : n = Len(l) - d => SubSeq(l, 1, n) \in DOMAIN p}
<1>2. 0 \in D
  <2>1. SubSeq(l, 1, Len(l)) = l
    BY <1>1, SubSeqFull
  <2>2. \A n \in 1 .. Len(l) : n = Len(l) - 0 => SubSeq(l, 1, n) \in DOMAIN p
    <3>1. ASSUME NEW n \in 1 .. Len(l), n = Len(l) - 0
          PROVE  n = Len(l)
      BY <1>1, <3>1
    <3>2. QED
      BY <2>1, <3>1
  <2>3. QED
    BY <2>2
<1>3. ASSUME NEW d \in Nat, d \in D
      PROVE  d + 1 \in D
  <2>1. ASSUME NEW n \in 1 .. Len(l), n = Len(l) - (d + 1)
        PROVE  SubSeq(l, 1, n) \in DOMAIN p
    <3>1. n + 1 \in 1 .. Len(l) /\ n + 1 = Len(l) - d /\ n \in 0 .. Len(l) /\ n + 1 \in 0 .. Len(l)
      BY <1>1, <2>1
    <3> DEFINE t == SubSeq(l, 1, n + 1)
    <3>2. t \in DOMAIN p
      BY <1>3, <3>1
    <3>3. /\ t \in Seq(Slots) /\ Len(t) = n + 1
          /\ \A i \in 1 .. n + 1 : t[i] = l[i]
      BY <1>1, <3>1, Beginning
    <3>4. /\ SubSeq(l, 1, n) \in Seq(Slots) /\ Len(SubSeq(l, 1, n)) = n
          /\ \A i \in 1 .. n : SubSeq(l, 1, n)[i] = l[i]
      BY <1>1, <3>1, Beginning
    <3> HIDE DEF t
    <3>5. t # <<>>
      BY <3>2 DEF Tree
    <3>6. /\ Front(t) \in Seq(Slots) /\ Len(Front(t)) = n
          /\ \A i \in 1 .. n : Front(t)[i] = t[i]
      <4>1. Len(t) - 1 = n
        BY <3>3
      <4>2. QED
        BY <3>3, <3>5, <4>1, FrontAndLast
    <3>7. \A i \in 1 .. n : Front(t)[i] = SubSeq(l, 1, n)[i]
      <4>1. \A i \in 1 .. n : i \in 1 .. n + 1
        OBVIOUS
      <4>2. QED
        BY <3>3, <3>4, <3>6, <4>1
    <3>8. Front(t) = SubSeq(l, 1, n)
      BY <3>4, <3>6, <3>7, SeqEqual
    <3>9. Len(t) > 1
      BY <3>3
    <3>10. QED
      BY <3>2, <3>8, <3>9 DEF Tree
  <2>2. QED
    BY <2>1
<1> HIDE DEF D
<1>4. Nat \subseteq D
  BY <1>2, <1>3, NatInd
<1>5. ASSUME NEW n \in 1 .. Len(l)
      PROVE  SubSeq(l, 1, n) \in DOMAIN p
  <2>1. Len(l) - n \in Nat /\ n = Len(l) - (Len(l) - n)
    BY <1>1
  <2>2. Len(l) - n \in D
    BY <1>4, <2>1
  <2>3. QED
    BY <2>1, <2>2 DEF D
<1>6. QED
  BY <1>5

\* Trails of occurrences.
LEMMA TrailsDiffer ==
  ASSUME NEW p, Tree(p)
  PROVE  /\ \A l \in Occurrences(p) : Trail(p, l) \in Seq(Tuples(3))
         /\ \A l, m \in Occurrences(p) : Trail(p, l) = Trail(p, m) => l = m
<1> DEFINE family(l, n) == p[SubSeq(l, 1, n)].family
           arm(l, n) == CHOOSE i \in DOMAIN Arms[l[n][1]] : Arms[l[n][1]][i] = family(l, n)
           step(l, n) == <<l[n][1], arm(l, n), l[n][2]>>
<1>1. \A l \in Occurrences(p) : l \in Seq(Slots) /\ Len(l) \in Nat
  BY LenProperties DEF Occurrences, Tree
<1>2. ASSUME NEW l \in Occurrences(p), NEW n \in 1 .. Len(l)
      PROVE  l[n] \in Slots /\ step(l, n) \in Tuples(3)
  <2>1. l[n] \in Slots
    BY <1>1, ElementOfSeq
  <2>2. l[n][1] \in Sites /\ l[n][1] \in Int /\ l[n][2] \in Int
    BY <2>1, SlotNumbers
  <2>3. family(l, n) \in Arm(l[n][1])
    BY DEF Occurrences
  <2>4. \E i \in DOMAIN Arms[l[n][1]] : Arms[l[n][1]][i] = family(l, n)
    BY <2>3 DEF Arm, ToSet
  <2>5. arm(l, n) \in DOMAIN Arms[l[n][1]]
    BY <2>4
  <2>6. DOMAIN Arms[l[n][1]] \subseteq Int
    <3>1. Arms[l[n][1]] \in Seq(Families)
      BY <2>2, SitesAssumption DEF SitesAssumption
    <3>2. QED
      BY <3>1, LenProperties
  <2> HIDE DEF arm
  <2>7. step(l, n) \in Seq(Int) /\ Len(step(l, n)) = 3
    BY <2>2, <2>5, <2>6
  <2>8. QED
    BY <2>1, <2>7 DEF Tuples
<1>3. \A l : Trail(p, l) = [n \in 1 .. Len(l) |-> step(l, n)]
  BY DEF Trail
<1> HIDE DEF arm
<1>4. ASSUME NEW l \in Occurrences(p)
      PROVE  /\ Trail(p, l) \in Seq(Tuples(3)) /\ Len(Trail(p, l)) = Len(l)
             /\ \A n \in 1 .. Len(l) : Trail(p, l)[n] = step(l, n)
  <2>1. Len(l) \in Nat
    BY <1>1
  <2>2. \A n \in 1 .. Len(l) : Trail(p, l)[n] = step(l, n)
    BY <1>3
  <2>3. \A n \in 1 .. Len(l) : Trail(p, l)[n] \in Tuples(3)
    BY <1>2, <2>2
  <2>4. DOMAIN Trail(p, l) = 1 .. Len(l) /\ Trail(p, l) = [n \in DOMAIN Trail(p, l) |-> Trail(p, l)[n]]
    BY <1>3
  <2> HIDE DEF step
  <2>5. Trail(p, l) \in Seq(Tuples(3)) /\ Len(Trail(p, l)) = Len(l)
    BY <2>1, <2>3, <2>4, SeqOfFunction
  <2>6. QED
    BY <2>2, <2>5
<1>5. ASSUME NEW l \in Occurrences(p), NEW m \in Occurrences(p), Trail(p, l) = Trail(p, m)
      PROVE  l = m
  <2>1. Len(l) = Len(m)
    BY <1>4, <1>5
  <2>2. ASSUME NEW n \in 1 .. Len(l)
        PROVE  l[n] = m[n]
    <3>1. step(l, n) = step(m, n)
      BY <1>4, <1>5, <2>1
    <3>2. l[n][1] = m[n][1] /\ l[n][2] = m[n][2]
      BY <3>1
    <3>3. l[n] \in Slots /\ m[n] \in Slots
      BY <1>2, <2>1
    <3>4. l[n] = <<l[n][1], l[n][2]>> /\ m[n] = <<m[n][1], m[n][2]>>
      BY <3>3, SlotNumbers
    <3>5. QED
      BY <3>2, <3>4, Zenon
  <2>3. QED
    BY <1>1, <2>1, <2>2, SeqEqual
<1>6. QED
  BY <1>4, <1>5

\* The source's occurrences are selected, each once.
LEMMA SelectedOccurrences ==
  ASSUME NEW p, Tree(p)
  PROVE  \E order :
           /\ Enumerates(order, Occurrences(p))
           /\ Selected(p) = [i \in 1 .. Cardinality(Occurrences(p)) |->
                Selection(p[order[i]].family, p[order[i]].label, order[i], p[order[i]].id)]
<1> DEFINE all == Occurrences(p)
           t == [l \in all |-> Trail(p, l)]
           order == Listed(all, [l \in all |->
                                   {m \in all : m = l \/ Precedes(Trail(p, m), Trail(p, l))}])
           sorted == Listed(all, [l \in all |-> {m \in all : m = l \/ Precedes(t[m], t[l])}])
<1>1. IsFiniteSet(all)
  BY FS_Subset DEF Tree, Occurrences
<1>2. /\ \A l \in all : t[l] \in Seq(Tuples(3))
      /\ \A l, m \in all : t[l] = t[m] => l = m
  BY TrailsDiffer
<1>3. order = sorted
  OBVIOUS
<1>4. Enumerates(sorted, all)
  <2> HIDE DEF all, t
  <2>1. QED
    BY <1>1, <1>2, SortedByTrail
<1>5. Selected(p) = [i \in DOMAIN order |->
        Selection(p[order[i]].family, p[order[i]].label, order[i], p[order[i]].id)]
  BY DEF Selected
<1> HIDE DEF order, sorted
<1>6. DOMAIN order = 1 .. Cardinality(all)
  BY <1>3, <1>4 DEF Enumerates
<1>7. QED
  BY <1>3, <1>4, <1>5, <1>6

\* What a callback introduced is selected after what is known, each once.
LEMMA IntroducedSelected ==
  ASSUME Tree(payload), NEW xs
  PROVE  \E order :
           /\ Enumerates(order, Introduced(xs))
           /\ WithIntroduced(xs) = xs \o [n \in 1 .. Cardinality(Introduced(xs)) |->
                Selection(payload[order[n]].family, Size, order[n], payload[order[n]].id)]
<1> DEFINE all == Introduced(xs)
           t == [l \in all |-> l]
           order == Listed(all, [l \in all |-> {m \in all : m = l \/ Precedes(m, l)}])
           sorted == Listed(all, [l \in all |-> {m \in all : m = l \/ Precedes(t[m], t[l])}])
<1>1. IsFiniteSet(all)
  BY FS_Subset DEF Tree, Introduced
<1>2. \A l \in all : t[l] \in Seq(Tuples(2))
  <2>1. Slots \subseteq Tuples(2)
    <3>1. \A x \in Slots : x = <<x[1], x[2]>> /\ x[1] \in Int /\ x[2] \in Int
      BY SlotNumbers
    <3>2. \A a, c \in Int : <<a, c>> \in Seq(Int) /\ Len(<<a, c>>) = 2
      OBVIOUS
    <3>3. \A x \in Slots : x \in Seq(Int) /\ Len(x) = 2
      BY <3>1, <3>2
    <3>4. QED
      BY <3>3 DEF Tuples
  <2>2. \A l \in all : l \in Seq(Slots)
    BY DEF Tree, Introduced
  <2>3. \A l \in all : l \in Seq(Tuples(2))
    BY <2>1, <2>2, SeqMonotonic
  <2>4. QED
    BY <2>3
<1>3. order = sorted /\ \A l, m \in all : t[l] = t[m] => l = m
  OBVIOUS
<1>4. Enumerates(sorted, all)
  <2> HIDE DEF all, t
  <2>1. QED
    BY <1>1, <1>2, <1>3, SortedByTrail
<1>5. WithIntroduced(xs) = xs \o [n \in DOMAIN order |->
        Selection(payload[order[n]].family, Size, order[n], payload[order[n]].id)]
  BY DEF WithIntroduced
<1> HIDE DEF order, sorted
<1>6. DOMAIN order = 1 .. Cardinality(all)
  BY <1>3, <1>4 DEF Enumerates
<1>7. QED
  BY <1>3, <1>4, <1>5, <1>6

-----------------------------------------------------------------------------
(* Replacements. *)

\* Numbers have a least one.
LEMMA LeastOf ==
  ASSUME NEW S, S \subseteq Nat, S # {}
  PROVE  Least(S) \in S /\ \A j \in S : Least(S) <= j
<1>1. \E i \in S : \A j \in S : i <= j
  BY NatMin
<1>2. QED
  BY <1>1 DEF Least

\* What is taken after each instance of order in turn.
IsTaken(f, g, order) ==
  f = [n \in Nat |->
         IF n = 0 THEN {}
         ELSE f[n - 1] \cup {<<Taker(g, f[n - 1], order[n]), order[n]>>}]

\* There is such a function.
LEMMA TakenExists ==
  ASSUME NEW g, NEW order
  PROVE  \E f : IsTaken(f, g, order)
<1> DEFINE Grown(t, n) == t \cup {<<Taker(g, t, order[n]), order[n]>>}
           Upto(h, n) == /\ DOMAIN h = 0 .. n
                         /\ h[0] = {}
                         /\ \A i \in 1 .. n : h[i] = Grown(h[i - 1], i)
<1>1. \A n \in Nat : \E h : Upto(h, n)
  <2> DEFINE N == {n \in Nat : \E h : Upto(h, n)}
  <2> HIDE DEF Grown
  <2>1. 0 \in N
    <3>1. Upto([i \in 0 .. 0 |-> {}], 0)
      OBVIOUS
    <3>2. QED
      BY <3>1
  <2>2. ASSUME NEW n \in Nat, n \in N
        PROVE  n + 1 \in N
    <3>1. PICK h : Upto(h, n)
      BY <2>2
    <3> DEFINE k == [i \in 0 .. n + 1 |-> IF i <= n THEN h[i] ELSE Grown(h[n], n + 1)]
    <3>2. k[0] = {}
      BY <3>1
    <3>3. ASSUME NEW i \in 1 .. n + 1
          PROVE  k[i] = Grown(k[i - 1], i)
      <4>1. CASE i <= n
        <5>1. k[i] = h[i] /\ k[i - 1] = h[i - 1] /\ i \in 1 .. n
          BY <4>1
        <5>2. QED
          BY <3>1, <5>1
      <4>2. CASE ~(i <= n)
        BY <4>2
      <4>3. QED
        BY <4>1, <4>2
    <3>4. DOMAIN k = 0 .. n + 1
      OBVIOUS
    <3> HIDE DEF k
    <3>5. Upto(k, n + 1)
      BY <3>2, <3>3, <3>4
    <3> HIDE DEF Upto
    <3>6. QED
      BY <3>5
  <2> HIDE DEF N
  <2>3. Nat \subseteq N
    BY <2>1, <2>2, NatInd
  <2>4. QED
    BY <2>3 DEF N
<1>2. ASSUME NEW n \in Nat, NEW m \in Nat, n <= m, NEW h, NEW k, Upto(h, n), Upto(k, m)
      PROVE  \A i \in 0 .. n : h[i] = k[i]
  <2> DEFINE N == {i \in Nat : i <= n => h[i] = k[i]}
  <2> HIDE DEF Grown
  <2>1. 0 \in N
    BY <1>2
  <2>2. ASSUME NEW i \in Nat, i \in N
        PROVE  i + 1 \in N
    <3>1. ASSUME i + 1 <= n PROVE h[i + 1] = k[i + 1]
      <4>1. i + 1 \in 1 .. n /\ i + 1 \in 1 .. m /\ (i + 1) - 1 = i /\ h[i] = k[i]
        BY <1>2, <2>2, <3>1
      <4>2. h[i + 1] = Grown(h[i], i + 1) /\ k[i + 1] = Grown(k[i], i + 1)
        BY <1>2, <4>1
      <4>3. QED
        BY <4>1, <4>2
    <3>2. QED
      BY <3>1
  <2> HIDE DEF N
  <2>3. Nat \subseteq N
    BY <2>1, <2>2, NatInd
  <2>4. QED
    BY <2>3 DEF N
<1> DEFINE G(n) == CHOOSE h : Upto(h, n)
           f == [n \in Nat |-> G(n)[n]]
<1>3. \A n \in Nat : Upto(G(n), n)
  BY <1>1
<1> HIDE DEF G, Grown
<1>4. ASSUME NEW i \in Nat
      PROVE  f[i] = IF i = 0 THEN {} ELSE Grown(f[i - 1], i)
  <2>1. CASE i = 0
    BY <1>3, <2>1
  <2>2. CASE i # 0
    <3>1. i - 1 \in Nat /\ i \in 1 .. i /\ i - 1 <= i /\ i - 1 \in 0 .. i - 1
      BY <2>2
    <3>2. G(i)[i] = Grown(G(i)[i - 1], i)
      BY <1>3, <3>1
    <3>3. G(i - 1)[i - 1] = G(i)[i - 1]
      <4>1. Upto(G(i - 1), i - 1) /\ Upto(G(i), i)
        BY <1>3, <3>1
      <4> HIDE DEF Upto
      <4>2. \A j \in 0 .. i - 1 : G(i - 1)[j] = G(i)[j]
        BY <1>2, <3>1, <4>1
      <4>3. QED
        BY <3>1, <4>2
    <3>4. QED
      BY <2>2, <3>1, <3>2, <3>3
  <2>3. QED
    BY <2>1, <2>2
<1>5. DOMAIN f = Nat /\ f = [n \in Nat |-> f[n]]
  OBVIOUS
<1> HIDE DEF f
<1>6. f = [n \in Nat |-> IF n = 0 THEN {} ELSE Grown(f[n - 1], n)]
  BY <1>4, <1>5
<1>7. IsTaken(f, g, order)
  BY <1>6 DEF IsTaken, Grown
<1>8. QED
  BY <1>7

\* The replacements, as what is taken in the end.
LEMMA ReplacementsTaken ==
  ASSUME NEW g
  PROVE  \E f : /\ Replacements(g) = f[Len(Instances(g))]
                /\ f[0] = {}
                /\ \A n \in Nat :
                     f[n + 1] = f[n] \cup {<<Taker(g, f[n], Instances(g)[n + 1]), Instances(g)[n + 1]>>}
<1> DEFINE order == Instances(g)
           f == CHOOSE h : IsTaken(h, g, order)
<1>1. Replacements(g) = f[Len(order)]
  BY DEF Replacements, IsTaken
<1>2. IsTaken(f, g, order)
  <2>1. \E h : IsTaken(h, g, order)
    BY TakenExists
  <2>2. QED
    BY <2>1
<1> HIDE DEF f
<1>3. \A n \in Nat : f[n] = IF n = 0 THEN {}
                            ELSE f[n - 1] \cup {<<Taker(g, f[n - 1], order[n]), order[n]>>}
  <2> HIDE DEF order
  <2>1. QED
    BY <1>2 DEF IsTaken
<1>4. f[0] = {}
  BY <1>3
<1>5. ASSUME NEW n \in Nat
      PROVE  f[n + 1] = f[n] \cup {<<Taker(g, f[n], order[n + 1]), order[n + 1]>>}
  <2>1. n + 1 \in Nat /\ n + 1 # 0 /\ (n + 1) - 1 = n
    OBVIOUS
  <2> HIDE DEF order
  <2>2. QED
    BY <1>3, <2>1
<1>6. QED
  BY <1>1, <1>4, <1>5

\* Listed gives a function.
LEMMA ListedFunction ==
  ASSUME NEW S, NEW upto
  PROVE  Listed(S, upto) = [n \in DOMAIN Listed(S, upto) |-> Listed(S, upto)[n]]
<1> DEFINE nth(n) == CHOOSE x \in S : Cardinality(upto[x]) = n
<1>1. Listed(S, upto) = [n \in 1 .. Cardinality(S) |-> nth(n)]
  BY DEF Listed
<1> HIDE DEF nth
<1>2. QED
  BY <1>1

\* The instances that take the place of something.
LEMMA InstancesListed ==
  ASSUME NEW g, NEW Z, Z = {l \in Unclaimed(g) : payload[l].instance},
         Enumerates(ByKey(Z), Z), Cardinality(Available(g)) \in Nat
  PROVE  \E N \in Nat :
           /\ N = Len(Instances(g)) /\ N <= Cardinality(Available(g))
           /\ \A n \in 1 .. N : Instances(g)[n] \in Z
           /\ \A n, k \in 1 .. N : Instances(g)[n] = Instances(g)[k] => n = k
           /\ N = Cardinality(Available(g)) \/ \A l \in Z : \E n \in 1 .. N : Instances(g)[n] = l
           /\ ToSet(Instances(g)) = {Instances(g)[n] : n \in 1 .. N}
<1> DEFINE all == ByKey(Z)
           M == Cardinality(Available(g))
           K == Cardinality(Z)
<1>1. Instances(g) = IF Len(all) > M THEN SubSeq(all, 1, M) ELSE all
  BY DEF Instances
<1>2. /\ K \in Nat /\ DOMAIN all = 1 .. K
      /\ \A n \in 1 .. K : all[n] \in Z
      /\ \A x \in Z : \E n \in 1 .. K : all[n] = x
      /\ \A n, k \in 1 .. K : all[n] = all[k] => n = k
  BY DEF Enumerates
<1>3. all \in Seq(Z) /\ Len(all) = K
  <2>1. all = [n \in DOMAIN all |-> all[n]]
    <3>1. PICK upto : all = Listed(Z, upto)
      BY DEF ByKey
    <3> HIDE DEF all
    <3>2. QED
      BY <3>1, ListedFunction
  <2> HIDE DEF all
  <2>2. QED
    BY <1>2, <2>1, SeqOfFunction
<1> HIDE DEF all, M, K
<1>4. CASE K > M
  <2>1. M \in 0 .. Len(all) /\ M \in Nat
    BY <1>2, <1>3, <1>4 DEF M
  <2>2. /\ SubSeq(all, 1, M) \in Seq(Z) /\ Len(SubSeq(all, 1, M)) = M
        /\ \A i \in 1 .. M : SubSeq(all, 1, M)[i] = all[i]
    BY <1>3, <2>1, Beginning
  <2>3. Instances(g) = SubSeq(all, 1, M)
    BY <1>1, <1>3, <1>4
  <2>4. \A i \in 1 .. M : i \in 1 .. K
    BY <1>2, <1>4, <2>1
  <2>5. /\ \A n \in 1 .. M : Instances(g)[n] \in Z
        /\ \A n, k \in 1 .. M : Instances(g)[n] = Instances(g)[k] => n = k
    BY <1>2, <2>2, <2>3, <2>4
  <2>6. ToSet(Instances(g)) = {Instances(g)[n] : n \in 1 .. M}
    <3>1. DOMAIN Instances(g) = 1 .. M
      BY <2>2, <2>3, LenProperties
    <3>2. QED
      BY <3>1 DEF ToSet
  <2>7. M = Len(Instances(g)) /\ M <= M
    BY <2>1, <2>2, <2>3
  <2>8. QED
    BY <2>1, <2>5, <2>6, <2>7 DEF M
<1>5. CASE ~(K > M)
  <2>1. Instances(g) = all
    BY <1>1, <1>3, <1>5
  <2>2. K = Len(Instances(g)) /\ K <= M
    BY <1>2, <1>3, <1>5, <2>1 DEF M
  <2>3. ToSet(Instances(g)) = {Instances(g)[n] : n \in 1 .. K}
    <3>1. ToSet(all) = {all[n] : n \in DOMAIN all}
      BY DEF ToSet
    <3>2. QED
      BY <1>2, <2>1, <3>1
  <2>4. /\ \A n \in 1 .. K : Instances(g)[n] \in Z
        /\ \A n, k \in 1 .. K : Instances(g)[n] = Instances(g)[k] => n = k
        /\ \A l \in Z : \E n \in 1 .. K : Instances(g)[n] = l
    BY <1>2, <2>1
  <2>5. K \in Nat /\ K = Len(Instances(g)) /\ K <= Cardinality(Available(g))
    BY <1>2, <2>2 DEF M
  <2>6. QED
    BY <2>3, <2>4, <2>5
<1>6. QED
  BY <1>4, <1>5

\* Each replacement takes one occurrence that is not found, with one instance that is not
\* claimed, until one of the two run out.
LEMMA ReplacementsMatch ==
  ASSUME NEW g, NEW Z, Z = {l \in Unclaimed(g) : payload[l].instance},
         Enumerates(ByKey(Z), Z), IsFiniteSet(Available(g)), Available(g) \subseteq Nat
  PROVE  /\ \A c \in Replacements(g) : c \in Available(g) \X Z
         /\ \A c, d \in Replacements(g) : c[1] = d[1] \/ c[2] = d[2] => c = d
         /\ \/ \A i \in Available(g) : \E c \in Replacements(g) : c[1] = i
            \/ \A l \in Z : \E c \in Replacements(g) : c[2] = l
         /\ \A c \in Replacements(g) : c[2] \in ToSet(Instances(g))
         /\ ToSet(Instances(g)) \subseteq Z
<1> DEFINE A == Available(g)
           M == Cardinality(A)
           order == Instances(g)
<1>1. M \in Nat
  BY FS_CardinalityType
<1>2. PICK N \in Nat :
        /\ N = Len(order) /\ N <= M
        /\ \A n \in 1 .. N : order[n] \in Z
        /\ \A n, k \in 1 .. N : order[n] = order[k] => n = k
        /\ N = M \/ \A l \in Z : \E n \in 1 .. N : order[n] = l
        /\ ToSet(order) = {order[n] : n \in 1 .. N}
  BY <1>1, InstancesListed
<1>3. PICK f : /\ Replacements(g) = f[Len(order)]
               /\ f[0] = {}
               /\ \A n \in Nat : f[n + 1] = f[n] \cup {<<Taker(g, f[n], order[n + 1]), order[n + 1]>>}
  BY ReplacementsTaken
<1> HIDE DEF order, A, M
<1> DEFINE Good(n) == /\ f[n] \subseteq A \X Z
                      /\ \A c \in f[n] : \E k \in 1 .. n : c[2] = order[k]
                      /\ \A k \in 1 .. n : \E c \in f[n] : c[2] = order[k]
                      /\ \A c, d \in f[n] : c[1] = d[1] \/ c[2] = d[2] => c = d
                      /\ IsFiniteSet(f[n]) /\ Cardinality(f[n]) = n
           First(n) == {c[1] : c \in f[n]}
<1>4. ASSUME NEW n \in Nat, Good(n)
      PROVE  /\ First(n) \subseteq A /\ IsFiniteSet(First(n)) /\ Cardinality(First(n)) = n
  <2> DEFINE h == [c \in f[n] |-> c[1]]
  <2>1. First(n) \subseteq A
    BY <1>4
  <2>2. h \in Surjection(f[n], First(n))
    BY DEF Surjection
  <2>3. h \in Injection(f[n], First(n))
    BY <1>4 DEF Injection, IsInjective
  <2> HIDE DEF h, First
  <2>4. IsFiniteSet(First(n)) /\ Cardinality(First(n)) = Cardinality(f[n])
    BY <1>4, <2>2, <2>3, FS_Surjection
  <2>5. QED
    BY <1>4, <2>1, <2>4
<1>5. ASSUME NEW n \in Nat, n + 1 <= N, Good(n)
      PROVE  Good(n + 1)
  <2> DEFINE l == order[n + 1]
             i == Taker(g, f[n], l)
             left == {j \in Available(g) : \A c \in f[n] : c[1] # j}
             here == {j \in left : before[j].location = l}
  <2>1. left # {}
    <3>1. ASSUME left = {} PROVE A \subseteq First(n)
      BY <3>1 DEF A
    <3>2. ~(A \subseteq First(n))
      <4>1. First(n) \subseteq A /\ IsFiniteSet(First(n)) /\ Cardinality(First(n)) = n
        BY <1>4, <1>5
      <4>2. n # M
        BY <1>1, <1>2, <1>5
      <4> HIDE DEF First
      <4>3. QED
        BY <4>1, <4>2 DEF M
    <3>3. QED
      BY <3>1, <3>2
  <2>2. left \subseteq Nat /\ here \subseteq left
    BY DEF A
  <2>3. i = Least(IF here # {} THEN here ELSE left)
    BY DEF Taker
  <2>4. i \in left
    <3> HIDE DEF left, here, i
    <3>1. CASE here # {}
      <4>1. here \subseteq Nat
        BY <2>2
      <4>2. i \in here
        BY <2>3, <3>1, <4>1, LeastOf
      <4>3. QED
        BY <2>2, <4>2
    <3>2. CASE here = {}
      BY <2>1, <2>2, <2>3, <3>2, LeastOf
    <3>3. QED
      BY <3>1, <3>2
  <2>5. i \in A /\ \A c \in f[n] : c[1] # i
    BY <2>4 DEF A
  <2>6. l \in Z /\ \A k \in 1 .. n : order[k] # l
    <3>1. n + 1 \in 1 .. N /\ \A k \in 1 .. n : k \in 1 .. N /\ k # n + 1
      BY <1>5
    <3>2. QED
      BY <1>2, <3>1
  <2>7. f[n + 1] = f[n] \cup {<<i, l>>}
    BY <1>3
  <2> HIDE DEF i, l
  <2>8. \A c \in f[n] : c[2] # l
    BY <1>5, <2>6
  <2>9. /\ f[n + 1] \subseteq A \X Z
        /\ \A c, d \in f[n + 1] : c[1] = d[1] \/ c[2] = d[2] => c = d
    <3>1. \A c \in f[n + 1] : c \in f[n] \/ c = <<i, l>>
      BY <2>7
    <3>2. \A c, d \in f[n] : c[1] = d[1] \/ c[2] = d[2] => c = d
      BY <1>5
    <3>3. f[n + 1] \subseteq A \X Z
      BY <1>5, <2>5, <2>6, <3>1
    <3>4. ASSUME NEW c \in f[n + 1], NEW d \in f[n + 1], c[1] = d[1] \/ c[2] = d[2]
          PROVE  c = d
      <4>1. CASE c = <<i, l>>
        BY <2>5, <2>8, <3>1, <3>4, <4>1
      <4>2. CASE d = <<i, l>>
        BY <2>5, <2>8, <3>1, <3>4, <4>2
      <4>3. QED
        BY <3>1, <3>2, <3>4, <4>1, <4>2
    <3>5. QED
      BY <3>3, <3>4
  <2>10. \A c \in f[n + 1] : \E k \in 1 .. n + 1 : c[2] = order[k]
    <3> TAKE c \in f[n + 1]
    <3>1. CASE c \in f[n]
      <4>1. PICK k \in 1 .. n : c[2] = order[k]
        BY <1>5, <3>1
      <4>2. k \in 1 .. n + 1
        OBVIOUS
      <4>3. QED
        BY <4>1, <4>2
    <3>2. CASE c = <<i, l>>
      <4>1. c[2] = order[n + 1] /\ n + 1 \in 1 .. n + 1
        BY <3>2 DEF l
      <4>2. QED
        BY <4>1
    <3>3. QED
      BY <2>7, <3>1, <3>2
  <2>11. \A k \in 1 .. n + 1 : \E c \in f[n + 1] : c[2] = order[k]
    <3> TAKE k \in 1 .. n + 1
    <3>1. CASE k \in 1 .. n
      BY <1>5, <2>7, <3>1
    <3>2. CASE k = n + 1
      <4>1. <<i, l>> \in f[n + 1] /\ <<i, l>>[2] = order[k]
        BY <2>7, <3>2 DEF l
      <4>2. QED
        BY <4>1
    <3>3. QED
      BY <3>1, <3>2
  <2>12. IsFiniteSet(f[n + 1]) /\ Cardinality(f[n + 1]) = n + 1
    <3>1. <<i, l>> \notin f[n]
      BY <2>5
    <3>2. IsFiniteSet(f[n]) /\ Cardinality(f[n]) = n
      BY <1>5
    <3>3. /\ IsFiniteSet(f[n] \cup {<<i, l>>})
          /\ Cardinality(f[n] \cup {<<i, l>>}) = n + 1
      BY <3>1, <3>2, FS_AddElement
    <3>4. QED
      BY <2>7, <3>3, Zenon
  <2>13. QED
    BY <2>9, <2>10, <2>11, <2>12
<1>6. Good(N)
  <2> DEFINE T == {n \in Nat : n <= N => Good(n)}
  <2>1. Good(0)
    BY <1>3, FS_EmptySet
  <2> HIDE DEF Good
  <2>2. 0 \in T
    BY <2>1
  <2>3. ASSUME NEW n \in Nat, n \in T
        PROVE  n + 1 \in T
    <3>1. ASSUME n + 1 <= N PROVE Good(n + 1)
      <4>1. n <= N
        BY <3>1
      <4>2. QED
        BY <1>5, <2>3, <3>1, <4>1
    <3>2. QED
      BY <3>1
  <2> HIDE DEF T
  <2>4. Nat \subseteq T
    BY <2>2, <2>3, NatInd
  <2>5. QED
    BY <2>4 DEF T
<1>7. ASSUME N = M
      PROVE  \A i \in A : \E c \in f[N] : c[1] = i
  <2>1. First(N) \subseteq A /\ IsFiniteSet(First(N)) /\ Cardinality(First(N)) = N
    BY <1>4, <1>6
  <2>2. First(N) = A
    <3> HIDE DEF First
    <3>1. IsFiniteSet(A) /\ First(N) \in SUBSET A
      BY <2>1 DEF A
    <3>2. QED
      BY <1>7, <2>1, <3>1, FS_Subset DEF M
  <2>3. QED
    BY <2>2
<1>8. Replacements(g) = f[N]
  BY <1>2, <1>3
<1>9. \/ \A i \in A : \E c \in f[N] : c[1] = i
      \/ \A l \in Z : \E c \in f[N] : c[2] = l
  BY <1>2, <1>6, <1>7
<1>10. /\ ToSet(order) \subseteq Z
       /\ \A c \in f[N] : c[2] \in ToSet(order)
  BY <1>2, <1>6
<1>11. QED
  BY <1>6, <1>8, <1>9, <1>10 DEF A, order

-----------------------------------------------------------------------------
(* One group of selections. *)

\* Model instances at the site that are no known object.
Untaken(g) == {l \in Unclaimed(g) : payload[l].instance}

\* The occurrences and the candidates of a group.
LEMMA GroupSets ==
  ASSUME Tree(payload), NEW X, before \in Seq(X), NEW g
  PROVE  /\ Previous(g) \subseteq DOMAIN before /\ Previous(g) \subseteq Nat
         /\ IsFiniteSet(Previous(g))
         /\ Candidates(g) \subseteq DOMAIN payload /\ IsFiniteSet(Candidates(g))
         /\ \A l \in Candidates(g) : KeyOf(l) \in Int
         /\ \A l, m \in Candidates(g) : KeyOf(l) = KeyOf(m) => l = m
<1>1. DOMAIN before = 1 .. Len(before)
  BY LenProperties
<1>2. Len(before) \in Nat
  BY LenProperties
<1>3. IsFiniteSet(DOMAIN before)
  BY <1>1, <1>2, FS_Interval
<1>4. DOMAIN before \subseteq Nat
  BY <1>1
<1>5. Previous(g) \subseteq DOMAIN before
  BY DEF Previous
<1>6. Previous(g) \subseteq Nat /\ IsFiniteSet(Previous(g))
  BY <1>3, <1>4, <1>5, FS_Subset
<1>7. Candidates(g) \subseteq DOMAIN payload /\ IsFiniteSet(Candidates(g))
  BY FS_Subset DEF Tree, Candidates
<1>8. ASSUME NEW l \in Candidates(g)
      PROVE  /\ l \in Seq(Slots) /\ l # <<>> /\ Last(l) \in Slots
             /\ KeyOf(l) \in Int /\ Last(l) = <<SiteOf(l), KeyOf(l)>>
  <2>1. l \in Seq(Slots) /\ l # <<>>
    BY <1>7 DEF Tree
  <2>2. Last(l) \in Slots
    BY <2>1, FrontAndLast
  <2>3. QED
    BY <2>1, <2>2, SlotNumbers DEF KeyOf, SiteOf
<1>9. ASSUME NEW l \in Candidates(g), NEW m \in Candidates(g), KeyOf(l) = KeyOf(m)
      PROVE  l = m
  <2>1. Front(l) = Front(m) /\ SiteOf(l) = SiteOf(m)
    BY DEF Candidates
  <2>2. Last(l) = Last(m)
    BY <1>8, <1>9, <2>1
  <2>3. QED
    BY <1>8, <2>1, <2>2, SameFrontAndLast
<1>10. QED
  BY <1>5, <1>6, <1>7, <1>8, <1>9

\* What is found by identity, and what is taken by instances.
LEMMA GroupMatches ==
  ASSUME Tree(payload), NEW X, before \in Seq(X), NEW g
  PROVE  /\ Claims(g) \subseteq Previous(g) \X Candidates(g)
         /\ Available(g) \subseteq Previous(g) /\ Unclaimed(g) \subseteq Candidates(g)
         /\ Replacements(g) \subseteq Available(g) \X Untaken(g)
         /\ \A c, d \in Replacements(g) : c[1] = d[1] \/ c[2] = d[2] => c = d
         /\ RemainingPrevious(g) # {} =>
              \A l \in Untaken(g) : \E c \in Replacements(g) : c[2] = l
         /\ \A c \in Replacements(g) : c[2] \in ToSet(Instances(g))
         /\ ToSet(Instances(g)) \subseteq Untaken(g)
         /\ IsFiniteSet(RemainingPrevious(g)) /\ RemainingPrevious(g) \subseteq Nat
         /\ Enumerates(Ascending(RemainingPrevious(g)), RemainingPrevious(g))
         /\ Enumerates(ByKey(RemainingCandidates(g)), RemainingCandidates(g))
<1>1. /\ Previous(g) \subseteq Nat /\ IsFiniteSet(Previous(g))
      /\ IsFiniteSet(Candidates(g))
      /\ \A l \in Candidates(g) : KeyOf(l) \in Int
      /\ \A l, m \in Candidates(g) : KeyOf(l) = KeyOf(m) => l = m
  BY GroupSets
<1>2. /\ Claims(g) \subseteq Previous(g) \X Candidates(g)
      /\ Available(g) \subseteq Previous(g)
      /\ Unclaimed(g) \subseteq Candidates(g) /\ Untaken(g) \subseteq Candidates(g)
      /\ RemainingPrevious(g) \subseteq Previous(g) /\ RemainingCandidates(g) \subseteq Candidates(g)
  BY DEF Claims, Available, Unclaimed, Untaken, RemainingPrevious, RemainingCandidates
<1>3. /\ IsFiniteSet(Available(g)) /\ Available(g) \subseteq Nat
      /\ IsFiniteSet(Untaken(g))
      /\ IsFiniteSet(RemainingPrevious(g)) /\ RemainingPrevious(g) \subseteq Nat
      /\ IsFiniteSet(RemainingCandidates(g))
  BY <1>1, <1>2, FS_Subset
<1>4. /\ Enumerates(ByKey(Untaken(g)), Untaken(g))
      /\ Enumerates(ByKey(RemainingCandidates(g)), RemainingCandidates(g))
  BY <1>1, <1>2, <1>3, ByKeyOrder
<1>5. Enumerates(Ascending(RemainingPrevious(g)), RemainingPrevious(g))
  <2>1. RemainingPrevious(g) \subseteq Int
    BY <1>3
  <2>2. QED
    BY <1>3, <2>1, AscendingOrder
<1>6. Untaken(g) = {l \in Unclaimed(g) : payload[l].instance}
  BY DEF Untaken
<1>7. /\ \A c \in Replacements(g) : c \in Available(g) \X Untaken(g)
      /\ \A c, d \in Replacements(g) : c[1] = d[1] \/ c[2] = d[2] => c = d
      /\ \/ \A i \in Available(g) : \E c \in Replacements(g) : c[1] = i
         \/ \A l \in Untaken(g) : \E c \in Replacements(g) : c[2] = l
      /\ \A c \in Replacements(g) : c[2] \in ToSet(Instances(g))
      /\ ToSet(Instances(g)) \subseteq Untaken(g)
  BY <1>3, <1>4, <1>6, ReplacementsMatch
<1>8. RemainingPrevious(g) # {} => ~ \A i \in Available(g) : \E c \in Replacements(g) : c[1] = i
  BY DEF RemainingPrevious
<1>9. QED
  BY <1>2, <1>3, <1>4, <1>5, <1>7, <1>8

\* What is not found binds to what is not taken.
LEMMA ReboundPairs ==
  ASSUME Tree(payload), NEW X, before \in Seq(X), NEW g, ~Refused(g)
  PROVE  /\ Rebound(g) \subseteq RemainingPrevious(g) \X RemainingCandidates(g)
         /\ RemainingPrevious(g) # {} => Anchored(g) \/ OneFamily(g)
         /\ ~Anchored(g) =>
              /\ \A i \in RemainingPrevious(g) : \E c \in Rebound(g) : c[1] = i
              /\ \A c, d \in Rebound(g) : c[1] = d[1] \/ c[2] = d[2] => c = d
<1> DEFINE RP == RemainingPrevious(g)
           RC == RemainingCandidates(g)
           N == Cardinality(RP)
           from == Ascending(RP)
           to == ByKey(RC)
<1>1. RP # {} => Anchored(g) \/ OneFamily(g)
  BY DEF Refused, Ambiguous
<1>2. CASE Anchored(g)
  BY <1>1, <1>2 DEF Rebound
<1>3. CASE ~Anchored(g)
  <2>1. Rebound(g) = {<<from[n], to[n]>> : n \in 1 .. N}
    BY <1>3 DEF Rebound
  <2>2. /\ N \in Nat
        /\ \A n \in 1 .. N : from[n] \in RP
        /\ \A x \in RP : \E n \in 1 .. N : from[n] = x
        /\ \A n, k \in 1 .. N : from[n] = from[k] => n = k
    BY GroupMatches DEF Enumerates
  <2>3. /\ \A n \in 1 .. Cardinality(RC) : to[n] \in RC
        /\ \A n, k \in 1 .. Cardinality(RC) : to[n] = to[k] => n = k
    BY GroupMatches DEF Enumerates
  <2> HIDE DEF from, to
  <2>4. CASE RP = {}
    <3>1. N = 0
      BY <2>4, FS_EmptySet
    <3>2. Rebound(g) = {}
      BY <2>1, <3>1
    <3>3. QED
      BY <1>1, <2>4, <3>2
  <2>5. CASE RP # {}
    <3>1. Cardinality(RC) = N
      BY <1>1, <1>3, <2>5 DEF OneFamily
    <3> HIDE DEF N, RP, RC
    <3>2. Rebound(g) \subseteq RP \X RC
      BY <2>1, <2>2, <2>3, <3>1
    <3>3. ASSUME NEW i \in RP
          PROVE  \E c \in Rebound(g) : c[1] = i
      <4>1. PICK n \in 1 .. N : from[n] = i
        BY <2>2
      <4>2. <<from[n], to[n]>> \in Rebound(g) /\ <<from[n], to[n]>>[1] = i
        BY <2>1, <4>1
      <4>3. QED
        BY <4>2
    <3>4. ASSUME NEW c \in Rebound(g), NEW d \in Rebound(g), c[1] = d[1] \/ c[2] = d[2]
          PROVE  c = d
      <4>1. PICK n \in 1 .. N : c = <<from[n], to[n]>>
        BY <2>1
      <4>2. PICK k \in 1 .. N : d = <<from[k], to[k]>>
        BY <2>1
      <4>3. n = k
        BY <2>2, <2>3, <3>1, <3>4, <4>1, <4>2
      <4>4. QED
        BY <4>1, <4>2, <4>3
    <3>5. QED
      BY <1>1, <3>2, <3>3, <3>4 DEF RP, RC
  <2>6. QED
    BY <2>4, <2>5
<1>4. QED
  BY <1>2, <1>3

\* Sets that are matched one to one have as many elements.
LEMMA MatchedAlike ==
  ASSUME NEW F, NEW A, NEW B, IsFiniteSet(A), IsFiniteSet(B), F \subseteq A \X B,
         \A c, d \in F : c[1] = d[1] \/ c[2] = d[2] => c = d
  PROVE  /\ IsFiniteSet({i \in A : \A c \in F : c[1] # i})
         /\ IsFiniteSet({l \in B : \A c \in F : c[2] # l})
         /\ Cardinality(A) <= Cardinality(B) =>
              Cardinality({i \in A : \A c \in F : c[1] # i})
                <= Cardinality({l \in B : \A c \in F : c[2] # l})
<1> DEFINE A1 == {c[1] : c \in F}
           B1 == {c[2] : c \in F}
           f == [c \in F |-> c[1]]
           h == [c \in F |-> c[2]]
           A0 == {i \in A : \A c \in F : c[1] # i}
           B0 == {l \in B : \A c \in F : c[2] # l}
<1>1. IsFiniteSet(F)
  <2>1. IsFiniteSet(A \X B)
    BY FS_Product
  <2>2. QED
    BY <2>1, FS_Subset
<1>2. f \in Surjection(F, A1) /\ h \in Surjection(F, B1)
  BY DEF Surjection
<1>3. f \in Injection(F, A1) /\ h \in Injection(F, B1)
  BY DEF Injection, IsInjective
<1>4. A1 \subseteq A /\ B1 \subseteq B /\ A0 = A \ A1 /\ B0 = B \ B1
  OBVIOUS
<1> HIDE DEF f, h, A1, B1, A0, B0
<1>5. Cardinality(A1) = Cardinality(F) /\ Cardinality(B1) = Cardinality(F)
  BY <1>1, <1>2, <1>3, FS_Surjection
<1>6. /\ IsFiniteSet(A0) /\ Cardinality(A0) = Cardinality(A) - Cardinality(A \cap A1)
      /\ IsFiniteSet(B0) /\ Cardinality(B0) = Cardinality(B) - Cardinality(B \cap B1)
  BY <1>4, FS_Difference
<1>7. A \cap A1 = A1 /\ B \cap B1 = B1
  BY <1>4
<1>8. Cardinality(A) \in Nat /\ Cardinality(B) \in Nat /\ Cardinality(F) \in Nat
  BY <1>1, FS_CardinalityType
<1>9. Cardinality(A) <= Cardinality(B) => Cardinality(A0) <= Cardinality(B0)
  BY <1>5, <1>6, <1>7, <1>8
<1>10. QED
  BY <1>6, <1>9 DEF A0, B0

\* What is found for the selections of group g.
Match(g) == Claims(g) \cup Replacements(g) \cup Rebound(g)

\* Where nothing is refused, every occurrence of a group has one candidate of its own, and
\* only instances take the place of others.
LEMMA GroupMatched ==
  ASSUME Tree(payload), NEW X, before \in Seq(X), NEW g, ~Refused(g),
         \A i, j \in DOMAIN before : before[i].id = before[j].id /\ before[i].id # NoObject => i = j,
         \A i, j \in Previous(g) : selections[i].location = selections[j].location => i = j
  PROVE  /\ Match(g) \subseteq Previous(g) \X Candidates(g)
         /\ \A i \in Previous(g) : \E c \in Match(g) : c[1] = i
         /\ \A c, d \in Match(g) : c[1] = d[1] \/ c[2] = d[2] => c = d
         /\ \A c \in Rebound(g) :
              /\ c[2] \in Candidates(g) /\ ~payload[c[2]].instance
              /\ \A d \in Claims(g) : c[2] # d[2]
         /\ \A c \in Replacements(g), d \in Claims(g) \cup Rebound(g) : c[1] # d[1]
<1>1. /\ Claims(g) \subseteq Previous(g) \X Candidates(g)
      /\ Available(g) \subseteq Previous(g) /\ Unclaimed(g) \subseteq Candidates(g)
      /\ Replacements(g) \subseteq Available(g) \X Untaken(g)
      /\ \A c, d \in Replacements(g) : c[1] = d[1] \/ c[2] = d[2] => c = d
      /\ RemainingPrevious(g) # {} => \A l \in Untaken(g) : \E c \in Replacements(g) : c[2] = l
      /\ IsFiniteSet(RemainingPrevious(g))
  BY GroupMatches
<1>2. /\ Rebound(g) \subseteq RemainingPrevious(g) \X RemainingCandidates(g)
      /\ ~Anchored(g) =>
           /\ \A i \in RemainingPrevious(g) : \E c \in Rebound(g) : c[1] = i
           /\ \A c, d \in Rebound(g) : c[1] = d[1] \/ c[2] = d[2] => c = d
  BY ReboundPairs
<1>3. /\ Previous(g) \subseteq DOMAIN before /\ IsFiniteSet(Previous(g))
      /\ IsFiniteSet(Candidates(g))
  BY GroupSets
<1>4. Untaken(g) \subseteq Unclaimed(g) /\ RemainingPrevious(g) \subseteq Available(g)
      /\ RemainingCandidates(g) \subseteq Unclaimed(g)
  BY DEF Untaken, RemainingPrevious, RemainingCandidates
<1> DEFINE F == Claims(g) \cup Replacements(g)
<1>5. \A c, d \in Claims(g) : c[1] = d[1] \/ c[2] = d[2] => c = d
  <2> SUFFICES ASSUME NEW c \in Claims(g), NEW d \in Claims(g), c[1] = d[1] \/ c[2] = d[2]
               PROVE  c = d
    OBVIOUS
  <2>1. /\ c = <<c[1], c[2]>> /\ c[1] \in Previous(g) /\ c[2] \in Candidates(g) /\ Identified(c[1], c[2])
        /\ d = <<d[1], d[2]>> /\ d[1] \in Previous(g) /\ d[2] \in Candidates(g) /\ Identified(d[1], d[2])
    BY DEF Claims
  <2>2. CASE c[1] = d[1]
    <3>1. c[2] = d[2]
      BY <2>1, <2>2 DEF Refused, Reused
    <3>2. QED
      BY <2>1, <2>2, <3>1, Zenon
  <2>3. CASE c[2] = d[2]
    <3>1. before[c[1]].id = before[d[1]].id /\ before[c[1]].id # NoObject
      BY <2>1, <2>3 DEF Identified
    <3>2. c[1] = d[1]
      BY <1>3, <2>1, <3>1
    <3>3. QED
      BY <2>1, <2>3, <3>2, Zenon
  <2>4. QED
    BY <2>2, <2>3
<1>6. /\ \A c \in Claims(g), d \in Replacements(g) : c[1] # d[1] /\ c[2] # d[2]
      /\ \A c \in F, d \in Rebound(g) : c[1] # d[1] /\ c[2] # d[2]
  <2>1. \A i \in Available(g), c \in Claims(g) : c[1] # i
    BY DEF Available
  <2>2. \A l \in Unclaimed(g), c \in Claims(g) : c[2] # l
    BY DEF Unclaimed
  <2>3. \A i \in RemainingPrevious(g), c \in Replacements(g) : c[1] # i
    BY DEF RemainingPrevious
  <2>4. \A l \in RemainingCandidates(g), c \in Replacements(g) : c[2] # l
    BY DEF RemainingCandidates
  <2>5. \A d \in Replacements(g) : d[1] \in Available(g) /\ d[2] \in Unclaimed(g)
    BY <1>1, <1>4
  <2>6. \A d \in Rebound(g) : d[1] \in RemainingPrevious(g) /\ d[2] \in RemainingCandidates(g)
    BY <1>2
  <2>7. QED
    BY <1>4, <2>1, <2>2, <2>3, <2>4, <2>5, <2>6
<1>7. /\ F \subseteq Previous(g) \X Candidates(g)
      /\ \A c, d \in F : c[1] = d[1] \/ c[2] = d[2] => c = d
  <2>1. F \subseteq Previous(g) \X Candidates(g)
    BY <1>1, <1>4
  <2>2. QED
    BY <1>1, <1>5, <1>6, <2>1
<1>8. /\ RemainingPrevious(g) = {i \in Previous(g) : \A c \in F : c[1] # i}
      /\ RemainingCandidates(g) = {l \in Candidates(g) : \A c \in F : c[2] # l}
  <2>1. ASSUME NEW i
        PROVE  i \in RemainingPrevious(g) <=> i \in Previous(g) /\ \A c \in F : c[1] # i
    BY DEF RemainingPrevious, Available
  <2>2. ASSUME NEW l
        PROVE  l \in RemainingCandidates(g) <=> l \in Candidates(g) /\ \A c \in F : c[2] # l
    BY DEF RemainingCandidates, Unclaimed
  <2> HIDE DEF F
  <2>3. QED
    BY <2>1, <2>2
<1>9. Cardinality(Previous(g)) <= Cardinality(Candidates(g))
  <2>1. Cardinality(Previous(g)) \in Nat /\ Cardinality(Candidates(g)) \in Nat
    BY <1>3, FS_CardinalityType
  <2>2. QED
    BY <2>1 DEF Refused, TooFew
<1> HIDE DEF F
<1>10. /\ IsFiniteSet(RemainingCandidates(g))
       /\ Cardinality(RemainingPrevious(g)) <= Cardinality(RemainingCandidates(g))
  <2>1. /\ IsFiniteSet({l \in Candidates(g) : \A c \in F : c[2] # l})
        /\ Cardinality({i \in Previous(g) : \A c \in F : c[1] # i})
             <= Cardinality({l \in Candidates(g) : \A c \in F : c[2] # l})
    BY <1>3, <1>7, <1>9, MatchedAlike
  <2>2. QED
    BY <1>8, <2>1
<1>11. /\ \A i \in RemainingPrevious(g) : \E c \in Rebound(g) : c[1] = i
       /\ \A c, d \in Rebound(g) : c[1] = d[1] \/ c[2] = d[2] => c = d
  <2>1. CASE ~Anchored(g)
    BY <1>2, <2>1
  <2>2. CASE Anchored(g)
    <3> DEFINE RP == RemainingPrevious(g)
               RC == RemainingCandidates(g)
               w == [l \in RC |-> CHOOSE i \in RP : selections[i].location = l]
    <3>1. Rebound(g) = {c \in RP \X RC : selections[c[1]].location = c[2]}
      BY <2>2 DEF Rebound
    <3>2. \A i, j \in RP : selections[i].location = selections[j].location => i = j
      BY <1>1, <1>4
    <3>3. \A l \in RC : w[l] \in RP /\ selections[w[l]].location = l
      BY <2>2 DEF Anchored
    <3>4. w \in Injection(RC, RP)
      <4>1. w \in [RC -> RP]
        BY <3>3
      <4>2. \A l, m \in RC : w[l] = w[m] => l = m
        BY <3>3
      <4> HIDE DEF w
      <4>3. QED
        BY <4>1, <4>2 DEF Injection, IsInjective
    <3> HIDE DEF w, RP, RC
    <3>5. Cardinality(RC) <= Cardinality(RP) /\ (Cardinality(RC) = Cardinality(RP) <=> w \in Surjection(RC, RP))
      BY <1>1, <3>4, FS_Injection DEF RP
    <3>6. Cardinality(RC) = Cardinality(RP)
      <4>1. Cardinality(RC) \in Nat /\ Cardinality(RP) \in Nat
        BY <1>1, <1>10, FS_CardinalityType DEF RP, RC
      <4>2. QED
        BY <1>10, <3>5, <4>1 DEF RP, RC
    <3>7. ASSUME NEW i \in RP
          PROVE  \E c \in Rebound(g) : c[1] = i
      <4>1. PICK l \in RC : w[l] = i
        BY <3>5, <3>6 DEF Surjection
      <4>2. <<i, l>> \in Rebound(g)
        BY <3>1, <3>3, <4>1
      <4>3. QED
        BY <4>2
    <3>8. ASSUME NEW c \in Rebound(g), NEW d \in Rebound(g), c[1] = d[1] \/ c[2] = d[2]
          PROVE  c = d
      <4>1. /\ c = <<c[1], c[2]>> /\ c[1] \in RP /\ selections[c[1]].location = c[2]
            /\ d = <<d[1], d[2]>> /\ d[1] \in RP /\ selections[d[1]].location = d[2]
        BY <3>1
      <4>2. c[1] = d[1] /\ c[2] = d[2]
        BY <3>2, <3>8, <4>1
      <4>3. QED
        BY <4>1, <4>2, Zenon
    <3>9. QED
      BY <3>7, <3>8 DEF RP
  <2>3. QED
    BY <2>1, <2>2
<1>12. Match(g) = F \cup Rebound(g)
  BY DEF Match, F
<1>13. Match(g) \subseteq Previous(g) \X Candidates(g)
  BY <1>1, <1>2, <1>4, <1>7, <1>12
<1>14. ASSUME NEW i \in Previous(g)
       PROVE  \E c \in Match(g) : c[1] = i
  BY <1>8, <1>11, <1>12
<1>15. \A c, d \in Match(g) : c[1] = d[1] \/ c[2] = d[2] => c = d
  BY <1>6, <1>7, <1>11, <1>12 DEF F
<1>16. ASSUME NEW c \in Rebound(g)
       PROVE  /\ c[2] \in Candidates(g) /\ ~payload[c[2]].instance
              /\ \A d \in Claims(g) : c[2] # d[2]
  <2>1. c[1] \in RemainingPrevious(g) /\ c[2] \in RemainingCandidates(g)
    BY <1>2
  <2>2. c[2] \notin Untaken(g)
    BY <1>1, <2>1 DEF RemainingCandidates
  <2>3. QED
    BY <1>1, <1>4, <1>6, <2>1, <2>2 DEF Untaken, F
<1>17. \A c \in Replacements(g), d \in Claims(g) \cup Rebound(g) : c[1] # d[1]
  BY <1>6 DEF F
<1>18. QED
  BY <1>13, <1>14, <1>15, <1>16, <1>17

\* The selections of a group, when it is reconciled.
LEMMA ReconciledGroup ==
  ASSUME NEW g, Match(g) \subseteq Previous(g) \X Candidates(g),
         \A c, d \in Match(g) : c[1] = d[1] \/ c[2] = d[2] => c = d,
         \A c \in Replacements(g), d \in Claims(g) \cup Rebound(g) : c[1] # d[1],
         Previous(g) \subseteq DOMAIN selections
  PROVE  /\ DOMAIN Reconciled(g) = DOMAIN selections
         /\ Reconciled(g) = [i \in DOMAIN Reconciled(g) |-> Reconciled(g)[i]]
         /\ \A i \in DOMAIN selections \ Previous(g) : Reconciled(g)[i] = selections[i]
         /\ \A c \in Claims(g) \cup Rebound(g) :
              Reconciled(g)[c[1]] =
                [selections[c[1]] EXCEPT !.location = c[2], !.id = payload[c[2]].id]
         /\ \A c \in Replacements(g) : Reconciled(g)[c[1]] = Replacement(c[1], c[2])
<1> DEFINE found == Claims(g) \cup Rebound(g)
           pick(i) == CHOOSE c \in found : c[1] = i
           take(i) == CHOOSE c \in Replacements(g) : c[1] = i
           kept(i, l) == [selections[i] EXCEPT !.location = l, !.id = payload[l].id]
           new(i) == IF \E c \in found : c[1] = i THEN kept(i, pick(i)[2])
                     ELSE IF \E c \in Replacements(g) : c[1] = i THEN Replacement(i, take(i)[2])
                     ELSE selections[i]
<1>1. Reconciled(g) = [i \in DOMAIN selections |-> new(i)]
  BY DEF Reconciled
<1>2. found \subseteq Match(g) /\ Replacements(g) \subseteq Match(g)
      /\ \A c \in Match(g) : c[1] \in Previous(g) /\ c[1] \in DOMAIN selections
  BY DEF Match
<1>3. ASSUME NEW c \in found
      PROVE  pick(c[1]) = c
  <2>1. pick(c[1]) \in found /\ pick(c[1])[1] = c[1]
    OBVIOUS
  <2> HIDE DEF pick, found
  <2>2. QED
    BY <1>2, <2>1
<1>4. ASSUME NEW c \in Replacements(g)
      PROVE  take(c[1]) = c /\ ~ \E d \in found : d[1] = c[1]
  <2>1. take(c[1]) \in Replacements(g) /\ take(c[1])[1] = c[1]
    OBVIOUS
  <2>2. ~ \E d \in found : d[1] = c[1]
    BY <1>4
  <2> HIDE DEF take, found
  <2>3. QED
    BY <1>2, <2>1, <2>2
<1> HIDE DEF pick, take, kept, found
<1>5. \A c \in found : new(c[1]) = kept(c[1], c[2])
  BY <1>3
<1>6. \A i \in DOMAIN selections \ Previous(g) : new(i) = selections[i]
  BY <1>2
<1>7. \A c \in Replacements(g) : new(c[1]) = Replacement(c[1], c[2])
  BY <1>4
<1> HIDE DEF new
<1>8. DOMAIN Reconciled(g) = DOMAIN selections /\ \A i \in DOMAIN selections : Reconciled(g)[i] = new(i)
  BY <1>1
<1>9. Reconciled(g) = [i \in DOMAIN Reconciled(g) |-> Reconciled(g)[i]]
  BY <1>1
<1>10. \A c \in found \cup Replacements(g) : c[1] \in DOMAIN selections
  BY <1>2
<1>11. \A i \in DOMAIN selections \ Previous(g) : Reconciled(g)[i] = selections[i]
  BY <1>6, <1>8
<1>12. \A c \in found : Reconciled(g)[c[1]] = kept(c[1], c[2])
  BY <1>5, <1>8, <1>10
<1>13. \A c \in Replacements(g) : Reconciled(g)[c[1]] = Replacement(c[1], c[2])
  BY <1>7, <1>8, <1>10
<1>14. QED
  BY <1>8, <1>9, <1>11, <1>12, <1>13 DEF kept, found

-----------------------------------------------------------------------------
(* Types. *)

\* What selections and values are.
SelectionType == [family : Families, label : Labels, location : Locations, id : Objects]
ValueType ==
  [family : Families \cup {Spoiled}, label : Labels, id : Objects, instance : BOOLEAN]

\* A payload is a tree of values; instances follow the family that they are of.
WellTyped(p) ==
  /\ Tree(p) /\ DOMAIN p \subseteq Locations
  /\ \A l \in DOMAIN p : p[l] \in ValueType /\ (p[l].instance => p[l].family # Spoiled)

\* The type invariant, with what makes it inductive: the edges end at the target, the loop
\* goes through its stages in order, and objects are numbered as they are created.
Typing ==
  /\ target \in Labels /\ at \in Labels
  /\ phase \in {"idle", "convert", "reconcile", "callback", "project", "done", "refused"}
  /\ stage \in {"edge", "called", "last"}
  /\ WellTyped(payload)
  /\ selections \in Seq(SelectionType) /\ before \in Seq(SelectionType)
  /\ phase = "reconcile" => Len(selections) = Len(before)
  /\ todo \subseteq Groups(before)
  /\ replaced \subseteq DOMAIN before
  /\ edits \in 0 .. MaxEdits
  /\ stage # "last" => at # target
  /\ phase = "convert" => stage # "called"
  /\ phase = "callback" =>
       stage = "edge" /\ \A l \in DOMAIN payload : payload[l].id.nth <= edits
  /\ phase = "reconcile" /\ stage # "called" => \A l \in DOMAIN payload : payload[l].id.nth = 0

\* Locations are sequences of slots of bounded length.
LEMMA LocationsAre ==
  /\ \A l : l \in Locations <=> l \in Seq(Slots) /\ Len(l) <= Depth
  /\ <<>> \in Locations
<1>1. Depth \in Nat
  BY BoundsAssumption DEF BoundsAssumption
<1>2. Locations = UNION {[1 .. m -> Slots] : m \in 0 .. Depth}
  BY <1>1 DEF Locations, BoundedSeq, SeqOf
<1>3. ASSUME NEW l, l \in Locations
      PROVE  l \in Seq(Slots) /\ Len(l) <= Depth
  <2>1. PICK m \in 0 .. Depth : l \in [1 .. m -> Slots]
    BY <1>2, <1>3
  <2>2. m \in Nat /\ m <= Depth
    BY <1>1, <2>1
  <2>3. l \in Seq(Slots) /\ Len(l) = m
    BY <2>1, <2>2
  <2>4. QED
    BY <2>2, <2>3
<1>4. ASSUME NEW l, l \in Seq(Slots), Len(l) <= Depth
      PROVE  l \in Locations
  <2>1. l \in [1 .. Len(l) -> Slots] /\ Len(l) \in Nat
    BY <1>4, LenProperties
  <2>2. Len(l) \in 0 .. Depth
    BY <1>1, <1>4, <2>1
  <2>3. QED
    BY <1>2, <2>1, <2>2
<1>5. <<>> \in Locations
  <2>1. <<>> \in Seq(Slots) /\ Len(<<>>) = 0
    BY EmptySeq
  <2>2. ASSUME NEW e \in Seq(Slots), Len(e) = 0
        PROVE  e \in Locations
    <3>1. Len(e) <= Depth
      BY <1>1, <2>2
    <3>2. QED
      BY <1>4, <3>1
  <2>3. QED
    BY <2>1, <2>2, Zenon
<1>6. QED
  BY <1>3, <1>4, <1>5

\* The label that the next edge needs, and the one that conversion aims at, exist.
LEMMA GoalExists ==
  ASSUME target \in Labels, at \in Labels, stage # "last" => at # target
  PROVE  Goal \in Labels /\ (at # target => Ahead \in Labels)
<1>1. Size \in Nat
  BY BoundsAssumption DEF BoundsAssumption
<1>2. at # target => Ahead \in Labels
  BY <1>1 DEF Labels, Ahead
<1>3. QED
  BY <1>2 DEF Goal

\* Objects that are where they were when identities were refreshed.
LEMMA PlainObjects ==
  ASSUME NEW l \in Locations
  PROVE  Object(l, 0) \in Objects /\ NoObject \in Objects /\ Size \in Labels
<1>1. MaxEdits \in Nat /\ Size \in Nat \ {0}
  BY BoundsAssumption DEF BoundsAssumption
<1>2. 0 \in 0 .. MaxEdits /\ Size \in Labels
  BY <1>1 DEF Labels
<1>3. <<>> \in Locations
  BY LocationsAre
<1>4. QED
  BY <1>2, <1>3 DEF Object, NoObject, Objects

\* The families of a site.
LEMMA ArmFamilies ==
  ASSUME NEW s \in Sites
  PROVE  Arm(s) \subseteq Families
<1>1. Arms[s] \in Seq(Families)
  BY SitesAssumption DEF SitesAssumption
<1>2. QED
  BY <1>1, LenProperties DEF Arm, ToSet

\* Types hold at first.
LEMMA TypingInit ==
  ASSUME Init
  PROVE  Typing
<1>1. Size \in Labels
  BY LocationsAre, PlainObjects
<1>2. DOMAIN payload = {} /\ DOMAIN before = {} /\ Len(selections) = Len(before)
  BY DEF Init
<1>3. selections \in Seq(SelectionType) /\ before \in Seq(SelectionType)
  BY EmptySeq DEF Init
<1>4. WellTyped(payload)
  BY <1>2, FS_EmptySet DEF WellTyped, Tree
<1>5. edits \in 0 .. MaxEdits
  BY BoundsAssumption DEF BoundsAssumption, Init
<1>6. QED
  BY <1>1, <1>2, <1>3, <1>4, <1>5 DEF Init, Typing

\* Identities are refreshed in a payload.
LEMMA RefreshedTyped ==
  ASSUME NEW p, Tree(p), DOMAIN p \subseteq Locations,
         \A l \in DOMAIN p : p[l] \in ValueType /\ (p[l].instance => p[l].family # Spoiled)
  PROVE  /\ WellTyped(Refreshed(p)) /\ DOMAIN Refreshed(p) = DOMAIN p
         /\ \A l \in DOMAIN p : Refreshed(p)[l] = [p[l] EXCEPT !.id = Object(l, 0)]
<1>1. DOMAIN Refreshed(p) = DOMAIN p
      /\ \A l \in DOMAIN p : Refreshed(p)[l] = [p[l] EXCEPT !.id = Object(l, 0)]
  BY DEF Refreshed
<1>2. ASSUME NEW l \in DOMAIN p
      PROVE  Refreshed(p)[l] \in ValueType /\ (Refreshed(p)[l].instance => Refreshed(p)[l].family # Spoiled)
  <2>1. Object(l, 0) \in Objects
    BY PlainObjects
  <2>2. QED
    BY <1>1, <2>1 DEF ValueType
<1>3. Tree(Refreshed(p))
  BY <1>1 DEF Tree
<1>4. QED
  BY <1>1, <1>2, <1>3 DEF WellTyped

\* The first payload of a conversion.
LEMMA SourceTyped ==
  ASSUME NEW d \in Documents, NEW a \in Labels, NEW p,
         p = [l \in DOMAIN d |-> Value(d[l], a, Object(l, 0), FALSE)]
  PROVE  /\ WellTyped(p)
         /\ \A l \in DOMAIN p : /\ p[l] = Value(d[l], a, Object(l, 0), FALSE)
                                /\ p[l].family \in Arm(SiteOf(l))
<1>1. /\ IsFiniteSet(DOMAIN d) /\ DOMAIN d \subseteq Locations \ {<<>>}
      /\ \A l \in DOMAIN d :
           /\ d[l] \in Families /\ \E i \in DOMAIN Arms[SiteOf(l)] : Arms[SiteOf(l)][i] = d[l]
           /\ Len(l) > 1 => Front(l) \in DOMAIN d
  BY DocumentsAssumption DEF DocumentsAssumption, Locations
<1>2. DOMAIN p = DOMAIN d /\ \A l \in DOMAIN p : p[l] = Value(d[l], a, Object(l, 0), FALSE)
  OBVIOUS
<1>3. Tree(p)
  BY <1>1, <1>2, LocationsAre DEF Tree
<1>4. ASSUME NEW l \in DOMAIN p
      PROVE  p[l] \in ValueType /\ ~p[l].instance /\ p[l].family \in Arm(SiteOf(l))
  <2>1. d[l] \in Families /\ d[l] \in Arm(SiteOf(l)) /\ Object(l, 0) \in Objects
    BY <1>1, <1>2, PlainObjects DEF Arm, ToSet
  <2>2. QED
    BY <1>2, <2>1 DEF ValueType, Value
<1>5. QED
  BY <1>1, <1>2, <1>3, <1>4 DEF WellTyped

\* The occurrences of a source.
LEMMA SelectedTyped ==
  ASSUME NEW p, WellTyped(p)
  PROVE  /\ Selected(p) \in Seq(SelectionType)
         /\ \A i \in DOMAIN Selected(p) : \E l \in Occurrences(p) :
              Selected(p)[i] = Selection(p[l].family, p[l].label, l, p[l].id)
         /\ \A l \in Occurrences(p) : \E i \in DOMAIN Selected(p) : Selected(p)[i].location = l
         /\ \A i, j \in DOMAIN Selected(p) :
              Selected(p)[i].location = Selected(p)[j].location => i = j
<1>1. PICK order :
        /\ Enumerates(order, Occurrences(p))
        /\ Selected(p) = [i \in 1 .. Cardinality(Occurrences(p)) |->
             Selection(p[order[i]].family, p[order[i]].label, order[i], p[order[i]].id)]
  BY SelectedOccurrences DEF WellTyped
<1> DEFINE N == Cardinality(Occurrences(p))
           x(l) == Selection(p[l].family, p[l].label, l, p[l].id)
<1>2. /\ N \in Nat
      /\ \A n \in 1 .. N : order[n] \in Occurrences(p)
      /\ \A l \in Occurrences(p) : \E n \in 1 .. N : order[n] = l
      /\ \A n, k \in 1 .. N : order[n] = order[k] => n = k
  BY <1>1 DEF Enumerates
<1>3. ASSUME NEW l \in Occurrences(p)
      PROVE  x(l) \in SelectionType /\ x(l).location = l
  <2>1. l \in DOMAIN p /\ l \in Locations /\ p[l] \in ValueType
    BY DEF WellTyped, Occurrences
  <2>2. l \in Seq(Slots) /\ l # <<>> /\ Len(l) \in Nat \ {0}
    BY <2>1, EmptySeq DEF WellTyped, Tree
  <2>3. SubSeq(l, 1, Len(l)) = l /\ Len(l) \in 1 .. Len(l) /\ l[Len(l)] \in Slots
    BY <2>2, SubSeqFull, ElementOfSeq
  <2>4. p[l].family \in Arm(l[Len(l)][1])
    BY <2>3 DEF Occurrences
  <2>5. p[l].family \in Families
    BY <2>3, <2>4, SlotNumbers, ArmFamilies
  <2>6. QED
    BY <2>1, <2>5 DEF Selection, SelectionType, ValueType
<1>4. DOMAIN Selected(p) = 1 .. N /\ \A i \in 1 .. N : Selected(p)[i] = x(order[i])
  BY <1>1
<1>5. Selected(p) = [i \in DOMAIN Selected(p) |-> Selected(p)[i]]
  BY <1>1
<1> HIDE DEF x, N
<1>6. \A i \in 1 .. N : Selected(p)[i] \in SelectionType /\ Selected(p)[i].location = order[i]
  BY <1>2, <1>3, <1>4
<1>7. Selected(p) \in Seq(SelectionType)
  BY <1>2, <1>4, <1>5, <1>6, SeqOfFunction
<1>8. \A l \in Occurrences(p) : \E i \in DOMAIN Selected(p) : Selected(p)[i].location = l
  BY <1>2, <1>4, <1>6
<1>9. \A i, j \in DOMAIN Selected(p) : Selected(p)[i].location = Selected(p)[j].location => i = j
  BY <1>2, <1>4, <1>6
<1>10. \A i \in DOMAIN Selected(p) : \E l \in Occurrences(p) : Selected(p)[i] = x(l)
  BY <1>2, <1>4
<1>11. QED
  BY <1>7, <1>8, <1>9, <1>10 DEF x

\* Types hold when a conversion begins.
LEMMA TypingBegin ==
  ASSUME NEW d \in Documents, NEW from \in Labels, NEW to \in Labels, Begin(d, from, to)
  PROVE  Typing'
<1>1. WellTyped(payload')
  BY SourceTyped DEF Begin
<1>2. selections' \in Seq(SelectionType)
  BY <1>1, SelectedTyped DEF Begin
<1>3. before' = <<>> /\ before' \in Seq(SelectionType) /\ DOMAIN before' = {}
  BY EmptySeq DEF Begin
<1>4. edits' \in 0 .. MaxEdits
  BY BoundsAssumption DEF BoundsAssumption, Begin
<1>5. todo' = {} /\ replaced' = {} /\ target' = to /\ at' = from /\ phase' = "convert"
      /\ stage' = IF from = to THEN "last" ELSE "edge"
  BY DEF Begin, GoOn
<1>6. WellTyped(payload)'
  BY <1>1 DEF WellTyped, Tree
<1>7. QED
  BY <1>2, <1>3, <1>4, <1>5, <1>6 DEF Typing

\* A converted value is one.
LEMMA ConvertedValue ==
  ASSUME NEW v \in ValueType, NEW x, NEW a \in Labels
  PROVE  Converted(v, x, a) \in ValueType /\ ~Converted(v, x, a).instance /\ Converted(v, x, a).id = v.id
<1>1. CASE v.family = x.family /\ v.label = x.label
  <2>1. Converted(v, x, a) = [v EXCEPT !.label = a, !.instance = FALSE]
    BY <1>1 DEF Converted
  <2>2. QED
    BY <2>1 DEF ValueType
<1>2. CASE ~(v.family = x.family /\ v.label = x.label)
  <2>1. Converted(v, x, a) = [v EXCEPT !.family = Spoiled, !.label = a, !.instance = FALSE]
    BY <1>2 DEF Converted
  <2>2. QED
    BY <2>1 DEF ValueType
<1>3. QED
  BY <1>1, <1>2

\* A payload whose occurrences are converted.
LEMMA ConvertedTyped ==
  ASSUME WellTyped(payload), NEW a \in Labels
  PROVE  WellTyped(ConvertedPayload(a)) /\ DOMAIN ConvertedPayload(a) = DOMAIN payload
<1> DEFINE x(l) == selections[CHOOSE i \in SelectedAt(l) : TRUE]
           new(l) == IF \E i \in SelectedAt(l) : selections[i].label # a
                     THEN Converted(payload[l], x(l), a) ELSE payload[l]
<1>1. ConvertedPayload(a) = [l \in DOMAIN payload |-> new(l)]
  BY DEF ConvertedPayload
<1>2. \A l \in DOMAIN payload : new(l) \in ValueType /\ (new(l).instance => new(l).family # Spoiled)
  <2> TAKE l \in DOMAIN payload
  <2>1. payload[l] \in ValueType /\ (payload[l].instance => payload[l].family # Spoiled)
    BY DEF WellTyped
  <2>2. Converted(payload[l], x(l), a) \in ValueType /\ ~Converted(payload[l], x(l), a).instance
    BY <2>1, ConvertedValue
  <2>3. QED
    BY <2>1, <2>2
<1> HIDE DEF new
<1>3. DOMAIN ConvertedPayload(a) = DOMAIN payload /\ \A l \in DOMAIN payload : ConvertedPayload(a)[l] = new(l)
  BY <1>1
<1>4. QED
  BY <1>2, <1>3 DEF WellTyped, Tree

\* What the callbacks of owners make of it.
LEMMA OutcomesTyped ==
  ASSUME NEW q, WellTyped(q), NEW owners, NEW p \in OwnerOutcomes(q, owners)
  PROVE  WellTyped(p)
<1> DEFINE kids == {l \in DOMAIN q : Len(l) > 1 /\ Front(l) \in owners}
           pairs == {y \in kids \X kids : Front(y[1]) = Front(y[2]) /\ SiteOf(y[1]) = SiteOf(y[2])}
           Lengths == \A m \in DOMAIN p : \E x \in DOMAIN q : Len(x) = Len(m)
<1>1. \/ p = q
      \/ \E l \in kids : p = Without(q, l)
      \/ \E y \in pairs : p = Swapped(q, y[1], y[2])
  <2>1. OwnerOutcomes(q, owners) =
          {q} \cup (IF "drop" \in OwnerEdits THEN {Without(q, l) : l \in kids} ELSE {})
          \cup (IF "swap" \in OwnerEdits THEN {Swapped(q, y[1], y[2]) : y \in pairs} ELSE {})
    BY DEF OwnerOutcomes
  <2> HIDE DEF kids, pairs
  <2>2. QED
    BY <2>1
<1>2. Tree(q) /\ DOMAIN q \subseteq Locations
  BY DEF WellTyped
<1>3. ASSUME Tree(p), Values(p) \subseteq Values(q), Lengths
      PROVE  WellTyped(p)
  <2>1. ASSUME NEW l \in DOMAIN p PROVE l \in Locations
    <3>1. PICK x \in DOMAIN q : Len(x) = Len(l)
      BY <1>3
    <3>2. l \in Seq(Slots) /\ x \in Locations
      BY <1>2, <1>3 DEF Tree
    <3>3. QED
      BY <3>1, <3>2, LocationsAre
  <2>2. ASSUME NEW l \in DOMAIN p
        PROVE  p[l] \in ValueType /\ (p[l].instance => p[l].family # Spoiled)
    <3>1. p[l] \in Values(q)
      BY <1>3 DEF Values
    <3>2. QED
      BY <3>1 DEF WellTyped, Values
  <2>3. QED
    BY <1>3, <2>1, <2>2 DEF WellTyped
<1> HIDE DEF Lengths
<1>4. ASSUME NEW l \in kids, p = Without(q, l)
      PROVE  WellTyped(p)
  <2>1. Tree(p) /\ Values(p) \subseteq Values(q) /\ Lengths
    BY <1>2, <1>4, WithoutFromTree DEF Lengths
  <2>2. QED
    BY <1>3, <2>1
<1>5. ASSUME NEW y \in pairs, p = Swapped(q, y[1], y[2])
      PROVE  WellTyped(p)
  <2>1. y[1] \in DOMAIN q /\ y[2] \in DOMAIN q /\ Front(y[1]) = Front(y[2])
    OBVIOUS
  <2>2. y[1] \in Seq(Slots) /\ y[1] # <<>> /\ y[2] \in Seq(Slots) /\ y[2] # <<>>
    BY <1>2, <2>1 DEF Tree
  <2>3. Len(Front(y[1])) = Len(y[1]) - 1 /\ Len(Front(y[2])) = Len(y[2]) - 1
        /\ Len(y[1]) \in Nat /\ Len(y[2]) \in Nat
    BY <2>2, FrontAndLast
  <2>4. Len(y[1]) = Len(y[2])
    BY <2>1, <2>3
  <2> HIDE DEF pairs, kids
  <2>5. Tree(p) /\ Values(p) \subseteq Values(q) /\ Lengths
    BY <1>2, <1>5, <2>1, <2>4, SwappedInTree DEF Lengths
  <2>6. QED
    BY <1>3, <2>5
<1>6. QED
  BY <1>1, <1>4, <1>5

\* A conversion is refused.
LEMMA TypingRefuse ==
  ASSUME Typing, Refuse
  PROVE  Typing'
<1>1. WellTyped(payload)'
  BY DEF Refuse, Typing, WellTyped, Tree
<1>2. QED
  BY <1>1 DEF Typing, Refuse, Groups

\* The selections after a conversion, from those before it.
Aimed(xs, p, a) ==
  [i \in DOMAIN xs |->
     Selection(xs[i].family, a, xs[i].location,
               IF xs[i].location \in DOMAIN p THEN Object(xs[i].location, 0) ELSE NoObject)]

\* They are selections.
LEMMA AimedTyped ==
  ASSUME NEW xs \in Seq(SelectionType), NEW p, NEW a \in Labels
  PROVE  /\ Aimed(xs, p, a) \in Seq(SelectionType) /\ Len(Aimed(xs, p, a)) = Len(xs)
         /\ DOMAIN Aimed(xs, p, a) = DOMAIN xs
<1> DEFINE new(i) == Selection(xs[i].family, a, xs[i].location,
                       IF xs[i].location \in DOMAIN p THEN Object(xs[i].location, 0) ELSE NoObject)
<1>1. Aimed(xs, p, a) = [i \in DOMAIN xs |-> new(i)]
  BY DEF Aimed
<1>2. DOMAIN xs = 1 .. Len(xs)
  BY LenProperties
<1>3. ASSUME NEW i \in 1 .. Len(xs)
      PROVE  new(i) \in SelectionType
  <2>1. xs[i] \in SelectionType
    BY ElementOfSeq
  <2>2. xs[i].location \in Locations /\ xs[i].family \in Families
    BY <2>1 DEF SelectionType
  <2>3. Object(xs[i].location, 0) \in Objects /\ NoObject \in Objects
    BY <2>2, PlainObjects
  <2>4. QED
    BY <2>2, <2>3 DEF Selection, SelectionType
<1> HIDE DEF new
<1>4. Len(xs) \in Nat
  BY LenProperties
<1>5. DOMAIN Aimed(xs, p, a) = 1 .. Len(xs) /\ \A i \in 1 .. Len(xs) : Aimed(xs, p, a)[i] = new(i)
  BY <1>1, <1>2
<1>6. Aimed(xs, p, a) = [i \in DOMAIN Aimed(xs, p, a) |-> Aimed(xs, p, a)[i]]
  BY <1>1
<1>7. \A i \in 1 .. Len(xs) : Aimed(xs, p, a)[i] \in SelectionType
  BY <1>3, <1>5
<1>8. Aimed(xs, p, a) \in Seq(SelectionType) /\ Len(Aimed(xs, p, a)) = Len(xs)
  BY <1>4, <1>5, <1>6, <1>7, SeqOfFunction
<1>9. QED
  BY <1>2, <1>5, <1>8

\* What a conversion does, if it is not refused.
LEMMA ConvertMeans ==
  ASSUME Convert, ~Refuse
  PROVE  /\ phase = "convert" /\ phase' = "reconcile"
         /\ \E owners : \E p \in OwnerOutcomes(ConvertedPayload(Goal), owners) : payload' = Refreshed(p)
         /\ selections' = Aimed(selections, payload', Goal)
         /\ before' = selections' /\ todo' = Groups(selections') /\ replaced' = {}
         /\ UNCHANGED <<target, at, stage, edits>>
BY DEF Convert, Reconcile, Aimed

\* Types hold when occurrences are converted.
LEMMA TypingConvert ==
  ASSUME Typing, Convert
  PROVE  Typing'
<1>1. CASE Refuse
  BY <1>1, TypingRefuse
<1>2. CASE ~Refuse
  <2>1. /\ phase = "convert" /\ phase' = "reconcile"
        /\ \E owners : \E p \in OwnerOutcomes(ConvertedPayload(Goal), owners) : payload' = Refreshed(p)
        /\ selections' = Aimed(selections, payload', Goal)
        /\ before' = selections' /\ todo' = Groups(selections') /\ replaced' = {}
        /\ UNCHANGED <<target, at, stage, edits>>
    BY <1>2, ConvertMeans
  <2>2. Goal \in Labels
    BY GoalExists DEF Typing
  <2>3. PICK owners, p : p \in OwnerOutcomes(ConvertedPayload(Goal), owners) /\ payload' = Refreshed(p)
    BY <2>1
  <2>4. WellTyped(p)
    BY <2>2, <2>3, ConvertedTyped, OutcomesTyped DEF Typing
  <2>5. /\ WellTyped(Refreshed(p)) /\ DOMAIN Refreshed(p) = DOMAIN p
        /\ \A l \in DOMAIN p : Refreshed(p)[l] = [p[l] EXCEPT !.id = Object(l, 0)]
    BY <2>4, RefreshedTyped DEF WellTyped
  <2>6. WellTyped(payload)'
    BY <2>3, <2>5 DEF WellTyped, Tree
  <2>7. \A l \in DOMAIN payload' : payload'[l].id.nth = 0
    <3> TAKE l \in DOMAIN payload'
    <3>1. payload'[l] = [p[l] EXCEPT !.id = Object(l, 0)] /\ p[l] \in ValueType
      BY <2>3, <2>4, <2>5 DEF WellTyped
    <3>2. payload'[l].id = Object(l, 0)
      BY <3>1 DEF ValueType
    <3>3. QED
      BY <3>2 DEF Object
  <2>8. selections' \in Seq(SelectionType)
    BY <2>1, <2>2, AimedTyped DEF Typing
  <2>9. QED
    BY <2>1, <2>6, <2>7, <2>8 DEF Typing, Groups
<1>3. QED
  BY <1>1, <1>2

\* The selections of a group are found in the payload.
LEMMA ReconciledTyped ==
  ASSUME WellTyped(payload), before \in Seq(SelectionType), selections \in Seq(SelectionType),
         NEW g, ~Refused(g)
  PROVE  /\ Reconciled(g) \in Seq(SelectionType) /\ Len(Reconciled(g)) = Len(selections)
         /\ {c[1] : c \in Replacements(g)} \subseteq DOMAIN before
<1> DEFINE found == Claims(g) \cup Rebound(g)
           l1(i) == (CHOOSE c \in found : c[1] = i)[2]
           l2(i) == (CHOOSE c \in Replacements(g) : c[1] = i)[2]
           new(i) == IF \E c \in found : c[1] = i
                     THEN [selections[i] EXCEPT !.location = l1(i), !.id = payload[l1(i)].id]
                     ELSE IF \E c \in Replacements(g) : c[1] = i
                     THEN Replacement(i, l2(i))
                     ELSE selections[i]
<1>1. Reconciled(g) = [i \in DOMAIN selections |-> new(i)]
  BY DEF Reconciled
<1>2. Tree(payload) /\ \A l \in DOMAIN payload : /\ l \in Locations /\ payload[l] \in ValueType
                                                 /\ payload[l].instance => payload[l].family # Spoiled
  BY DEF WellTyped
<1>3. /\ Claims(g) \subseteq Previous(g) \X Candidates(g)
      /\ Available(g) \subseteq Previous(g) /\ Unclaimed(g) \subseteq Candidates(g)
      /\ Replacements(g) \subseteq Available(g) \X Untaken(g)
  BY <1>2, GroupMatches
<1>4. Rebound(g) \subseteq RemainingPrevious(g) \X RemainingCandidates(g)
  BY <1>2, ReboundPairs
<1>5. Previous(g) \subseteq DOMAIN before /\ Candidates(g) \subseteq DOMAIN payload
  BY <1>2, GroupSets
<1>6. RemainingCandidates(g) \subseteq DOMAIN payload /\ Untaken(g) \subseteq DOMAIN payload
  BY <1>3, <1>5 DEF RemainingCandidates, Untaken
<1>7. \A c \in found : c[2] \in DOMAIN payload
  BY <1>3, <1>4, <1>5, <1>6
<1>8. \A c \in Replacements(g) : c[2] \in DOMAIN payload /\ payload[c[2]].instance
  BY <1>3, <1>6 DEF Untaken
<1>9. DOMAIN selections = 1 .. Len(selections) /\ Len(selections) \in Nat
  BY LenProperties
<1> HIDE DEF found
<1>10. ASSUME NEW i \in 1 .. Len(selections)
       PROVE  new(i) \in SelectionType
  <2>1. selections[i] \in SelectionType
    BY ElementOfSeq
  <2>2. CASE \E c \in found : c[1] = i
    <3>1. l1(i) \in DOMAIN payload
      BY <1>7, <2>2
    <3> HIDE DEF l1
    <3>2. l1(i) \in Locations /\ payload[l1(i)].id \in Objects
      BY <1>2, <3>1 DEF ValueType
    <3>3. [selections[i] EXCEPT !.location = l1(i), !.id = payload[l1(i)].id] \in SelectionType
      BY <2>1, <3>2 DEF SelectionType
    <3>4. QED
      BY <2>2, <3>3
  <2>3. CASE ~(\E c \in found : c[1] = i) /\ \E c \in Replacements(g) : c[1] = i
    <3>1. l2(i) \in DOMAIN payload /\ payload[l2(i)].instance
      BY <1>8, <2>3
    <3> HIDE DEF l2
    <3>2. /\ l2(i) \in Locations /\ payload[l2(i)] \in ValueType
          /\ payload[l2(i)].family # Spoiled
      BY <1>2, <3>1
    <3>3. payload[l2(i)].id \in Objects /\ payload[l2(i)].family \in Families
      BY <3>2 DEF ValueType
    <3>4. Size \in Labels
      BY <3>2, PlainObjects
    <3>5. Replacement(i, l2(i)) \in SelectionType
      BY <3>2, <3>3, <3>4 DEF Replacement, Selection, SelectionType
    <3>6. QED
      BY <2>3, <3>5
  <2>4. CASE ~(\E c \in found : c[1] = i) /\ ~(\E c \in Replacements(g) : c[1] = i)
    BY <2>1, <2>4
  <2>5. QED
    BY <2>2, <2>3, <2>4
<1> HIDE DEF new
<1>11. Reconciled(g) = [i \in DOMAIN Reconciled(g) |-> Reconciled(g)[i]]
       /\ DOMAIN Reconciled(g) = 1 .. Len(selections)
       /\ \A i \in 1 .. Len(selections) : Reconciled(g)[i] = new(i)
  BY <1>1, <1>9
<1>12. \A i \in 1 .. Len(selections) : Reconciled(g)[i] \in SelectionType
  BY <1>10, <1>11
<1>13. Reconciled(g) \in Seq(SelectionType) /\ Len(Reconciled(g)) = Len(selections)
  BY <1>9, <1>11, <1>12, SeqOfFunction
<1>14. {c[1] : c \in Replacements(g)} \subseteq DOMAIN before
  BY <1>3, <1>5
<1>15. QED
  BY <1>13, <1>14

\* Types hold when a group is reconciled.
LEMMA TypingReconcileGroup ==
  ASSUME Typing, ReconcileGroup
  PROVE  Typing'
<1> DEFINE g == NextGroup
<1>1. \/ Refuse
      \/ /\ todo' = todo \ {g}
         /\ UNCHANGED <<target, at, phase, stage, payload, selections, before, replaced, edits>>
      \/ /\ ~Refused(g) /\ todo' = todo \ {g} /\ selections' = Reconciled(g)
         /\ replaced' = replaced \cup {c[1] : c \in Replacements(g)}
         /\ UNCHANGED <<target, at, phase, stage, payload, before, edits>>
  BY DEF ReconcileGroup
<1> HIDE DEF g
<1>2. ASSUME payload' = payload
      PROVE  WellTyped(payload)'
  BY <1>2 DEF Typing, WellTyped, Tree
<1>3. CASE Refuse
  BY <1>3, TypingRefuse
<1>4. CASE /\ todo' = todo \ {g}
           /\ UNCHANGED <<target, at, phase, stage, payload, selections, before, replaced, edits>>
  BY <1>2, <1>4 DEF Typing, Groups
<1>5. CASE /\ ~Refused(g) /\ todo' = todo \ {g} /\ selections' = Reconciled(g)
           /\ replaced' = replaced \cup {c[1] : c \in Replacements(g)}
           /\ UNCHANGED <<target, at, phase, stage, payload, before, edits>>
  <2>1. /\ selections' \in Seq(SelectionType) /\ Len(selections') = Len(selections)
        /\ {c[1] : c \in Replacements(g)} \subseteq DOMAIN before
    BY <1>5, ReconciledTyped DEF Typing
  <2>2. WellTyped(payload)'
    BY <1>2, <1>5
  <2>3. replaced' \subseteq DOMAIN before'
    BY <1>5, <2>1 DEF Typing
  <2>4. todo' \subseteq Groups(before')
    BY <1>5 DEF Typing
  <2>5. QED
    BY <1>5, <2>1, <2>2, <2>3, <2>4 DEF Typing, Groups
<1>6. QED
  BY <1>1, <1>3, <1>4, <1>5

\* What is retained are the selections, in their order, that no replaced owner holds.
LEMMA RetainedSeq ==
  ASSUME NEW X, selections \in Seq(X)
  PROVE  /\ Retained \in Seq(X)
         /\ \A n \in DOMAIN Retained : \E i \in DOMAIN selections :
              ~HasReplacedAncestor(i) /\ Retained[n] = selections[i]
         /\ \A i \in DOMAIN selections : ~HasReplacedAncestor(i) =>
              \E n \in DOMAIN Retained : Retained[n] = selections[i]
         /\ (\A i, j \in DOMAIN selections :
               ~HasReplacedAncestor(i) /\ ~HasReplacedAncestor(j)
                 /\ selections[i].location = selections[j].location => i = j)
            => \A n, k \in DOMAIN Retained : Retained[n].location = Retained[k].location => n = k
<1> DEFINE S == {i \in DOMAIN selections : ~HasReplacedAncestor(i)}
           order == Ascending(S)
           N == Cardinality(S)
<1>1. DOMAIN selections = 1 .. Len(selections) /\ Len(selections) \in Nat
  BY LenProperties
<1>2. S \subseteq Int /\ IsFiniteSet(S)
  <2>1. IsFiniteSet(1 .. Len(selections)) /\ 1 .. Len(selections) \subseteq Int
    BY <1>1, FS_Interval
  <2>2. QED
    BY <1>1, <2>1, FS_Subset
<1>3. Enumerates(order, S)
  BY <1>2, AscendingOrder
<1>4. /\ N \in Nat /\ DOMAIN order = 1 .. N
      /\ \A n \in 1 .. N : order[n] \in S
      /\ \A x \in S : \E n \in 1 .. N : order[n] = x
      /\ \A n, k \in 1 .. N : order[n] = order[k] => n = k
  BY <1>3 DEF Enumerates
<1>5. Retained = [n \in DOMAIN order |-> selections[order[n]]]
  BY DEF Retained
<1>6. \A i \in S : i \in DOMAIN selections /\ ~HasReplacedAncestor(i)
  OBVIOUS
<1>7. \A i \in DOMAIN selections : ~HasReplacedAncestor(i) => i \in S
  OBVIOUS
<1>8. \A i \in S : selections[i] \in X
  BY <1>1, ElementOfSeq
<1> HIDE DEF S, order, N
<1>9. DOMAIN Retained = 1 .. N /\ \A n \in 1 .. N : Retained[n] = selections[order[n]]
  BY <1>4, <1>5
<1>10. Retained = [n \in DOMAIN Retained |-> Retained[n]]
  BY <1>5
<1>11. \A n \in 1 .. N : Retained[n] \in X
  BY <1>4, <1>8, <1>9
<1>12. Retained \in Seq(X)
  BY <1>4, <1>9, <1>10, <1>11, SeqOfFunction
<1>13. \A n \in DOMAIN Retained : \E i \in DOMAIN selections :
         ~HasReplacedAncestor(i) /\ Retained[n] = selections[i]
  BY <1>4, <1>6, <1>9
<1>14. \A i \in DOMAIN selections : ~HasReplacedAncestor(i) =>
         \E n \in DOMAIN Retained : Retained[n] = selections[i]
  BY <1>4, <1>7, <1>9
<1>15. ASSUME \A i, j \in DOMAIN selections :
                ~HasReplacedAncestor(i) /\ ~HasReplacedAncestor(j)
                  /\ selections[i].location = selections[j].location => i = j,
              NEW n \in DOMAIN Retained, NEW k \in DOMAIN Retained,
              Retained[n].location = Retained[k].location
       PROVE  n = k
  <2>1. n \in 1 .. N /\ k \in 1 .. N
    BY <1>9
  <2>2. order[n] \in S /\ order[k] \in S
        /\ selections[order[n]].location = selections[order[k]].location
    BY <1>4, <1>9, <1>15, <2>1
  <2>3. order[n] = order[k]
    BY <1>6, <1>15, <2>2
  <2>4. QED
    BY <1>4, <2>1, <2>3
<1>16. QED
  BY <1>12, <1>13, <1>14, <1>15

\* What was introduced is selected after what is retained.
LEMMA IntroducedTyped ==
  ASSUME WellTyped(payload), NEW xs \in Seq(SelectionType)
  PROVE  /\ WithIntroduced(xs) \in Seq(SelectionType)
         /\ Len(WithIntroduced(xs)) >= Len(xs)
         /\ \A i \in DOMAIN xs : i \in DOMAIN WithIntroduced(xs) /\ WithIntroduced(xs)[i] = xs[i]
         /\ \A i \in DOMAIN WithIntroduced(xs) \ DOMAIN xs : \E l \in Introduced(xs) :
              WithIntroduced(xs)[i] = Selection(payload[l].family, Size, l, payload[l].id)
         /\ \A l \in Introduced(xs) : \E i \in DOMAIN WithIntroduced(xs) \ DOMAIN xs :
              WithIntroduced(xs)[i] = Selection(payload[l].family, Size, l, payload[l].id)
         /\ \A i, j \in DOMAIN WithIntroduced(xs) \ DOMAIN xs :
              WithIntroduced(xs)[i].location = WithIntroduced(xs)[j].location => i = j
         /\ \A l \in Introduced(xs) : l \in DOMAIN payload /\ Typed(l) /\ ~Held(xs, l)
<1> DEFINE x(l) == Selection(payload[l].family, Size, l, payload[l].id)
           N == Cardinality(Introduced(xs))
<1>1. Tree(payload)
  BY DEF WellTyped
<1>2. PICK order :
        /\ Enumerates(order, Introduced(xs))
        /\ WithIntroduced(xs) = xs \o [n \in 1 .. N |-> x(order[n])]
  BY <1>1, IntroducedSelected
<1>3. /\ N \in Nat
      /\ \A n \in 1 .. N : order[n] \in Introduced(xs)
      /\ \A l \in Introduced(xs) : \E n \in 1 .. N : order[n] = l
      /\ \A n, k \in 1 .. N : order[n] = order[k] => n = k
  BY <1>2 DEF Enumerates
<1>4. ASSUME NEW l \in Introduced(xs)
      PROVE  /\ x(l) \in SelectionType /\ x(l).location = l
             /\ l \in DOMAIN payload /\ Typed(l) /\ ~Held(xs, l)
  <2>1. /\ l \in DOMAIN payload /\ l \in Locations /\ payload[l] \in ValueType
        /\ payload[l].instance => payload[l].family # Spoiled
    BY DEF WellTyped, Introduced
  <2>2. l \in Seq(Slots) /\ l # <<>>
    BY <1>1, <2>1, EmptySeq DEF Tree
  <2>3. Len(l) \in Nat \ {0} /\ SubSeq(l, 1, Len(l)) = l
    BY <2>2, FrontAndLast, SubSeqFull
  <2>4. ~Held(xs, l) /\ (Held(xs, SubSeq(l, 1, Len(l))) \/ Typed(SubSeq(l, 1, Len(l))))
    BY <2>3 DEF Introduced, Visited
  <2>5. Typed(l) /\ ~Held(xs, l)
    BY <2>3, <2>4
  <2>6. payload[l].family \in Families /\ payload[l].id \in Objects
    BY <2>1, <2>5 DEF Typed, ValueType
  <2>7. Size \in Labels
    BY <2>1, PlainObjects
  <2>8. QED
    BY <2>1, <2>5, <2>6, <2>7 DEF Selection, SelectionType
<1> DEFINE ys == [n \in 1 .. N |-> x(order[n])]
<1>5. DOMAIN ys = 1 .. N /\ ys = [n \in DOMAIN ys |-> ys[n]] /\ \A n \in 1 .. N : ys[n] = x(order[n])
  OBVIOUS
<1>6. WithIntroduced(xs) = xs \o ys
  BY <1>2
<1> HIDE DEF ys, x, N
<1>7. \A n \in 1 .. N : ys[n] \in SelectionType /\ ys[n].location = order[n]
  BY <1>3, <1>4, <1>5
<1>8. ys \in Seq(SelectionType) /\ Len(ys) = N
  BY <1>3, <1>5, <1>7, SeqOfFunction
<1>9. /\ WithIntroduced(xs) \in Seq(SelectionType)
      /\ Len(WithIntroduced(xs)) = Len(xs) + N
      /\ \A i \in 1 .. Len(xs) + N :
           WithIntroduced(xs)[i] = IF i <= Len(xs) THEN xs[i] ELSE ys[i - Len(xs)]
  <2>1. /\ xs \o ys \in Seq(SelectionType)
        /\ Len(xs \o ys) = Len(xs) + Len(ys)
        /\ \A i \in 1 .. Len(xs) + Len(ys) :
             (xs \o ys)[i] = IF i <= Len(xs) THEN xs[i] ELSE ys[i - Len(xs)]
    BY <1>8, ConcatProperties
  <2>2. QED
    BY <1>6, <1>8, <2>1
<1>10. Len(xs) \in Nat /\ DOMAIN xs = 1 .. Len(xs)
  BY LenProperties
<1>11. DOMAIN WithIntroduced(xs) = 1 .. Len(xs) + N
  BY <1>9, LenProperties
<1>12. Len(WithIntroduced(xs)) >= Len(xs)
  BY <1>3, <1>9, <1>10
<1>13. \A i \in DOMAIN xs : i \in DOMAIN WithIntroduced(xs) /\ WithIntroduced(xs)[i] = xs[i]
  BY <1>3, <1>9, <1>10, <1>11
<1>14. ASSUME NEW i \in DOMAIN WithIntroduced(xs) \ DOMAIN xs
       PROVE  i - Len(xs) \in 1 .. N /\ WithIntroduced(xs)[i] = ys[i - Len(xs)]
  <2>1. i \in 1 .. Len(xs) + N /\ ~(i \in 1 .. Len(xs))
    BY <1>10, <1>11
  <2>2. QED
    BY <1>3, <1>9, <1>10, <2>1
<1>15. \A i \in DOMAIN WithIntroduced(xs) \ DOMAIN xs : \E l \in Introduced(xs) :
         WithIntroduced(xs)[i] = x(l)
  BY <1>3, <1>5, <1>14
<1>16. ASSUME NEW l \in Introduced(xs)
       PROVE  \E i \in DOMAIN WithIntroduced(xs) \ DOMAIN xs : WithIntroduced(xs)[i] = x(l)
  <2>1. PICK n \in 1 .. N : order[n] = l
    BY <1>3
  <2>2. /\ Len(xs) + n \in 1 .. Len(xs) + N /\ ~(Len(xs) + n \in 1 .. Len(xs))
        /\ WithIntroduced(xs)[Len(xs) + n] = ys[n]
    BY <1>3, <1>9, <1>10
  <2>3. Len(xs) + n \in DOMAIN WithIntroduced(xs) \ DOMAIN xs
    BY <1>10, <1>11, <2>2
  <2>4. QED
    BY <1>5, <2>1, <2>2, <2>3
<1>17. ASSUME NEW i \in DOMAIN WithIntroduced(xs) \ DOMAIN xs,
              NEW j \in DOMAIN WithIntroduced(xs) \ DOMAIN xs,
              WithIntroduced(xs)[i].location = WithIntroduced(xs)[j].location
       PROVE  i = j
  <2>1. i - Len(xs) \in 1 .. N /\ j - Len(xs) \in 1 .. N
        /\ order[i - Len(xs)] = order[j - Len(xs)]
    BY <1>7, <1>14, <1>17
  <2>2. i - Len(xs) = j - Len(xs)
    BY <1>3, <2>1
  <2>3. i \in Int /\ j \in Int
    BY <1>9, <1>11
  <2>4. QED
    BY <1>10, <2>2, <2>3
<1>18. /\ \A i \in DOMAIN WithIntroduced(xs) \ DOMAIN xs : \E l \in Introduced(xs) :
            WithIntroduced(xs)[i] = Selection(payload[l].family, Size, l, payload[l].id)
       /\ \A l \in Introduced(xs) : \E i \in DOMAIN WithIntroduced(xs) \ DOMAIN xs :
            WithIntroduced(xs)[i] = Selection(payload[l].family, Size, l, payload[l].id)
  BY <1>15, <1>16 DEF x
<1>19. \A l \in Introduced(xs) : l \in DOMAIN payload /\ Typed(l) /\ ~Held(xs, l)
  BY <1>4
<1>20. QED
  BY <1>9, <1>12, <1>13, <1>17, <1>18, <1>19

\* What is done when all groups are reconciled after a conversion.
LEMMA SettleConvertedMeans ==
  ASSUME SettleConverted, ~Refuse, stage \in {"edge", "called", "last"}
  PROVE  /\ phase = "reconcile" /\ todo = {} /\ stage # "called" /\ ~SharedIdentity(Retained)
         /\ selections' = Retained /\ before' = <<>> /\ replaced' = {} /\ edits' = 0
         /\ UNCHANGED <<target, payload, todo>>
         /\ \/ stage = "last" /\ phase' = "project" /\ UNCHANGED <<at, stage>>
            \/ stage = "edge" /\ phase' = "callback" /\ UNCHANGED <<at, stage>>
            \/ stage = "edge" /\ GoOn(Ahead, target)
<1>1. /\ phase = "reconcile" /\ todo = {} /\ stage # "called" /\ ~SharedIdentity(Retained)
      /\ selections' = Retained /\ before' = <<>> /\ replaced' = {} /\ edits' = 0
      /\ UNCHANGED <<target, payload, todo>>
  BY DEF SettleConverted
<1>2. stage = "last" \/ stage = "edge"
  BY <1>1
<1>3. ASSUME stage = "last"
      PROVE  phase' = "project" /\ UNCHANGED <<at, stage>>
  BY <1>1, <1>3 DEF SettleConverted
<1>4. ASSUME stage = "edge", <<at, Ahead>> \in Callbacks
      PROVE  phase' = "callback" /\ UNCHANGED <<at, stage>>
  BY <1>1, <1>4 DEF SettleConverted
<1>5. ASSUME stage = "edge", <<at, Ahead>> \notin Callbacks
      PROVE  GoOn(Ahead, target)
  BY <1>1, <1>5 DEF SettleConverted
<1>6. QED
  BY <1>1, <1>2, <1>3, <1>4, <1>5

\* Types hold when all groups are reconciled after a conversion.
LEMMA TypingSettleConverted ==
  ASSUME Typing, SettleConverted
  PROVE  Typing'
<1>1. CASE Refuse
  BY <1>1, TypingRefuse
<1>2. CASE ~Refuse
  <2>1. /\ phase = "reconcile" /\ todo = {} /\ stage # "called"
        /\ selections' = Retained /\ before' = <<>> /\ replaced' = {} /\ edits' = 0
        /\ UNCHANGED <<target, payload, todo>>
        /\ \/ stage = "last" /\ phase' = "project" /\ UNCHANGED <<at, stage>>
           \/ stage = "edge" /\ phase' = "callback" /\ UNCHANGED <<at, stage>>
           \/ stage = "edge" /\ GoOn(Ahead, target)
    BY <1>2, SettleConvertedMeans DEF Typing
  <2>2. selections' \in Seq(SelectionType)
    BY <2>1, RetainedSeq DEF Typing
  <2>3. before' \in Seq(SelectionType)
    BY <2>1, EmptySeq
  <2>4. WellTyped(payload)'
    BY <2>1 DEF Typing, WellTyped, Tree
  <2>5. edits' \in 0 .. MaxEdits
    BY <2>1, BoundsAssumption DEF BoundsAssumption
  <2>6. at # target => Ahead \in Labels
    BY GoalExists DEF Typing
  <2>7. \A l \in DOMAIN payload' : payload'[l].id.nth = 0
    BY <2>1 DEF Typing
  <2>8. \A l \in DOMAIN payload' : payload'[l].id.nth <= 0
    BY <2>7
  <2>9. CASE stage = "edge" /\ GoOn(Ahead, target)
    BY <2>1, <2>2, <2>3, <2>4, <2>5, <2>6, <2>9 DEF Typing, GoOn
  <2>10. CASE stage = "edge" /\ phase' = "callback" /\ UNCHANGED <<at, stage>>
    BY <2>1, <2>2, <2>3, <2>4, <2>5, <2>8, <2>10 DEF Typing
  <2>11. CASE stage = "last" /\ phase' = "project" /\ UNCHANGED <<at, stage>>
    BY <2>1, <2>2, <2>3, <2>4, <2>5, <2>11 DEF Typing
  <2>12. QED
    BY <2>1, <2>9, <2>10, <2>11
<1>3. QED
  BY <1>1, <1>2

\* What is done when all groups are reconciled after a callback.
LEMMA SettleCalledMeans ==
  ASSUME SettleCalled, ~Refuse
  PROVE  /\ phase = "reconcile" /\ todo = {} /\ stage = "called"
         /\ ~SharedIdentity(WithIntroduced(Retained)) /\ Intruding(Retained) = {}
         /\ selections' = WithIntroduced(Retained)
         /\ before' = <<>> /\ replaced' = {} /\ edits' = 0
         /\ GoOn(Ahead, target)
         /\ UNCHANGED <<target, payload, todo>>
BY DEF SettleCalled

\* Types hold when all groups are reconciled after a callback.
LEMMA TypingSettleCalled ==
  ASSUME Typing, SettleCalled
  PROVE  Typing'
<1>1. CASE Refuse
  BY <1>1, TypingRefuse
<1>2. CASE ~Refuse
  <2>1. /\ phase = "reconcile" /\ todo = {} /\ stage = "called"
        /\ selections' = WithIntroduced(Retained)
        /\ before' = <<>> /\ replaced' = {} /\ edits' = 0
        /\ GoOn(Ahead, target)
        /\ UNCHANGED <<target, payload, todo>>
    BY <1>2, SettleCalledMeans
  <2>2. Retained \in Seq(SelectionType)
    BY RetainedSeq DEF Typing
  <2>3. selections' \in Seq(SelectionType)
    BY <2>1, <2>2, IntroducedTyped DEF Typing
  <2>4. before' \in Seq(SelectionType)
    BY <2>1, EmptySeq
  <2>5. WellTyped(payload)'
    BY <2>1 DEF Typing, WellTyped, Tree
  <2>6. edits' \in 0 .. MaxEdits
    BY <2>1, BoundsAssumption DEF BoundsAssumption
  <2>7. Ahead \in Labels
    BY <2>1, GoalExists DEF Typing
  <2>8. QED
    BY <2>1, <2>3, <2>4, <2>5, <2>6, <2>7 DEF Typing, GoOn
<1>3. QED
  BY <1>1, <1>2

\* The payload after the last projection.
Projected ==
  [l \in DOMAIN payload |->
     IF SelectedAt(l) = {} THEN payload[l]
     ELSE Converted(payload[l], selections[CHOOSE i \in SelectedAt(l) : TRUE], target)]

\* Types hold after the last projection.
LEMMA TypingProject ==
  ASSUME Typing, Project
  PROVE  Typing'
<1>1. CASE Refuse
  BY <1>1, TypingRefuse
<1>2. CASE ~Refuse
  <2>1. /\ phase = "project" /\ payload' = Projected /\ phase' = "done"
        /\ UNCHANGED <<target, at, stage, selections, before, todo, replaced, edits>>
    BY <1>2 DEF Project, Projected
  <2> DEFINE x(l) == selections[CHOOSE i \in SelectedAt(l) : TRUE]
             new(l) == IF SelectedAt(l) = {} THEN payload[l] ELSE Converted(payload[l], x(l), target)
  <2>2. payload' = [l \in DOMAIN payload |-> new(l)]
    BY <2>1 DEF Projected
  <2>3. \A l \in DOMAIN payload : new(l) \in ValueType /\ (new(l).instance => new(l).family # Spoiled)
    <3> TAKE l \in DOMAIN payload
    <3>1. payload[l] \in ValueType /\ (payload[l].instance => payload[l].family # Spoiled)
      BY DEF Typing, WellTyped
    <3>2. Converted(payload[l], x(l), target) \in ValueType /\ ~Converted(payload[l], x(l), target).instance
      BY <3>1, ConvertedValue DEF Typing
    <3>3. QED
      BY <3>1, <3>2
  <2> HIDE DEF new
  <2>4. DOMAIN payload' = DOMAIN payload /\ \A l \in DOMAIN payload : payload'[l] = new(l)
    BY <2>2
  <2>5. WellTyped(payload)'
    BY <2>3, <2>4 DEF Typing, WellTyped, Tree
  <2>6. QED
    BY <2>1, <2>5 DEF Typing, Groups
<1>3. QED
  BY <1>1, <1>2

\* Types hold when a callback returns.
LEMMA TypingReturn ==
  ASSUME Typing, Return
  PROVE  Typing'
<1>1. /\ phase = "callback" /\ stage' = "called" /\ phase' = "reconcile"
      /\ before' = selections /\ todo' = Groups(selections) /\ replaced' = {}
      /\ UNCHANGED <<target, at, payload, selections, edits>>
  BY DEF Return, Reconcile
<1>2. WellTyped(payload)'
  BY <1>1 DEF Typing, WellTyped, Tree
<1>3. QED
  BY <1>1, <1>2 DEF Typing, Groups

-----------------------------------------------------------------------------
(* Callbacks. *)

\* The values that a callback may put into the payload: new objects that follow a family.
NewValues ==
  {v \in ValueType :
     /\ v.id.nth \in 1 .. edits + 1
     /\ v.instance => v.label = Size /\ v.family # Spoiled
     /\ ~v.instance =>
          \/ v.label = Ahead /\ v.family # Spoiled
          \/ \E w \in Values(payload) : ~w.instance /\ v.family = w.family /\ v.label = w.label}

\* A new object has the least number that is not used where it is created.
LEMMA FreshObject ==
  ASSUME Typing, phase = "callback", edits < MaxEdits, NEW l \in Locations
  PROVE  \E n \in 1 .. edits + 1 : Fresh(l) = Object(l, n) /\ Fresh(l) \in Objects
<1> DEFINE used == {payload[m].id : m \in DOMAIN payload}
           Unused(n) == Object(l, n) \notin used /\ \A k \in 1 .. n - 1 : Object(l, k) \in used
           T == {n \in 1 .. edits + 1 : Object(l, n) \notin used}
<1>1. edits \in Nat /\ MaxEdits \in Nat /\ edits < MaxEdits
  BY BoundsAssumption DEF BoundsAssumption, Typing
<1>2. \A n : Object(l, n).nth = n
  BY DEF Object
<1>3. Object(l, edits + 1) \notin used
  <2>1. SUFFICES ASSUME NEW m \in DOMAIN payload, payload[m].id = Object(l, edits + 1)
                 PROVE  FALSE
    OBVIOUS
  <2>2. payload[m].id.nth <= edits
    BY DEF Typing
  <2>3. payload[m].id.nth = edits + 1
    BY <1>2, <2>1
  <2>4. QED
    BY <1>1, <2>2, <2>3
<1> HIDE DEF used
<1>4. T \subseteq Nat /\ T # {}
  BY <1>1, <1>3
<1>5. PICK n \in T : \A y \in T : n <= y
  BY <1>4, NatMin
<1>6. n \in 1 .. MaxEdits /\ Unused(n)
  <2>1. n \in 1 .. edits + 1 /\ Object(l, n) \notin used
    BY <1>5
  <2>2. ASSUME NEW k \in 1 .. n - 1, Object(l, k) \notin used
        PROVE  FALSE
    <3>1. k \in T
      BY <1>1, <2>1, <2>2
    <3>2. n <= k
      BY <1>5, <3>1
    <3>3. QED
      BY <1>1, <2>1, <2>2, <3>2
  <2>3. QED
    BY <1>1, <2>1, <2>2
<1> DEFINE c == CHOOSE k \in 1 .. MaxEdits : Unused(k)
<1>7. c \in 1 .. MaxEdits /\ Unused(c)
  BY <1>6
<1>8. Fresh(l) = Object(l, c)
  BY DEF Fresh, used
<1> HIDE DEF c
<1>9. c \in 1 .. edits + 1
  <2>1. SUFFICES ASSUME ~(c <= edits + 1)
                 PROVE  FALSE
    BY <1>1, <1>7
  <2>2. edits + 1 \in 1 .. c - 1
    BY <1>1, <1>7, <2>1
  <2>3. QED
    BY <1>3, <1>7, <2>2
<1>10. Object(l, c) \in Objects
  BY <1>1, <1>7 DEF Object, Objects
<1>11. QED
  BY <1>8, <1>9, <1>10

\* Where something can be put: it is in something.
LEMMA FreePlaces ==
  ASSUME NEW p, Tree(p), NEW l \in DOMAIN p \cup Free(p)
  PROVE  l \in Seq(Slots) \ {<<>>} /\ (Len(l) > 1 => Front(l) \in DOMAIN p)
<1>1. CASE l \in DOMAIN p
  BY <1>1 DEF Tree
<1>2. CASE l \in Free(p)
  <2>1. PICK o \in DOMAIN p \cup {<<>>} :
          \E slot \in SitesOf(FamilyAt(p, o)) \X (1 .. MaxItems) : l = Append(o, slot)
    BY <1>2 DEF Free
  <2>2. PICK slot \in Slots : l = Append(o, slot)
    BY <2>1 DEF SitesOf, Slots
  <2>3. o \in Seq(Slots)
    BY <2>1, EmptySeq DEF Tree
  <2>4. l \in Seq(Slots) /\ Len(l) = Len(o) + 1 /\ \A i \in 1 .. Len(o) : l[i] = o[i]
    BY <2>2, <2>3, AppendProperties
  <2>5. Len(o) \in Nat /\ l # <<>>
    BY <2>3, <2>4, LenProperties, EmptySeq
  <2>6. Front(l) \in Seq(Slots) /\ Len(Front(l)) = Len(l) - 1 /\ \A i \in 1 .. Len(l) - 1 : Front(l)[i] = l[i]
    BY <2>4, <2>5, FrontAndLast
  <2>7. Len(Front(l)) = Len(o) /\ \A i \in 1 .. Len(o) : Front(l)[i] = o[i]
    BY <2>4, <2>5, <2>6
  <2>8. Front(l) = o
    BY <2>3, <2>6, <2>7, SeqEqual
  <2>9. Len(l) > 1 => o # <<>>
    <3>1. ASSUME o = <<>> PROVE Len(o) = 0
      BY <3>1, EmptySeq
    <3>2. Len(l) > 1 => Len(o) # 0
      BY <2>4, <2>5
    <3>3. QED
      BY <3>1, <3>2
  <2>10. QED
    BY <2>1, <2>4, <2>5, <2>8, <2>9
<1>3. QED
  BY <1>1, <1>2

\* A new instance is one value, with one at each of its sites.
NewInstance(b, f, l, kids) ==
  /\ IsBranch(b)
  /\ \A r \in DOMAIN b :
       \/ r = <<>> /\ b[r] = Value(f, Size, Fresh(l \o r), TRUE)
       \/ \E s \in SitesOf(f) :
            r = <<<<s, 1>>>> /\ b[r] = Value(kids[s], Size, Fresh(l \o r), TRUE)

\* The branch of an instance is one.
LEMMA InstanceBranch ==
  ASSUME NEW f, NEW l \in Seq(Slots) \ {<<>>}, NEW kids
  PROVE  NewInstance(Instance(f, l, kids), f, l, kids)
<1> DEFINE b == Instance(f, l, kids)
           g == [s \in SitesOf(f) |-> <<<<s, 1>>>>]
           K == {<<<<s, 1>>>> : s \in SitesOf(f)}
           D == {<<>>} \cup K
           v(r) == Value(IF r = <<>> THEN f ELSE kids[r[1][1]], Size, Fresh(l \o r), TRUE)
<1>1. b = [r \in D |-> v(r)]
  BY DEF Instance
<1>2. DOMAIN b = D
  BY <1>1
<1>3. IsFiniteSet(D)
  <2>1. IsFiniteSet(SitesOf(f))
    BY SitesAssumption, FS_Subset DEF SitesAssumption, SitesOf
  <2>2. IsFiniteSet({g[s] : s \in DOMAIN g})
    BY <2>1, FiniteImage
  <2>3. K = {g[s] : s \in DOMAIN g}
    OBVIOUS
  <2>4. QED
    BY <2>2, <2>3, FS_AddElement
<1>4. 1 \in 1 .. MaxItems
  <2>1. Last(l) \in Slots
    BY FrontAndLast
  <2>2. Last(l)[2] \in 1 .. MaxItems /\ MaxItems \in Nat
    BY <2>1, SlotNumbers, BoundsAssumption DEF BoundsAssumption
  <2>3. QED
    BY <2>2
<1>5. ASSUME NEW s \in SitesOf(f)
      PROVE  /\ <<<<s, 1>>>> \in Seq(Slots) /\ <<<<s, 1>>>> # <<>>
             /\ Front(<<<<s, 1>>>>) = <<>>
  <2>1. <<s, 1>> \in Slots
    BY <1>4 DEF SitesOf, Slots
  <2> DEFINE x == <<s, 1>>
  <2> HIDE DEF x
  <2>2. x \in Slots
    BY <2>1 DEF x
  <2>3. <<x>> \in Seq(Slots) /\ Len(<<x>>) = 1 /\ <<x>> # <<>>
    BY <2>2
  <2>4. Front(<<x>>) \in Seq(Slots) /\ Len(Front(<<x>>)) = 0
    <3> DEFINE z == <<x>>
    <3>1. z \in Seq(Slots) /\ Len(z) = 1 /\ z # <<>>
      BY <2>3
    <3> HIDE DEF z
    <3>2. Front(z) \in Seq(Slots) /\ Len(Front(z)) = Len(z) - 1
      BY <3>1, FrontAndLast
    <3>3. Front(z) \in Seq(Slots) /\ Len(Front(z)) = 0
      BY <3>1, <3>2
    <3>4. QED
      BY <3>3 DEF z
  <2>5. Front(<<x>>) = <<>>
    BY <2>4, EmptySeq
  <2>6. QED
    BY <2>3, <2>5 DEF x
<1>6. IsBranch(b)
  BY <1>2, <1>3, <1>5, EmptySeq DEF IsBranch
<1>7. ASSUME NEW r \in DOMAIN b
      PROVE  \/ r = <<>> /\ b[r] = Value(f, Size, Fresh(l \o r), TRUE)
             \/ \E s \in SitesOf(f) : r = <<<<s, 1>>>> /\ b[r] = Value(kids[s], Size, Fresh(l \o r), TRUE)
  <2>1. b[r] = v(r)
    BY <1>1, <1>2
  <2>2. CASE r = <<>>
    BY <2>1, <2>2
  <2>3. CASE r # <<>>
    <3>1. PICK s \in SitesOf(f) : r = <<<<s, 1>>>>
      BY <1>2, <2>3
    <3>2. r[1][1] = s
      BY <3>1
    <3>3. QED
      BY <2>1, <2>3, <3>1, <3>2
  <2>4. QED
    BY <2>2, <2>3
<1>8. QED
  BY <1>6, <1>7 DEF NewInstance

\* What a callback that has not returned does: it moves values, or puts new ones in.
Edited(p) ==
  /\ Edit(p) /\ Tree(p)
  /\ Values(p) \subseteq Values(payload) \cup NewValues

\* A branch of the payload is put somewhere in it.
LEMMA GraftEdited ==
  ASSUME Typing, NEW q, Tree(q), Values(q) \subseteq Values(payload),
         NEW m \in Free(q), NEW l \in DOMAIN payload, Edit(Grafted(q, m, Branch(payload, l)))
  PROVE  Edited(Grafted(q, m, Branch(payload, l)))
<1>1. Tree(payload)
  BY DEF Typing, WellTyped
<1>2. IsBranch(Branch(payload, l)) /\ Values(Branch(payload, l)) \subseteq Values(payload)
  BY <1>1, BranchOfTree
<1>3. m \in Seq(Slots) \ {<<>>} /\ (Len(m) > 1 => Front(m) \in DOMAIN q)
  BY FreePlaces
<1>4. /\ Tree(Grafted(q, m, Branch(payload, l)))
      /\ Values(Grafted(q, m, Branch(payload, l))) \subseteq Values(q) \cup Values(Branch(payload, l))
  BY <1>2, <1>3, GraftOfTree
<1>5. QED
  BY <1>2, <1>4 DEF Edited

\* New values are put into the payload.
LEMMA PutEdited ==
  ASSUME Typing, NEW b, IsBranch(b), NEW l \in DOMAIN payload \cup Free(payload),
         Edit(Grafted(payload, l, b)),
         \A r \in DOMAIN b : l \o r \in Locations => b[r] \in NewValues
  PROVE  Edited(Grafted(payload, l, b))
<1> DEFINE p == Grafted(payload, l, b)
<1>1. Tree(payload)
  BY DEF Typing, WellTyped
<1>2. l \in Seq(Slots) \ {<<>>} /\ (Len(l) > 1 => Front(l) \in DOMAIN payload)
  BY <1>1, FreePlaces
<1>3. /\ Tree(p)
      /\ Values(p) \subseteq Values(payload) \cup Values(b)
      /\ \A r \in DOMAIN b : l \o r \in DOMAIN p
  BY <1>1, <1>2, GraftOfTree
<1>4. DOMAIN p \subseteq Locations
  BY DEF Edit
<1>5. \A r \in DOMAIN b : b[r] \in NewValues
  BY <1>3, <1>4
<1>6. Values(b) \subseteq NewValues
  BY <1>5 DEF Values
<1>7. QED
  BY <1>3, <1>6 DEF Edited

\* The steps of a callback.
LEMMA CallbackMeans ==
  ASSUME Typing, CallbackStep
  PROVE  Return \/ \E p : Edited(p)
<1>1. Tree(payload)
  BY DEF Typing, WellTyped
<1>2. ASSUME NEW p, Edit(p)
      PROVE  phase = "callback" /\ edits < MaxEdits
  BY <1>2 DEF Edit
<1>3. ASSUME NEW l \in DOMAIN payload, NEW m \in DOMAIN payload, Swap(l, m)
      PROVE  \E p : Edited(p)
  <2>1. ~IsPrefix(l, m) /\ Edit(Swapped(payload, l, m))
    BY <1>3 DEF Swap
  <2>2. Tree(Swapped(payload, l, m)) /\ Values(Swapped(payload, l, m)) \subseteq Values(payload)
    BY <1>1, <2>1, SwappedInTree
  <2>3. QED
    BY <2>1, <2>2 DEF Edited
<1>4. ASSUME NEW l \in DOMAIN payload, Relocate(l)
      PROVE  \E p : Edited(p)
  <2>1. PICK m \in Free(Without(payload, l)) : Edit(Grafted(Without(payload, l), m, Branch(payload, l)))
    BY <1>4 DEF Relocate
  <2>2. Tree(Without(payload, l)) /\ Values(Without(payload, l)) \subseteq Values(payload)
    BY <1>1, WithoutFromTree
  <2>3. QED
    BY <2>1, <2>2, GraftEdited
<1>5. ASSUME NEW l \in DOMAIN payload, Duplicate(l)
      PROVE  \E p : Edited(p)
  <2>1. PICK m \in Free(payload) : Edit(Grafted(payload, m, Branch(payload, l)))
    BY <1>5 DEF Duplicate
  <2>2. QED
    BY <1>1, <2>1, GraftEdited
<1>6. ASSUME NEW l \in DOMAIN payload, Copy(l)
      PROVE  \E p : Edited(p)
  <2> DEFINE p == [payload EXCEPT ![l].id = Fresh(l)]
             w == payload[l]
  <2>1. ~w.instance /\ Edit(p)
    BY <1>6 DEF Copy
  <2>2. l \in Locations /\ w \in ValueType
    BY DEF Typing, WellTyped
  <2>3. PICK n \in 1 .. edits + 1 : Fresh(l) = Object(l, n) /\ Fresh(l) \in Objects
    BY <1>2, <2>1, <2>2, FreshObject
  <2>4. DOMAIN p = DOMAIN payload /\ p[l] = [w EXCEPT !.id = Fresh(l)]
        /\ \A m \in DOMAIN payload : m # l => p[m] = payload[m]
    OBVIOUS
  <2> HIDE DEF p, w
  <2>5. [w EXCEPT !.id = Fresh(l)] \in ValueType /\ [w EXCEPT !.id = Fresh(l)].id = Fresh(l)
        /\ [w EXCEPT !.id = Fresh(l)].instance = w.instance
        /\ [w EXCEPT !.id = Fresh(l)].family = w.family /\ [w EXCEPT !.id = Fresh(l)].label = w.label
    BY <2>2, <2>3 DEF ValueType
  <2>6. Fresh(l).nth \in 1 .. edits + 1
    BY <2>3 DEF Object
  <2>7. w \in Values(payload)
    BY DEF Values, w
  <2>8. p[l] \in NewValues
    BY <2>1, <2>4, <2>5, <2>6, <2>7 DEF NewValues
  <2>9. Values(p) \subseteq Values(payload) \cup NewValues
    BY <2>4, <2>8 DEF Values
  <2>10. Tree(p)
    BY <1>1, <2>4 DEF Tree
  <2>11. QED
    BY <2>1, <2>9, <2>10 DEF Edited
<1>7. ASSUME NEW l \in DOMAIN payload, Drop(l)
      PROVE  \E p : Edited(p)
  <2>1. Edit(Without(payload, l))
    BY <1>7 DEF Drop
  <2>2. Tree(Without(payload, l)) /\ Values(Without(payload, l)) \subseteq Values(payload)
    BY <1>1, WithoutFromTree
  <2>3. QED
    BY <2>1, <2>2 DEF Edited
<1>8. ASSUME NEW a, NEW f, NEW l, l \in Locations, f \in Families, phase = "callback", edits < MaxEdits
      PROVE  Value(f, Size, Fresh(l), TRUE) \in NewValues
             /\ (a = Ahead => Value(f, a, Fresh(l), FALSE) \in NewValues)
  <2>1. PICK n \in 1 .. edits + 1 : Fresh(l) = Object(l, n) /\ Fresh(l) \in Objects
    BY <1>8, FreshObject
  <2>2. Fresh(l).nth \in 1 .. edits + 1
    BY <2>1 DEF Object
  <2>3. Size \in Labels /\ f # Spoiled /\ Ahead \in Labels
    BY <1>8, PlainObjects, GoalExists, SitesAssumption DEF SitesAssumption, Typing
  <2>4. QED
    BY <1>8, <2>1, <2>2, <2>3 DEF NewValues, Value, ValueType
<1>9. ASSUME NEW l \in DOMAIN payload \cup Free(payload), NEW f \in Families \ {Root}, PutInstance(f, l)
      PROVE  \E p : Edited(p)
  <2>1. PICK kids \in [SitesOf(f) -> {k \in Families : SitesOf(k) = {}}] :
          Edit(Grafted(payload, l, Instance(f, l, kids)))
    BY <1>9 DEF PutInstance
  <2>2. l \in Seq(Slots) \ {<<>>}
    BY <1>1, FreePlaces
  <2> DEFINE b == Instance(f, l, kids)
  <2>3. NewInstance(b, f, l, kids)
    BY <2>2, InstanceBranch
  <2> HIDE DEF b
  <2>4. ASSUME NEW r \in DOMAIN b, l \o r \in Locations
        PROVE  b[r] \in NewValues
    <3>1. phase = "callback" /\ edits < MaxEdits
      BY <1>2, <2>1
    <3>2. \A k \in Families : Value(k, Size, Fresh(l \o r), TRUE) \in NewValues
      BY <1>8, <2>4, <3>1
    <3>3. \A s \in SitesOf(f) : kids[s] \in Families
      OBVIOUS
    <3>4. QED
      BY <2>3, <3>2, <3>3 DEF NewInstance
  <2>5. IsBranch(b) /\ Edit(Grafted(payload, l, b))
    BY <2>1, <2>3 DEF b, NewInstance
  <2>6. QED
    BY <2>4, <2>5, PutEdited
<1>10. ASSUME NEW l \in DOMAIN payload \cup Free(payload), NEW f \in Families \ {Root}, PutMapping(f, l)
       PROVE  \E p : Edited(p)
  <2> DEFINE b == Mapping(f, Ahead, l)
  <2>1. Edit(Grafted(payload, l, b))
    BY <1>10 DEF PutMapping
  <2>2. l \in Seq(Slots) \ {<<>>}
    BY <1>1, FreePlaces
  <2>3. DOMAIN b = {<<>>} /\ b[<<>>] = Value(f, Ahead, Fresh(l), FALSE)
    BY DEF Mapping
  <2> HIDE DEF b
  <2>4. IsBranch(b)
    <3>1. IsFiniteSet(DOMAIN b)
      <4>1. IsFiniteSet({<<>>})
        BY FS_Singleton, Zenon
      <4>2. QED
        BY <2>3, <4>1, Zenon
    <3>2. \A r \in DOMAIN b : r = <<>>
      BY <2>3
    <3>3. QED
      <4>1. <<>> \in Seq(Slots)
        BY EmptySeq
      <4>2. DOMAIN b \subseteq Seq(Slots) /\ <<>> \in DOMAIN b
        BY <2>3, <4>1, Zenon
      <4>3. QED
        BY <3>1, <3>2, <4>2, Zenon DEF IsBranch
  <2>5. l \o <<>> = l
    BY <2>2, ConcatEmptySeq
  <2>6. ASSUME NEW r \in DOMAIN b, l \o r \in Locations
        PROVE  b[r] \in NewValues
    <3>1. phase = "callback" /\ edits < MaxEdits
      BY <1>2, <2>1
    <3>2. r = <<>> /\ l \in Locations
      BY <2>3, <2>5, <2>6
    <3>3. Value(f, Ahead, Fresh(l), FALSE) \in NewValues
      BY <1>8, <3>1, <3>2
    <3>4. QED
      BY <2>3, <3>2, <3>3
  <2>7. QED
    BY <2>1, <2>4, <2>6, PutEdited
<1>11. QED
  BY <1>3, <1>4, <1>5, <1>6, <1>7, <1>9, <1>10 DEF CallbackStep

\* Types hold in the steps of a callback.
LEMMA TypingCallback ==
  ASSUME Typing, CallbackStep
  PROVE  Typing'
<1>1. ASSUME NEW p, Edited(p)
      PROVE  Typing'
  <2>1. /\ phase = "callback" /\ edits < MaxEdits /\ DOMAIN p \subseteq Locations
        /\ payload' = p /\ edits' = edits + 1
        /\ UNCHANGED <<target, at, phase, stage, selections, before, todo, replaced>>
        /\ Tree(p) /\ Values(p) \subseteq Values(payload) \cup NewValues
    BY <1>1 DEF Edited, Edit
  <2>2. edits \in 0 .. MaxEdits /\ MaxEdits \in Nat
    BY BoundsAssumption DEF BoundsAssumption, Typing
  <2>3. ASSUME NEW v \in Values(payload) \cup NewValues
        PROVE  v \in ValueType /\ (v.instance => v.family # Spoiled) /\ v.id.nth <= edits + 1
    <3>1. CASE v \in Values(payload)
      <4>1. PICK l \in DOMAIN payload : v = payload[l]
        BY <3>1 DEF Values
      <4>2. v \in ValueType /\ (v.instance => v.family # Spoiled) /\ v.id.nth <= edits
        BY <2>1, <4>1 DEF Typing, WellTyped
      <4>3. v.id.nth \in 0 .. MaxEdits
        BY <4>2 DEF ValueType, Objects
      <4>4. QED
        BY <2>2, <4>2, <4>3
    <3>2. CASE v \in NewValues
      <4>1. v \in ValueType /\ (v.instance => v.family # Spoiled) /\ v.id.nth \in 1 .. edits + 1
        BY <3>2 DEF NewValues
      <4>2. QED
        BY <2>2, <4>1
    <3>3. QED
      BY <3>1, <3>2
  <2>4. \A l \in DOMAIN p : p[l] \in Values(payload) \cup NewValues
    BY <2>1 DEF Values
  <2>5. \A l \in DOMAIN p : /\ p[l] \in ValueType /\ (p[l].instance => p[l].family # Spoiled)
                            /\ p[l].id.nth <= edits + 1
    BY <2>3, <2>4
  <2>6. WellTyped(payload)'
    BY <2>1, <2>5 DEF WellTyped, Tree
  <2>7. edits' \in 0 .. MaxEdits
    BY <2>1, <2>2
  <2>8. \A l \in DOMAIN payload' : payload'[l].id.nth <= edits'
    BY <2>1, <2>5
  <2>9. QED
    BY <2>1, <2>6, <2>7, <2>8 DEF Typing, Groups
<1>2. QED
  BY <1>1, CallbackMeans, TypingReturn

\* Types hold after every step.
LEMMA TypingNext ==
  ASSUME Typing, [Next]_vars
  PROVE  Typing'
<1>1. CASE UNCHANGED vars
  <2>1. WellTyped(payload)'
    BY <1>1 DEF vars, Typing, WellTyped, Tree
  <2>2. QED
    BY <1>1, <2>1 DEF vars, Typing, Groups
<1>2. CASE \E d \in Documents, from, to \in Labels : Begin(d, from, to)
  BY <1>2, TypingBegin
<1>3. CASE Convert
  BY <1>3, TypingConvert
<1>4. CASE ReconcileGroup
  BY <1>4, TypingReconcileGroup
<1>5. CASE SettleConverted
  BY <1>5, TypingSettleConverted
<1>6. CASE SettleCalled
  BY <1>6, TypingSettleCalled
<1>7. CASE Project
  BY <1>7, TypingProject
<1>8. CASE CallbackStep
  BY <1>8, TypingCallback
<1>9. QED
  BY <1>1, <1>2, <1>3, <1>4, <1>5, <1>6, <1>7, <1>8 DEF Next

\* The type invariant follows.
LEMMA TypingImplies ==
  ASSUME Typing
  PROVE  TypeOK
<1>1. /\ DOMAIN payload \subseteq Locations \ {<<>>}
      /\ \A l \in DOMAIN payload : payload[l] \in ValueType /\ (Len(l) > 1 => Front(l) \in DOMAIN payload)
  BY DEF Typing, WellTyped, Tree
<1>2. QED
  BY <1>1 DEF Typing, TypeOK, ValueType, SelectionType

\* Types: a payload is a tree of values in every state, whatever callbacks and owners move
\* in it, selections name families, labels, locations and objects that exist, and a
\* callback does no more than it may (_runtime_decorators.py:71-79).
THEOREM TypeCorrect == Spec => []TypeOK
<1>1. Init => Typing
  BY TypingInit
<1>2. Typing /\ [Next]_vars => Typing'
  BY TypingNext
<1>3. Typing => TypeOK
  BY TypingImplies
<1>4. QED
  BY <1>1, <1>2, <1>3, PTL DEF Spec

-----------------------------------------------------------------------------
(* What is kept, when the callbacks of embedded owners leave the values in them in place. *)

\* Values follow a family; instances are current.
Sound(p) ==
  \A l \in DOMAIN p : /\ p[l].family # Spoiled /\ p[l].id # NoObject
                      /\ p[l].instance => p[l].label = Size

\* What a selection says of its value is so.
BoundTo(x, p) ==
  /\ x.location \in DOMAIN p
  /\ p[x.location].family = x.family /\ p[x.location].label = x.label
  /\ p[x.location].id = x.id

\* No place has two selections.
Distinct(xs) == \A i, j \in DOMAIN xs : xs[i].location = xs[j].location => i = j

\* What is selected belongs to its site, in owners that are selected.
Belonging(xs) ==
  \A i \in DOMAIN xs :
    /\ xs[i].location # <<>> /\ xs[i].family \in Arm(SiteOf(xs[i].location))
    /\ \A n \in 1 .. Len(xs[i].location) : Held(xs, SubSeq(xs[i].location, 1, n))

\* What is not selected is an instance, and no occurrence.
Covered(xs, p) ==
  \A l \in DOMAIN p : ~Held(xs, l) => p[l].instance /\ l \notin Occurrences(p)

\* The selections agree with the payload.
Consistent(xs, p) ==
  /\ \A i \in DOMAIN xs : BoundTo(xs[i], p)
  /\ Distinct(xs) /\ Belonging(xs) /\ Covered(xs, p)

\* What a callback that needs label a was given, and what it has made of it so far.
Given(xs, p, a) ==
  /\ Distinct(xs) /\ Belonging(xs)
  /\ \A i \in DOMAIN xs : xs[i].id = Object(xs[i].location, 0) /\ xs[i].label = a
  /\ \A l \in DOMAIN p, i \in DOMAIN xs :
       p[l].id = xs[i].id => p[l].family = xs[i].family /\ p[l].label = xs[i].label
  /\ \A l \in DOMAIN p : ~p[l].instance =>
       /\ p[l].label = a
       /\ \/ \E i \in DOMAIN xs : xs[i].id = p[l].id
          \/ /\ p[l].id.nth # 0 /\ p[l].family \in Arm(SiteOf(l))
             /\ Kind[SiteOf(l)] = "mapping" =>
                  \A i \in DOMAIN xs : xs[i].location = l => p[l].family = xs[i].family
  /\ \A l \in DOMAIN p : p[l].instance /\ p[l].family \notin Arm(SiteOf(l)) =>
       \A m \in Subtree(p, l) : p[m].instance

\* The selections whose group is reconciled, and those that are not given up.
Done(i) == GroupOf(before[i]) \notin todo
Live(i) == ~HasReplacedAncestor(i)

\* Selection i is found: in the same owner as before, wherever that is now.
Placed(i) ==
  /\ BoundTo(selections[i], payload)
  /\ selections[i].family \in Arm(SiteOf(selections[i].location))
  /\ SiteOf(selections[i].location) = SiteOf(before[i].location)
  /\ \/ Front(before[i].location) = <<>> /\ Front(selections[i].location) = <<>>
     \/ \E j \in DOMAIN before :
          /\ Done(j) /\ Live(j) /\ before[j].location = Front(before[i].location)
          /\ selections[j].location = Front(selections[i].location)
  /\ \A j \in DOMAIN before :
       Identified(j, selections[i].location) => GroupOf(before[j]) = GroupOf(before[i])

\* Owners are reconciled before what is in them; what is reconciled and not given up is
\* found, each in a place of its own; and nothing is replaced where values were only
\* reordered.
Progress ==
  /\ \A i \in DOMAIN before : ~Done(i) => selections[i] = before[i]
  /\ \A i \in DOMAIN before : Done(i) /\ Live(i) => Placed(i)
  /\ \A i, j \in DOMAIN before :
       Done(i) /\ Live(i) /\ Done(j) /\ Live(j)
         /\ selections[i].location = selections[j].location => i = j
  /\ \A i \in replaced : Done(i) /\ Live(i)
  /\ \A i, j \in DOMAIN before :
       Done(i) /\ ~Done(j) => Len(before[i].location) <= Len(before[j].location)
  /\ OnlyReordered =>
       /\ replaced = {}
       /\ \A i \in DOMAIN before : Done(i) => selections[i].id = before[i].id

\* After a conversion everything is where its selection says.
Converting ==
  /\ selections = before /\ replaced = {}
  /\ Consistent(before, payload)
  /\ \A i \in DOMAIN before : before[i].label = Goal
  /\ \A l \in DOMAIN payload : payload[l].id = Object(l, 0)

\* In each phase, what the next one needs.
Kept ==
  /\ Sound(payload)
  /\ phase \in {"convert", "project", "callback"} => before = <<>>
  /\ Settled => Consistent(selections, payload)
  /\ phase = "project" => stage = "last" /\ \A i \in DOMAIN selections : selections[i].label = target
  /\ phase = "callback" => Given(selections, payload, Ahead)
  /\ phase = "reconcile" /\ stage # "called" => Converting
  /\ phase = "reconcile" /\ stage = "called" => Given(before, payload, Ahead) /\ Progress
  /\ phase = "done" => \A l \in DOMAIN payload : payload[l].label = target
  /\ phase = "refused" => ~OnlyReordered

\* The next state's consistency.
LEMMA ConsistentNext ==
  ASSUME Consistent(selections', payload')
  PROVE  Consistent(selections, payload)'
BY DEF Consistent, BoundTo, Distinct, Belonging, Covered, Held, Occurrences, Arm, ToSet, SiteOf

\* The next state's values.
LEMMA SoundNext ==
  ASSUME Sound(payload')
  PROVE  Sound(payload)'
BY DEF Sound

\* The first n slots m of place l.
Begins(m, l, n) ==
  /\ m \in Seq(Slots) \ {<<>>} /\ Len(m) = n
  /\ SiteOf(m) = l[n][1]
  /\ \A k \in 1 .. n : m[k] = l[k] /\ SubSeq(m, 1, k) = SubSeq(l, 1, k)
  /\ n > 1 => Front(m) = SubSeq(l, 1, n - 1)
  /\ n = 1 => Front(m) = <<>>
  /\ n = Len(l) => m = l
  /\ IsPrefix(m, l)

\* The beginnings of a place.
LEMMA BeginningOfPlace ==
  ASSUME NEW l \in Seq(Slots), NEW n \in 1 .. Len(l)
  PROVE  Begins(SubSeq(l, 1, n), l, n)
<1> DEFINE m == SubSeq(l, 1, n)
<1>1. Len(l) \in Nat /\ n \in 1 .. Len(l) /\ n \in Nat /\ n <= Len(l) /\ n > 0
  BY LenProperties
<1>2. m \in Seq(Slots) /\ Len(m) = n /\ \A i \in 1 .. n : m[i] = l[i]
  <2>1. n \in 0 .. Len(l)
    BY <1>1
  <2>2. QED
    BY <2>1, Beginning
<1>3. m # <<>>
  BY <1>1, <1>2, EmptySeq
<1>4. /\ Front(m) \in Seq(Slots) /\ Len(Front(m)) = n - 1
      /\ \A i \in 1 .. n - 1 : Front(m)[i] = m[i]
      /\ Last(m) = m[n]
  BY <1>2, <1>3, FrontAndLast
<1>5. SiteOf(m) = l[n][1]
  BY <1>1, <1>2, <1>4 DEF SiteOf
<1>6. ASSUME NEW k \in 1 .. n
      PROVE  SubSeq(m, 1, k) = SubSeq(l, 1, k)
  <2>1. k \in 0 .. Len(l) /\ k \in 0 .. Len(m)
    BY <1>1, <1>2
  <2>2. SubSeq(m, 1, k) \in Seq(Slots) /\ Len(SubSeq(m, 1, k)) = k
        /\ \A i \in 1 .. k : SubSeq(m, 1, k)[i] = m[i]
    BY <1>2, <2>1, Beginning
  <2>3. SubSeq(l, 1, k) \in Seq(Slots) /\ Len(SubSeq(l, 1, k)) = k
        /\ \A i \in 1 .. k : SubSeq(l, 1, k)[i] = l[i]
    BY <2>1, Beginning
  <2>4. \A i \in 1 .. k : SubSeq(m, 1, k)[i] = SubSeq(l, 1, k)[i]
    BY <1>1, <1>2, <2>2, <2>3
  <2>5. QED
    BY <2>2, <2>3, <2>4, SeqEqual
<1>7. ASSUME n > 1
      PROVE  Front(m) = SubSeq(l, 1, n - 1)
  <2>1. n - 1 \in 0 .. Len(l)
    BY <1>1
  <2>2. SubSeq(l, 1, n - 1) \in Seq(Slots) /\ Len(SubSeq(l, 1, n - 1)) = n - 1
        /\ \A i \in 1 .. n - 1 : SubSeq(l, 1, n - 1)[i] = l[i]
    BY <2>1, Beginning
  <2>3. \A i \in 1 .. n - 1 : Front(m)[i] = SubSeq(l, 1, n - 1)[i]
    BY <1>1, <1>2, <1>4, <2>2
  <2>4. QED
    BY <1>4, <2>2, <2>3, SeqEqual
<1>8. n = 1 => Front(m) = <<>>
  <2>1. n = 1 => Len(Front(m)) = 0
    BY <1>4
  <2>2. QED
    BY <1>4, <2>1, EmptySeq
<1>9. n = Len(l) => m = l
  BY <1>3, SubSeqFull, EmptySeq
<1>10. IsPrefix(m, l)
  BY <1>1, <1>2, PrefixMeans
<1> HIDE DEF m
<1>11. Begins(m, l, n)
  BY <1>2, <1>3, <1>5, <1>6, <1>7, <1>8, <1>9, <1>10 DEF Begins
<1>12. QED
  BY <1>11 DEF m

\* A set of places that holds their owners holds all their beginnings.
LEMMA BeginningsHeld ==
  ASSUME NEW S, IsFiniteSet(S), S \subseteq Seq(Slots) \ {<<>>},
         \A l \in S : Len(l) > 1 => Front(l) \in S
  PROVE  \A l \in S : \A n \in 1 .. Len(l) : SubSeq(l, 1, n) \in S
<1> DEFINE p == [l \in S |-> 0]
<1>1. DOMAIN p = S
  OBVIOUS
<1> HIDE DEF p
<1>2. Tree(p)
  BY <1>1 DEF Tree
<1>3. QED
  BY <1>1, <1>2, PartsOfPlace

\* Where every value belongs, all are occurrences; the owners of occurrences are too.
LEMMA OccurrencesOf ==
  ASSUME NEW p, Tree(p)
  PROVE  /\ (\A l \in DOMAIN p : p[l].family \in Arm(SiteOf(l))) => Occurrences(p) = DOMAIN p
         /\ \A l \in Occurrences(p) : /\ p[l].family \in Arm(SiteOf(l))
                                      /\ \A n \in 1 .. Len(l) : SubSeq(l, 1, n) \in Occurrences(p)
<1>1. ASSUME NEW l \in DOMAIN p
      PROVE  /\ l \in Seq(Slots) /\ l # <<>> /\ Len(l) \in 1 .. Len(l)
             /\ SubSeq(l, 1, Len(l)) = l
  <2>1. l \in Seq(Slots) /\ l # <<>>
    BY DEF Tree
  <2>2. Len(l) \in Nat \ {0}
    BY <2>1, FrontAndLast
  <2>3. QED
    BY <2>1, <2>2, SubSeqFull
<1>2. ASSUME \A l \in DOMAIN p : p[l].family \in Arm(SiteOf(l)), NEW l \in DOMAIN p
      PROVE  l \in Occurrences(p)
  <2>1. ASSUME NEW n \in 1 .. Len(l)
        PROVE  p[SubSeq(l, 1, n)].family \in Arm(l[n][1])
    <3> DEFINE m == SubSeq(l, 1, n)
    <3>1. m \in DOMAIN p
      BY PartsOfPlace
    <3>2. l \in Seq(Slots)
      BY <1>1
    <3>3. Begins(m, l, n)
      BY <3>2, BeginningOfPlace
    <3> HIDE DEF m
    <3>4. SiteOf(m) = l[n][1]
      BY <3>3 DEF Begins
    <3>5. p[m].family \in Arm(l[n][1])
      BY <1>2, <3>1, <3>4
    <3>6. QED
      BY <3>5 DEF m
  <2>2. QED
    BY <2>1 DEF Occurrences
<1>3. ASSUME NEW l \in Occurrences(p)
      PROVE  /\ p[l].family \in Arm(SiteOf(l))
             /\ \A n \in 1 .. Len(l) : SubSeq(l, 1, n) \in Occurrences(p)
  <2>1. l \in DOMAIN p /\ \A n \in 1 .. Len(l) : p[SubSeq(l, 1, n)].family \in Arm(l[n][1])
    BY DEF Occurrences
  <2>2. p[l].family \in Arm(SiteOf(l))
    <3>1. l \in Seq(Slots) /\ l # <<>> /\ Len(l) \in 1 .. Len(l) /\ SubSeq(l, 1, Len(l)) = l
      BY <1>1, <2>1
    <3>2. Last(l) = l[Len(l)]
      BY <3>1, FrontAndLast
    <3>3. SiteOf(l) = l[Len(l)][1]
      BY <3>2 DEF SiteOf
    <3>4. QED
      BY <2>1, <3>1, <3>3
  <2>3. ASSUME NEW n \in 1 .. Len(l)
        PROVE  SubSeq(l, 1, n) \in Occurrences(p)
    <3> DEFINE m == SubSeq(l, 1, n)
    <3>1. m \in DOMAIN p
      BY <2>1, PartsOfPlace
    <3>2. Begins(m, l, n)
      BY <1>1, <2>1, BeginningOfPlace
    <3>3. 1 .. n \subseteq 1 .. Len(l)
      BY <1>1, <2>1
    <3> HIDE DEF m
    <3>4. Len(m) = n /\ \A k \in 1 .. n : m[k] = l[k] /\ SubSeq(m, 1, k) = SubSeq(l, 1, k)
      BY <3>2 DEF Begins
    <3>5. \A k \in 1 .. Len(m) : p[SubSeq(m, 1, k)].family \in Arm(m[k][1])
      BY <2>1, <3>3, <3>4
    <3>6. QED
      BY <3>1, <3>5 DEF Occurrences, m
  <2>4. QED
    BY <2>2, <2>3
<1>4. QED
  BY <1>2, <1>3 DEF Occurrences

\* The selections of a payload say what it holds.
LEMMA SelectedConsistent ==
  ASSUME NEW p, WellTyped(p), \A l \in DOMAIN p : p[l].family \in Arm(SiteOf(l))
  PROVE  Consistent(Selected(p), p)
<1>1. Tree(p)
  BY DEF WellTyped
<1>2. Occurrences(p) = DOMAIN p /\ \A l \in DOMAIN p : \A n \in 1 .. Len(l) : SubSeq(l, 1, n) \in DOMAIN p
  BY <1>1, OccurrencesOf
<1>3. /\ \A i \in DOMAIN Selected(p) : \E l \in DOMAIN p :
           Selected(p)[i] = Selection(p[l].family, p[l].label, l, p[l].id)
      /\ \A l \in DOMAIN p : \E i \in DOMAIN Selected(p) : Selected(p)[i].location = l
      /\ \A i, j \in DOMAIN Selected(p) : Selected(p)[i].location = Selected(p)[j].location => i = j
  BY <1>2, SelectedTyped
<1>4. \A l \in DOMAIN p : Held(Selected(p), l)
  BY <1>3 DEF Held
<1>5. ASSUME NEW i \in DOMAIN Selected(p)
      PROVE  /\ BoundTo(Selected(p)[i], p)
             /\ Selected(p)[i].location # <<>>
             /\ Selected(p)[i].family \in Arm(SiteOf(Selected(p)[i].location))
             /\ \A n \in 1 .. Len(Selected(p)[i].location) :
                  Held(Selected(p), SubSeq(Selected(p)[i].location, 1, n))
  <2>1. PICK l \in DOMAIN p : Selected(p)[i] = Selection(p[l].family, p[l].label, l, p[l].id)
    BY <1>3
  <2>2. Selected(p)[i].location = l /\ Selected(p)[i].family = p[l].family
        /\ Selected(p)[i].label = p[l].label /\ Selected(p)[i].id = p[l].id
    BY <2>1 DEF Selection
  <2>3. l # <<>>
    BY <1>1 DEF Tree
  <2>4. BoundTo(Selected(p)[i], p)
    BY <2>2 DEF BoundTo
  <2>5. \A n \in 1 .. Len(l) : Held(Selected(p), SubSeq(l, 1, n))
    BY <1>2, <1>4
  <2>6. QED
    BY <2>2, <2>3, <2>4, <2>5
<1>6. QED
  BY <1>3, <1>4, <1>5 DEF Consistent, Distinct, Belonging, Covered

\* What is kept holds when a conversion begins.
LEMMA KeptBegin ==
  ASSUME NEW d \in Documents, NEW from \in Labels, NEW to \in Labels, Begin(d, from, to)
  PROVE  Kept'
<1>1. payload' = [l \in DOMAIN d |-> Value(d[l], from, Object(l, 0), FALSE)]
      /\ selections' = Selected(payload') /\ before' = <<>> /\ phase' = "convert"
  BY DEF Begin, GoOn
<1>2. /\ WellTyped(payload')
      /\ \A l \in DOMAIN payload' : /\ payload'[l] = Value(d[l], from, Object(l, 0), FALSE)
                                    /\ payload'[l].family \in Arm(SiteOf(l))
  BY <1>1, SourceTyped
<1>3. Consistent(selections, payload)'
  BY <1>1, <1>2, SelectedConsistent, ConsistentNext
<1>4. ASSUME NEW l \in DOMAIN payload'
      PROVE  payload'[l].family # Spoiled /\ payload'[l].id # NoObject /\ ~payload'[l].instance
  <2>1. payload'[l].id = Object(l, 0) /\ ~payload'[l].instance /\ l # <<>>
    BY <1>2 DEF Value, WellTyped, Tree
  <2>2. payload'[l].id.place = l /\ NoObject.place = <<>>
    BY <2>1 DEF Object, NoObject
  <2>3. payload'[l].family # Spoiled
    <3>1. l \in Seq(Slots) \ {<<>>}
      BY <1>2 DEF WellTyped, Tree
    <3>2. SiteOf(l) \in Sites
      BY <3>1, FrontAndLast, SlotNumbers DEF SiteOf
    <3>3. QED
      BY <1>2, <3>2, ArmFamilies, SitesAssumption DEF SitesAssumption
  <2>4. QED
    BY <2>1, <2>2, <2>3
<1>5. Sound(payload)'
  BY <1>4, SoundNext DEF Sound
<1>6. QED
  BY <1>1, <1>3, <1>5 DEF Kept, Settled

\* The beginning of a place that is a prefix of it.
LEMMA PrefixIsBeginning ==
  ASSUME NEW l \in Seq(Slots) \ {<<>>}, NEW m \in Seq(Slots), IsPrefix(l, m)
  PROVE  Len(l) \in 1 .. Len(m) /\ SubSeq(m, 1, Len(l)) = l
<1>1. Len(l) <= Len(m) /\ \A i \in 1 .. Len(l) : l[i] = m[i]
  BY PrefixMeans
<1>2. Len(l) \in Nat \ {0} /\ Len(m) \in Nat
  BY FrontAndLast, LenProperties
<1>3. Len(l) \in 1 .. Len(m) /\ Len(l) \in 0 .. Len(m)
  BY <1>1, <1>2
<1>4. /\ SubSeq(m, 1, Len(l)) \in Seq(Slots) /\ Len(SubSeq(m, 1, Len(l))) = Len(l)
      /\ \A i \in 1 .. Len(l) : SubSeq(m, 1, Len(l))[i] = m[i]
  BY <1>3, Beginning
<1>5. SubSeq(m, 1, Len(l)) = l
  BY <1>1, <1>4, SeqEqual
<1>6. QED
  BY <1>3, <1>5

\* Occurrences depend on families alone.
LEMMA OccurrencesKept ==
  ASSUME NEW p, NEW q, Tree(p), DOMAIN q = DOMAIN p, \A l \in DOMAIN p : q[l].family = p[l].family
  PROVE  Occurrences(q) = Occurrences(p)
<1>1. \A l \in DOMAIN p : \A n \in 1 .. Len(l) : q[SubSeq(l, 1, n)].family = p[SubSeq(l, 1, n)].family
  BY PartsOfPlace
<1>2. QED
  BY <1>1 DEF Occurrences

\* A selection's value is converted by the family it follows.
LEMMA ConvertedByFamily ==
  ASSUME Consistent(selections, payload), WellTyped(payload), NEW a,
         NEW l \in DOMAIN payload, SelectedAt(l) # {}
  PROVE  Converted(payload[l], selections[CHOOSE i \in SelectedAt(l) : TRUE], a)
           = [payload[l] EXCEPT !.label = a, !.instance = FALSE]
<1> DEFINE k == CHOOSE i \in SelectedAt(l) : TRUE
<1>1. k \in SelectedAt(l)
  OBVIOUS
<1> HIDE DEF k
<1>2. k \in DOMAIN selections /\ selections[k].location = l
  BY <1>1 DEF SelectedAt
<1>3. payload[l].family = selections[k].family /\ payload[l].label = selections[k].label
  BY <1>2 DEF Consistent, BoundTo
<1>4. QED
  BY <1>3 DEF Converted, k

\* Whether a place is held is whether it is selected.
LEMMA HeldSelected ==
  ASSUME NEW l
  PROVE  Held(selections, l) <=> SelectedAt(l) # {}
BY DEF Held, SelectedAt

\* A conversion keeps what values follow and where they are.
LEMMA ConvertedValues ==
  ASSUME Consistent(selections, payload), Sound(payload), WellTyped(payload), NEW a \in Labels,
         NEW l \in DOMAIN payload, NEW v, v = ConvertedPayload(a)[l]
  PROVE  /\ v.family = payload[l].family
         /\ Held(selections, l) => v.label = a
         /\ ~Held(selections, l) => v = payload[l]
         /\ v.instance => v = payload[l]
<1> DEFINE k == CHOOSE i \in SelectedAt(l) : TRUE
           w == payload[l]
<1>1. v = IF \E i \in SelectedAt(l) : selections[i].label # a
          THEN Converted(w, selections[k], a) ELSE w
  BY DEF ConvertedPayload
<1>2. w \in ValueType
  BY DEF WellTyped
<1>3. CASE \E i \in SelectedAt(l) : selections[i].label # a
  <2>1. v = [w EXCEPT !.label = a, !.instance = FALSE]
    BY <1>1, <1>3, ConvertedByFamily
  <2>2. Held(selections, l)
    BY <1>3, HeldSelected
  <2> HIDE DEF w
  <2>3. v.family = w.family /\ v.label = a /\ ~v.instance
    BY <1>2, <2>1 DEF ValueType
  <2>4. QED
    BY <2>2, <2>3 DEF w
<1>4. CASE ~(\E i \in SelectedAt(l) : selections[i].label # a)
  <2>1. v = w
    BY <1>1, <1>4
  <2>2. ASSUME Held(selections, l)
        PROVE  w.label = a
    <3>1. PICK i \in DOMAIN selections : selections[i].location = l
      BY <2>2 DEF Held
    <3>2. selections[i].label = a
      BY <1>4, <3>1 DEF SelectedAt
    <3>3. QED
      BY <3>1, <3>2 DEF Consistent, BoundTo
  <2>3. QED
    BY <2>1, <2>2
<1>5. QED
  BY <1>3, <1>4

\* The first step towards refusal leaves everything as it is.
LEMMA KeptRefuse ==
  ASSUME Kept, Refuse, ~OnlyReordered
  PROVE  Kept'
<1>1. Sound(payload)'
  BY DEF Kept, Refuse, Sound
<1>2. ~OnlyReordered'
  BY DEF Refuse, OnlyReordered, Occurrences
<1>3. QED
  BY <1>1, <1>2 DEF Kept, Refuse, Settled

\* The occurrences are converted, and nothing else happens to the payload.
LEMMA ConvertAlone ==
  ASSUME OwnerEdits = {}, Convert, ~Refuse
  PROVE  payload' = Refreshed(ConvertedPayload(Goal))
<1>1. PICK owners, p : p \in OwnerOutcomes(ConvertedPayload(Goal), owners) /\ payload' = Refreshed(p)
  BY ConvertMeans
<1>2. p = ConvertedPayload(Goal)
  BY <1>1 DEF OwnerOutcomes
<1>3. QED
  BY <1>1, <1>2

\* After a conversion, every selection says again what its value is.
LEMMA ConvertConsistent ==
  ASSUME Consistent(selections, payload), Sound(payload), WellTyped(payload), NEW a \in Labels,
         selections \in Seq(SelectionType),
         NEW p, p = Refreshed(ConvertedPayload(a)), NEW xs, xs = Aimed(selections, p, a)
  PROVE  /\ Consistent(xs, p) /\ Sound(p)
         /\ \A i \in DOMAIN xs : xs[i].label = a
         /\ \A l \in DOMAIN p : p[l].id = Object(l, 0)
<1> DEFINE q == ConvertedPayload(a)
<1>1. WellTyped(q) /\ DOMAIN q = DOMAIN payload
  BY ConvertedTyped
<1>2. /\ DOMAIN p = DOMAIN payload
      /\ \A l \in DOMAIN payload : p[l] = [q[l] EXCEPT !.id = Object(l, 0)]
  BY <1>1, RefreshedTyped DEF WellTyped
<1>3. ASSUME NEW l \in DOMAIN payload
      PROVE  /\ q[l] \in ValueType /\ q[l].family = payload[l].family
             /\ Held(selections, l) => q[l].label = a
             /\ ~Held(selections, l) => q[l] = payload[l]
             /\ q[l].instance => q[l] = payload[l]
  BY <1>1, ConvertedValues DEF WellTyped
<1> HIDE DEF q
<1>4. ASSUME NEW l \in DOMAIN payload
      PROVE  /\ p[l].family = payload[l].family /\ p[l].id = Object(l, 0)
             /\ Held(selections, l) => p[l].label = a
             /\ ~Held(selections, l) => p[l].instance = payload[l].instance
             /\ p[l].instance => payload[l].instance /\ p[l].label = payload[l].label
  <2>1. p[l] = [q[l] EXCEPT !.id = Object(l, 0)] /\ q[l] \in ValueType
    BY <1>2, <1>3
  <2>2. p[l].family = q[l].family /\ p[l].id = Object(l, 0) /\ p[l].label = q[l].label
        /\ p[l].instance = q[l].instance
    BY <2>1 DEF ValueType
  <2>3. QED
    BY <1>3, <2>2
<1>5. /\ DOMAIN xs = DOMAIN selections
      /\ \A i \in DOMAIN xs :
           xs[i] = Selection(selections[i].family, a, selections[i].location,
                             IF selections[i].location \in DOMAIN p
                             THEN Object(selections[i].location, 0) ELSE NoObject)
  BY DEF Aimed
<1>6. ASSUME NEW i \in DOMAIN selections
      PROVE  /\ BoundTo(selections[i], payload)
             /\ selections[i].location # <<>>
             /\ selections[i].family \in Arm(SiteOf(selections[i].location))
             /\ \A n \in 1 .. Len(selections[i].location) :
                  Held(selections, SubSeq(selections[i].location, 1, n))
  BY DEF Consistent, Belonging
<1>7. ASSUME NEW i \in DOMAIN selections
      PROVE  /\ xs[i].location = selections[i].location /\ xs[i].family = selections[i].family
             /\ xs[i].label = a /\ xs[i].id = Object(selections[i].location, 0)
             /\ selections[i].location \in DOMAIN payload
  <2>1. selections[i].location \in DOMAIN payload
    BY <1>6 DEF BoundTo
  <2>2. xs[i] = Selection(selections[i].family, a, selections[i].location, Object(selections[i].location, 0))
    BY <1>2, <1>5, <2>1
  <2>3. QED
    BY <2>1, <2>2 DEF Selection
<1>8. \A l : Held(xs, l) <=> Held(selections, l)
  BY <1>5, <1>7 DEF Held
<1>9. ASSUME NEW i \in DOMAIN xs
      PROVE  BoundTo(xs[i], p)
  <2> DEFINE l == selections[i].location
  <2>1. l \in DOMAIN payload /\ Held(selections, l) /\ payload[l].family = selections[i].family
    BY <1>5, <1>6 DEF BoundTo, Held
  <2>2. p[l].family = selections[i].family /\ p[l].label = a /\ p[l].id = Object(l, 0)
    BY <1>4, <2>1
  <2> HIDE DEF l
  <2>3. xs[i].location = l /\ xs[i].family = selections[i].family /\ xs[i].label = a
        /\ xs[i].id = Object(l, 0)
    BY <1>5, <1>7 DEF l
  <2>4. QED
    BY <1>2, <2>1, <2>2, <2>3 DEF BoundTo
<1>10. Distinct(xs)
  BY <1>5, <1>7 DEF Distinct, Consistent
<1>11. Belonging(xs)
  BY <1>5, <1>6, <1>7, <1>8 DEF Belonging
<1>12. Covered(xs, p)
  <2>1. Tree(payload)
    BY DEF WellTyped
  <2>2. \A l \in DOMAIN payload : p[l].family = payload[l].family
    BY <1>4
  <2>3. Occurrences(p) = Occurrences(payload)
    BY <1>2, <2>1, <2>2, OccurrencesKept
  <2>4. QED
    BY <1>2, <1>4, <1>8, <2>3 DEF Covered, Consistent
<1>13. ASSUME NEW l \in DOMAIN payload
       PROVE  /\ p[l].family # Spoiled /\ p[l].id # NoObject
              /\ p[l].instance => p[l].label = Size
  <2>1. l # <<>>
    BY DEF WellTyped, Tree
  <2>2. Object(l, 0).place = l /\ NoObject.place = <<>>
    BY DEF Object, NoObject
  <2>3. QED
    BY <1>4, <2>1, <2>2 DEF Sound
<1>14. Sound(p)
  BY <1>2, <1>13 DEF Sound
<1>15. QED
  BY <1>2, <1>4, <1>5, <1>7, <1>9, <1>10, <1>11, <1>12, <1>14 DEF Consistent

\* What is kept holds when occurrences are converted.
LEMMA KeptConvert ==
  ASSUME OwnerEdits = {}, Typing, Kept, Convert
  PROVE  Kept'
<1>1. phase = "convert" /\ Consistent(selections, payload) /\ Sound(payload)
  BY DEF Convert, Kept, Settled
<1>2. WellTyped(payload) /\ selections \in Seq(SelectionType) /\ Goal \in Labels /\ stage # "called"
  BY <1>1, GoalExists DEF Typing
<1>3. ~\E i \in {k \in DOMAIN selections :
                   selections[k].label # Goal /\ selections[k].location \in DOMAIN payload} :
         payload[selections[i].location].instance
           /\ payload[selections[i].location].family # selections[i].family
  BY <1>1 DEF Consistent, BoundTo
<1>4. ~Refuse
  BY <1>1, <1>3 DEF Convert, Reconcile, Refuse
<1>5. /\ selections' = Aimed(selections, payload', Goal)
      /\ phase' = "reconcile" /\ before' = selections' /\ replaced' = {}
      /\ UNCHANGED <<target, at, stage>>
  BY <1>4, ConvertMeans
<1>6. payload' = Refreshed(ConvertedPayload(Goal))
  BY <1>4, ConvertAlone
<1>7. /\ Consistent(selections', payload') /\ Sound(payload')
      /\ \A i \in DOMAIN selections' : selections'[i].label = Goal
      /\ \A l \in DOMAIN payload' : payload'[l].id = Object(l, 0)
  BY <1>1, <1>2, <1>5, <1>6, ConvertConsistent
<1>8. Consistent(before, payload)'
  <2>1. Consistent(before', payload')
    BY <1>5, <1>7
  <2>2. QED
    BY <2>1 DEF Consistent, BoundTo, Distinct, Belonging, Covered, Held, Occurrences, Arm, ToSet, SiteOf
<1>9. Goal' = Goal
  BY <1>5 DEF Goal, Ahead
<1>10. Converting'
  BY <1>5, <1>7, <1>8, <1>9 DEF Converting, Object
<1>11. Sound(payload)'
  BY <1>7, SoundNext
<1>12. QED
  BY <1>2, <1>5, <1>10, <1>11 DEF Kept, Settled

\* Consistency does not depend on the order of selections.
LEMMA ConsistentAlike ==
  ASSUME NEW xs, NEW ys, NEW p, Consistent(ys, p), Distinct(xs),
         \A n \in DOMAIN xs : \E i \in DOMAIN ys : xs[n] = ys[i],
         \A i \in DOMAIN ys : \E n \in DOMAIN xs : xs[n] = ys[i]
  PROVE  Consistent(xs, p)
<1>1. \A l : Held(xs, l) <=> Held(ys, l)
  BY DEF Held
<1>2. \A n \in DOMAIN xs : BoundTo(xs[n], p)
  BY DEF Consistent
<1>3. Belonging(xs)
  <2>1. SUFFICES ASSUME NEW n \in DOMAIN xs
                 PROVE  /\ xs[n].location # <<>> /\ xs[n].family \in Arm(SiteOf(xs[n].location))
                        /\ \A k \in 1 .. Len(xs[n].location) : Held(xs, SubSeq(xs[n].location, 1, k))
    BY DEF Belonging
  <2>2. PICK i \in DOMAIN ys : xs[n] = ys[i]
    OBVIOUS
  <2>3. /\ ys[i].location # <<>> /\ ys[i].family \in Arm(SiteOf(ys[i].location))
        /\ \A k \in 1 .. Len(ys[i].location) : Held(ys, SubSeq(ys[i].location, 1, k))
    BY DEF Consistent, Belonging
  <2>4. QED
    BY <1>1, <2>2, <2>3
<1>4. Covered(xs, p)
  BY <1>1 DEF Covered, Consistent
<1>5. QED
  BY <1>2, <1>3, <1>4 DEF Consistent

\* What a callback is given is what was converted.
LEMMA GivenAtFirst ==
  ASSUME NEW xs, NEW p, NEW a, WellTyped(p), Consistent(xs, p),
         \A i \in DOMAIN xs : xs[i].label = a,
         \A l \in DOMAIN p : p[l].id = Object(l, 0)
  PROVE  Given(xs, p, a)
<1>1. \A l : Object(l, 0).place = l
  BY DEF Object
<1>2. ASSUME NEW i \in DOMAIN xs
      PROVE  /\ xs[i].location \in DOMAIN p /\ xs[i].id = Object(xs[i].location, 0)
             /\ p[xs[i].location].family = xs[i].family /\ p[xs[i].location].label = xs[i].label
             /\ p[xs[i].location].id = xs[i].id
             /\ xs[i].family \in Arm(SiteOf(xs[i].location))
             /\ \A n \in 1 .. Len(xs[i].location) : Held(xs, SubSeq(xs[i].location, 1, n))
  BY DEF Consistent, BoundTo, Belonging
<1>3. ASSUME NEW l \in DOMAIN p, NEW i \in DOMAIN xs, p[l].id = xs[i].id
      PROVE  p[l].family = xs[i].family /\ p[l].label = xs[i].label
  <2>1. Object(l, 0) = Object(xs[i].location, 0)
    BY <1>2, <1>3
  <2>2. l = xs[i].location
    BY <1>1, <2>1
  <2>3. QED
    BY <1>2, <2>2
<1>4. ASSUME NEW l \in DOMAIN p, ~p[l].instance
      PROVE  p[l].label = a /\ \E i \in DOMAIN xs : xs[i].location = l /\ xs[i].id = p[l].id
  <2>1. PICK i \in DOMAIN xs : xs[i].location = l
    BY <1>4 DEF Consistent, Covered, Held
  <2>2. QED
    BY <1>2, <2>1
<1>5. ASSUME NEW l \in DOMAIN p, p[l].family \notin Arm(SiteOf(l)),
             NEW m \in Subtree(p, l)
      PROVE  p[m].instance
  <2>1. SUFFICES ASSUME ~p[m].instance
                 PROVE  FALSE
    BY DEF WellTyped, ValueType, Subtree
  <2>2. m \in DOMAIN p /\ IsPrefix(l, m)
    BY DEF Subtree
  <2>3. PICK i \in DOMAIN xs : xs[i].location = m
    BY <1>4, <2>1, <2>2
  <2>4. l \in Seq(Slots) \ {<<>>} /\ m \in Seq(Slots)
    BY <2>2 DEF WellTyped, Tree
  <2>5. Len(l) \in 1 .. Len(m) /\ SubSeq(m, 1, Len(l)) = l
    BY <2>2, <2>4, PrefixIsBeginning
  <2>6. Held(xs, l)
    BY <1>2, <2>3, <2>5
  <2>7. PICK j \in DOMAIN xs : xs[j].location = l
    BY <2>6 DEF Held
  <2>8. QED
    BY <1>2, <1>5, <2>7
<1>6. \A i \in DOMAIN xs : xs[i].id = Object(xs[i].location, 0) /\ xs[i].label = a
  BY <1>2
<1>7. QED
  BY <1>3, <1>4, <1>5, <1>6 DEF Given, Consistent

\* What the next callback is given.
LEMMA GivenNext ==
  ASSUME NEW a, Given(selections', payload', a), a = Ahead'
  PROVE  Given(selections, payload, Ahead)'
BY DEF Given, Distinct, Belonging, Held, Subtree, Arm, ToSet, SiteOf, Object

\* Where nothing is replaced, everything is retained.
LEMMA AllRetained ==
  ASSUME Typing, replaced = {}, Distinct(selections)
  PROVE  /\ Retained \in Seq(SelectionType) /\ Distinct(Retained)
         /\ \A n \in DOMAIN Retained : \E i \in DOMAIN selections : Retained[n] = selections[i]
         /\ \A i \in DOMAIN selections : \E n \in DOMAIN Retained : Retained[n] = selections[i]
<1>1. \A i : ~HasReplacedAncestor(i)
  BY DEF HasReplacedAncestor
<1>2. /\ Retained \in Seq(SelectionType)
      /\ \A n \in DOMAIN Retained : \E i \in DOMAIN selections :
           ~HasReplacedAncestor(i) /\ Retained[n] = selections[i]
      /\ \A i \in DOMAIN selections : ~HasReplacedAncestor(i) =>
           \E n \in DOMAIN Retained : Retained[n] = selections[i]
      /\ (\A i, j \in DOMAIN selections :
            ~HasReplacedAncestor(i) /\ ~HasReplacedAncestor(j)
              /\ selections[i].location = selections[j].location => i = j)
         => \A n, k \in DOMAIN Retained : Retained[n].location = Retained[k].location => n = k
  BY RetainedSeq DEF Typing
<1>3. QED
  BY <1>1, <1>2 DEF Distinct

\* Selections of values that are distinct objects share none.
LEMMA NoneShared ==
  ASSUME NEW xs, NEW p, \A i \in DOMAIN xs : BoundTo(xs[i], p),
         \A l, m \in DOMAIN p : p[l].id = p[m].id => l = m
  PROVE  ~SharedIdentity(xs)
BY DEF SharedIdentity, BoundTo

\* What is kept holds when a conversion is reconciled.
LEMMA KeptSettleConverted ==
  ASSUME Typing, Kept, SettleConverted
  PROVE  Kept'
<1>1. phase = "reconcile" /\ stage # "called" /\ Converting /\ Sound(payload)
  BY DEF SettleConverted, Kept
<1>2. /\ WellTyped(payload) /\ selections \in Seq(SelectionType) /\ stage \in {"edge", "called", "last"}
      /\ stage # "last" => at # target
  BY DEF Typing
<1>3. Consistent(selections, payload) /\ replaced = {} /\ Distinct(selections)
  BY <1>1 DEF Converting, Consistent
<1>4. /\ Retained \in Seq(SelectionType) /\ Distinct(Retained)
      /\ \A n \in DOMAIN Retained : \E i \in DOMAIN selections : Retained[n] = selections[i]
      /\ \A i \in DOMAIN selections : \E n \in DOMAIN Retained : Retained[n] = selections[i]
  BY <1>3, AllRetained
<1>5. Consistent(Retained, payload)
  BY <1>3, <1>4, ConsistentAlike
<1>6. \A n \in DOMAIN Retained : Retained[n].label = Goal
  BY <1>1, <1>4 DEF Converting
<1>7. \A l \in DOMAIN payload : payload[l].id = Object(l, 0)
  BY <1>1 DEF Converting
<1>8. ~SharedIdentity(Retained)
  <2>1. \A l, m \in DOMAIN payload : payload[l].id = payload[m].id => l = m
    <3>1. \A l : Object(l, 0).place = l
      BY DEF Object
    <3>2. QED
      BY <1>7, <3>1
  <2>2. \A n \in DOMAIN Retained : BoundTo(Retained[n], payload)
    BY <1>5 DEF Consistent
  <2>3. QED
    BY <2>1, <2>2, NoneShared
<1>9. ~Refuse
  BY <1>1, <1>8 DEF SettleConverted, Refuse, GoOn
<1>10. /\ selections' = Retained /\ before' = <<>> /\ edits' = 0
       /\ UNCHANGED <<target, payload>>
       /\ \/ stage = "last" /\ phase' = "project" /\ UNCHANGED <<at, stage>>
          \/ stage = "edge" /\ phase' = "callback" /\ UNCHANGED <<at, stage>>
          \/ stage = "edge" /\ GoOn(Ahead, target)
  BY <1>2, <1>9, SettleConvertedMeans
<1>11. Sound(payload)'
  BY <1>1, <1>10, SoundNext
<1>12. Consistent(selections, payload)'
  <2>1. Consistent(selections', payload')
    BY <1>5, <1>10
  <2>2. QED
    BY <2>1, ConsistentNext
<1>13. CASE stage = "last" /\ phase' = "project" /\ UNCHANGED <<at, stage>>
  <2>1. \A i \in DOMAIN selections' : selections'[i].label = target'
    BY <1>6, <1>10, <1>13 DEF Goal
  <2>2. QED
    BY <1>10, <1>11, <1>12, <1>13, <2>1 DEF Kept, Settled
<1>14. CASE stage = "edge" /\ phase' = "callback" /\ UNCHANGED <<at, stage>>
  <2>1. Given(Retained, payload, Goal)
    BY <1>2, <1>5, <1>6, <1>7, GivenAtFirst
  <2>2. Goal = Ahead' /\ selections' = Retained /\ payload' = payload
    BY <1>10, <1>14 DEF Goal, Ahead
  <2>3. Given(selections', payload', Goal)
    BY <2>1, <2>2
  <2>4. Given(selections, payload, Ahead)'
    BY <2>2, <2>3, GivenNext
  <2>5. QED
    BY <1>10, <1>11, <1>12, <1>14, <2>4 DEF Kept, Settled
<1>15. CASE stage = "edge" /\ GoOn(Ahead, target)
  <2>1. phase' = "convert"
    BY <1>15 DEF GoOn
  <2>2. QED
    BY <1>10, <1>11, <1>12, <2>1 DEF Kept, Settled
<1>16. QED
  BY <1>10, <1>13, <1>14, <1>15

\* Nothing is reordered where there is nothing.
LEMMA NothingReordered ==
  ASSUME before = <<>>, OnlyReordered
  PROVE  DOMAIN payload = {}
<1>1. DOMAIN before = {}
  BY EmptySeq
<1>2. {payload[l].id : l \in DOMAIN payload} = {before[i].id : i \in DOMAIN before}
  BY DEF OnlyReordered
<1>3. \A l \in DOMAIN payload : payload[l].id \in {payload[m].id : m \in DOMAIN payload}
  OBVIOUS
<1>4. QED
  BY <1>1, <1>2, <1>3

\* What is kept holds after the last projection.
LEMMA KeptProject ==
  ASSUME Typing, Kept, Project
  PROVE  Kept'
<1>1. /\ phase = "project" /\ before = <<>> /\ Consistent(selections, payload) /\ Sound(payload)
      /\ WellTyped(payload)
  BY DEF Project, Kept, Settled, Typing
<1>2. CASE Refuse
  <2>1. \E l \in DOMAIN Projected : TRUE
    BY <1>1, <1>2 DEF Project, Refuse, Projected
  <2>2. DOMAIN payload # {}
    BY <2>1 DEF Projected
  <2>3. QED
    BY <1>1, <1>2, <2>2, NothingReordered, KeptRefuse
<1>3. CASE ~Refuse
  <2>1. /\ payload' = Projected /\ phase' = "done"
        /\ \A l \in DOMAIN Projected : Projected[l].family \in Arm(SiteOf(l)) \cup {Spoiled}
        /\ UNCHANGED <<target, selections, before>>
    BY <1>3 DEF Project, Projected
  <2>2. ASSUME NEW l \in DOMAIN payload
        PROVE  /\ payload'[l] = IF Held(selections, l)
                                THEN [payload[l] EXCEPT !.label = target, !.instance = FALSE]
                                ELSE payload[l]
               /\ payload[l] \in ValueType /\ payload[l].family # Spoiled /\ payload[l].id # NoObject
    <3>1. payload[l] \in ValueType /\ payload[l].family # Spoiled /\ payload[l].id # NoObject
      BY <1>1 DEF WellTyped, Sound
    <3>2. CASE SelectedAt(l) = {}
      BY <2>1, <3>1, <3>2, HeldSelected DEF Projected
    <3>3. CASE SelectedAt(l) # {}
      <4>1. Converted(payload[l], selections[CHOOSE i \in SelectedAt(l) : TRUE], target)
              = [payload[l] EXCEPT !.label = target, !.instance = FALSE]
        BY <1>1, <3>3, ConvertedByFamily
      <4>2. Held(selections, l)
        BY <3>3, HeldSelected
      <4>3. QED
        BY <2>1, <3>1, <3>3, <4>1, <4>2 DEF Projected
    <3>4. QED
      BY <3>2, <3>3
  <2>3. DOMAIN payload' = DOMAIN payload
    BY <2>1 DEF Projected
  <2>4. ASSUME NEW l \in DOMAIN payload
        PROVE  payload[l].family \in Arm(SiteOf(l))
    <3>1. payload'[l].family = payload[l].family
      BY <2>2 DEF ValueType
    <3>2. payload'[l].family \in Arm(SiteOf(l)) \cup {Spoiled}
      BY <2>1, <2>3
    <3>3. QED
      BY <2>2, <3>1, <3>2
  <2>5. Occurrences(payload) = DOMAIN payload
    BY <1>1, <2>4, OccurrencesOf DEF WellTyped
  <2>6. \A l \in DOMAIN payload : Held(selections, l)
    BY <1>1, <2>5 DEF Consistent, Covered
  <2>7. \A l \in DOMAIN payload : /\ payload'[l].label = target /\ ~payload'[l].instance
                                  /\ payload'[l].family # Spoiled /\ payload'[l].id # NoObject
    BY <2>2, <2>6 DEF ValueType
  <2>8. Sound(payload)'
    BY <2>3, <2>7, SoundNext DEF Sound
  <2>9. QED
    BY <2>1, <2>3, <2>7, <2>8 DEF Kept, Settled
<1>4. QED
  BY <1>2, <1>3

\* What is kept holds when a callback returns.
LEMMA KeptReturn ==
  ASSUME Typing, Kept, Return
  PROVE  Kept'
<1>1. /\ phase = "callback" /\ Given(selections, payload, Ahead) /\ Sound(payload)
  BY DEF Return, Kept
<1>2. /\ stage' = "called" /\ phase' = "reconcile"
      /\ before' = selections /\ todo' = Groups(selections) /\ replaced' = {}
      /\ UNCHANGED <<target, at, payload, selections>>
  BY DEF Return, Reconcile
<1>3. Sound(payload)'
  BY <1>1, <1>2, SoundNext
<1>4. Given(before, payload, Ahead)'
  <2>1. Ahead' = Ahead
    BY <1>2 DEF Ahead
  <2>2. Given(before', payload', Ahead)
    BY <1>1, <1>2
  <2>3. QED
    BY <2>1, <2>2 DEF Given, Distinct, Belonging, Held, Subtree, Arm, ToSet, SiteOf, Object
<1>5. \A i \in DOMAIN before' : ~Done(i)'
  BY <1>2 DEF Done, Groups, GroupOf
<1>6. Progress'
  BY <1>2, <1>5 DEF Progress
<1>7. QED
  BY <1>2, <1>3, <1>4, <1>6 DEF Kept, Settled

\* What a callback may do keeps what is known of the values it was given.
LEMMA EditedGiven ==
  ASSUME Typing, Sound(payload), Given(selections, payload, Ahead), NEW p, Edited(p)
  PROVE  Sound(p) /\ Given(selections, p, Ahead)
<1>1. Understood(p) /\ Values(p) \subseteq Values(payload) \cup NewValues
  BY DEF Edited, Edit
<1>2. edits \in Nat
  BY BoundsAssumption DEF BoundsAssumption, Typing
<1>3. ASSUME NEW v \in NewValues
      PROVE  /\ v.id.nth # 0 /\ v.id # NoObject /\ v.family # Spoiled
             /\ v.instance => v.label = Size
             /\ ~v.instance => v.label = Ahead
  <2>1. v.id.nth \in 1 .. edits + 1
    BY DEF NewValues
  <2>2. v.id.nth # 0
    BY <1>2, <2>1
  <2>3. NoObject.nth = 0
    BY DEF NoObject, Object
  <2>4. v.instance => v.label = Size /\ v.family # Spoiled
    BY DEF NewValues
  <2>5. ASSUME ~v.instance
        PROVE  v.label = Ahead /\ v.family # Spoiled
    <3>1. CASE v.label = Ahead /\ v.family # Spoiled
      BY <3>1
    <3>2. CASE \E w \in Values(payload) : ~w.instance /\ v.family = w.family /\ v.label = w.label
      <4>1. PICK l \in DOMAIN payload :
              ~payload[l].instance /\ v.family = payload[l].family /\ v.label = payload[l].label
        BY <3>2 DEF Values
      <4>2. QED
        BY <4>1 DEF Sound, Given
    <3>3. QED
      BY <2>5, <3>1, <3>2 DEF NewValues
  <2>6. QED
    BY <2>2, <2>3, <2>4, <2>5
<1>4. ASSUME NEW l \in DOMAIN p
      PROVE  p[l] \in NewValues \/ \E m \in DOMAIN payload : p[l] = payload[m]
  BY <1>1 DEF Values
<1>5. ASSUME NEW l \in DOMAIN p
      PROVE  /\ p[l].family # Spoiled /\ p[l].id # NoObject
             /\ p[l].instance => p[l].label = Size
             /\ ~p[l].instance => p[l].label = Ahead
             /\ \A i \in DOMAIN selections :
                  p[l].id = selections[i].id =>
                    p[l].family = selections[i].family /\ p[l].label = selections[i].label
             /\ ~p[l].instance => p[l].id.nth # 0 \/ \E i \in DOMAIN selections : selections[i].id = p[l].id
  <2>1. CASE p[l] \in NewValues
    <3>1. p[l].id.nth # 0
      BY <1>3, <2>1
    <3>2. \A i \in DOMAIN selections : selections[i].id.nth = 0
      <4>1. \A l1 : Object(l1, 0).nth = 0
        BY DEF Object
      <4>2. QED
        BY <4>1 DEF Given
    <3>3. QED
      BY <1>3, <2>1, <3>1, <3>2
  <2>2. CASE \E m \in DOMAIN payload : p[l] = payload[m]
    <3>1. PICK m \in DOMAIN payload : p[l] = payload[m]
      BY <2>2
    <3>2. /\ payload[m].family # Spoiled /\ payload[m].id # NoObject
          /\ payload[m].instance => payload[m].label = Size
      BY DEF Sound
    <3>3. /\ ~payload[m].instance => payload[m].label = Ahead
          /\ \A i \in DOMAIN selections :
               payload[m].id = selections[i].id =>
                 payload[m].family = selections[i].family /\ payload[m].label = selections[i].label
          /\ ~payload[m].instance =>
               payload[m].id.nth # 0 \/ \E i \in DOMAIN selections : selections[i].id = payload[m].id
      BY DEF Given
    <3>4. QED
      BY <3>1, <3>2, <3>3
  <2>3. QED
    BY <1>4, <2>1, <2>2
<1>6. ASSUME NEW l \in DOMAIN p, ~p[l].instance, p[l].id.nth # 0
      PROVE  /\ p[l].family \in Arm(SiteOf(l))
             /\ Kind[SiteOf(l)] = "mapping" =>
                  \A i \in DOMAIN selections : selections[i].location = l => p[l].family = selections[i].family
  BY <1>1, <1>6 DEF Understood, SelectedAt
<1>7. \A l \in DOMAIN p : p[l].instance /\ p[l].family \notin Arm(SiteOf(l)) =>
        \A m \in Subtree(p, l) : p[m].instance
  BY <1>1 DEF Understood
<1>8. /\ Distinct(selections) /\ Belonging(selections)
      /\ \A i \in DOMAIN selections :
           selections[i].id = Object(selections[i].location, 0) /\ selections[i].label = Ahead
  BY DEF Given
<1>9. Sound(p)
  BY <1>5 DEF Sound
<1>10. Given(selections, p, Ahead)
  BY <1>5, <1>6, <1>7, <1>8 DEF Given
<1>11. QED
  BY <1>9, <1>10

\* What is kept holds in the steps of a callback.
LEMMA KeptCallback ==
  ASSUME Typing, Kept, CallbackStep
  PROVE  Kept'
<1>1. ASSUME NEW p, Edited(p)
      PROVE  Kept'
  <2>1. /\ phase = "callback" /\ payload' = p /\ edits' = edits + 1
        /\ UNCHANGED <<target, at, phase, stage, selections, before, todo, replaced>>
    BY <1>1 DEF Edited, Edit
  <2>2. Sound(payload) /\ Given(selections, payload, Ahead) /\ before = <<>>
    BY <2>1 DEF Kept
  <2>3. Sound(p) /\ Given(selections, p, Ahead)
    BY <1>1, <2>2, EditedGiven
  <2>4. edits' # 0
    BY <2>1, BoundsAssumption DEF BoundsAssumption, Typing
  <2>5. Given(selections, payload, Ahead)'
    <3>1. Ahead = Ahead'
      BY <2>1 DEF Ahead
    <3>2. Given(selections', payload', Ahead)
      BY <2>1, <2>3
    <3>3. QED
      BY <3>1, <3>2, GivenNext
  <2>6. Sound(payload)'
    BY <2>1, <2>3, SoundNext
  <2>7. QED
    BY <2>1, <2>2, <2>4, <2>5, <2>6 DEF Kept, Settled
<1>2. QED
  BY <1>1, CallbackMeans, KeptReturn

-----------------------------------------------------------------------------
(* One group after the other. *)

\* The selections that are reconciled, as places.
LEMMA PlacesBefore ==
  ASSUME before \in Seq(SelectionType), Belonging(before), NEW i \in DOMAIN before
  PROVE  /\ before[i] \in SelectionType
         /\ before[i].location \in Seq(Slots) \ {<<>>}
         /\ Len(before[i].location) \in Nat \ {0}
         /\ Front(before[i].location) \in Seq(Slots)
         /\ Len(Front(before[i].location)) = Len(before[i].location) - 1
         /\ Front(before[i].location) # <<>> =>
              \E j \in DOMAIN before : before[j].location = Front(before[i].location)
         /\ GroupOf(before[i]) \in Groups(before)
         /\ GroupOf(before[i]).owner = Front(before[i].location)
         /\ GroupOf(before[i]).site = SiteOf(before[i].location)
         /\ SiteOf(before[i].location) \in Sites
<1> DEFINE l == before[i].location
<1>1. before[i] \in SelectionType
  BY LenProperties, ElementOfSeq
<1>2. l \in Seq(Slots) /\ l # <<>>
  BY <1>1, LocationsAre DEF SelectionType, Belonging
<1> HIDE DEF l
<1>3. /\ Len(l) \in Nat \ {0} /\ Front(l) \in Seq(Slots) /\ Len(Front(l)) = Len(l) - 1
      /\ Last(l) \in Slots
  BY <1>2, FrontAndLast
<1>4. SiteOf(l) \in Sites
  BY <1>3, SlotNumbers DEF SiteOf
<1>5. ASSUME Front(l) # <<>>
      PROVE  \E j \in DOMAIN before : before[j].location = Front(l)
  <2>1. Len(Front(l)) # 0
    BY <1>3, <1>5, EmptySeq
  <2>2. Len(l) \in 1 .. Len(l) /\ Len(l) - 1 \in 1 .. Len(l) /\ Len(l) > 1
    BY <1>3, <2>1
  <2> DEFINE m == SubSeq(l, 1, Len(l))
  <2>3. Begins(m, l, Len(l))
    BY <1>2, <2>2, BeginningOfPlace
  <2> HIDE DEF m
  <2>4. Front(l) = SubSeq(l, 1, Len(l) - 1)
    BY <2>2, <2>3 DEF Begins
  <2>5. Held(before, SubSeq(l, 1, Len(l) - 1))
    BY <2>2 DEF Belonging, l
  <2>6. QED
    BY <2>4, <2>5 DEF Held
<1>6. GroupOf(before[i]) \in Groups(before)
  BY DEF Groups
<1>7. GroupOf(before[i]).owner = Front(before[i].location)
      /\ GroupOf(before[i]).site = SiteOf(before[i].location)
  BY DEF GroupOf
<1>8. QED
  BY <1>1, <1>2, <1>3, <1>4, <1>5, <1>6, <1>7 DEF l

\* The next group is one of the outermost that are left.
LEMMA NextGroupIs ==
  ASSUME before \in Seq(SelectionType), Belonging(before), todo \subseteq Groups(before), todo # {}
  PROVE  /\ NextGroup \in todo
         /\ \A h \in todo : Len(NextGroup.owner) <= Len(h.owner)
<1> DEFINE first == {g \in todo : \A h \in todo : Len(g.owner) <= Len(h.owner)}
           Members(g) == {i \in DOMAIN before : GroupOf(before[i]) = g}
           Earliest(g) == Least(Members(g))
           lengths == {Len(g.owner) : g \in todo}
           starts == {Earliest(g) : g \in first}
<1>1. ASSUME NEW g \in todo
      PROVE  Len(g.owner) \in Nat /\ Earliest(g) \in Nat
  <2>1. PICK i \in DOMAIN before : g = GroupOf(before[i])
    BY DEF Groups
  <2>2. Len(g.owner) \in Nat
    <3>1. g.owner \in Seq(Slots)
      BY <2>1, PlacesBefore
    <3>2. QED
      BY <3>1, LenProperties
  <2>3. Members(g) # {} /\ Members(g) \subseteq Nat
    BY <2>1, LenProperties
  <2> HIDE DEF Members
  <2>4. QED
    BY <2>2, <2>3, LeastOf
<1>2. lengths \subseteq Nat /\ lengths # {}
  BY <1>1
<1>3. PICK x \in lengths : \A y \in lengths : x <= y
  <2> HIDE DEF lengths
  <2>1. QED
    BY <1>2, NatMin
<1>4. PICK g \in todo : x = Len(g.owner)
  BY <1>3
<1>5. g \in first
  BY <1>3, <1>4
<1>6. starts \subseteq Nat /\ starts # {}
  <2>1. first \subseteq todo
    OBVIOUS
  <2> HIDE DEF first, Earliest
  <2>2. \A h \in first : Earliest(h) \in Nat
    BY <1>1, <2>1
  <2>3. QED
    BY <1>5, <2>2
<1>7. PICK y \in starts : \A z \in starts : y <= z
  <2> HIDE DEF starts
  <2>1. QED
    BY <1>6, NatMin
<1>8. \E h \in first : \A k \in first : Earliest(h) <= Earliest(k)
  BY <1>7
<1>9. NextGroup = CHOOSE h \in first : \A k \in first : Earliest(h) <= Earliest(k)
  BY DEF NextGroup
<1>10. NextGroup \in first
  <2> HIDE DEF first, Earliest
  <2>1. QED
    BY <1>8, <1>9
<1>11. QED
  BY <1>10

\* The owner of group g is found where it is the same object as before.
OwnerIdentified(g) ==
  \/ g.owner = <<>> /\ OwnerNow(g) = <<>>
  \/ \E j \in DOMAIN before :
       /\ before[j].location = g.owner
       /\ OwnerNow(g) \in DOMAIN payload /\ payload[OwnerNow(g)].id = before[j].id

\* The selections that are reconciled are known by where they were.
KnownBefore ==
  /\ before \in Seq(SelectionType) /\ Belonging(before) /\ Distinct(before)
  /\ \A i \in DOMAIN before : before[i].id = Object(before[i].location, 0)

\* They are different objects.
LEMMA KnownApart ==
  ASSUME KnownBefore
  PROVE  /\ \A i \in DOMAIN before : /\ before[i].id # NoObject
                                     /\ before[i].id.place = before[i].location /\ before[i].id.nth = 0
         /\ \A i, j \in DOMAIN before : before[i].id = before[j].id => i = j
<1>1. \A l : Object(l, 0).place = l /\ Object(l, 0).nth = 0 /\ NoObject.place = <<>>
  BY DEF Object, NoObject
<1>2. \A i \in DOMAIN before : before[i].location # <<>>
  BY DEF KnownBefore, Belonging
<1>3. \A i \in DOMAIN before : before[i].id # NoObject /\ before[i].id.place = before[i].location /\ before[i].id.nth = 0
  BY <1>1, <1>2 DEF KnownBefore
<1>4. \A i, j \in DOMAIN before : before[i].id = before[j].id => i = j
  <2>1. \A i, j \in DOMAIN before : before[i].id = before[j].id => before[i].location = before[j].location
    BY <1>3
  <2>2. QED
    BY <2>1 DEF KnownBefore, Distinct
<1>5. QED
  BY <1>3, <1>4

\* A group is an owner and a site.
LEMMA GroupIs ==
  ASSUME NEW g \in Groups(before), NEW x
  PROVE  GroupOf(x) = g <=> Front(x.location) = g.owner /\ SiteOf(x.location) = g.site
<1>1. PICK i \in DOMAIN before : g = GroupOf(before[i])
  BY DEF Groups
<1>2. QED
  BY <1>1 DEF GroupOf

\* Where values were only reordered, those of a group are all found.
LEMMA ReorderedGroup ==
  ASSUME WellTyped(payload), KnownBefore, OnlyReordered, NEW g \in Groups(before), OwnerIdentified(g)
  PROVE  ~Refused(g) /\ Available(g) = {} /\ Unclaimed(g) = {}
<1>1. /\ \A i \in DOMAIN before : /\ before[i].id # NoObject
                                  /\ before[i].id.place = before[i].location /\ before[i].id.nth = 0
      /\ \A i, j \in DOMAIN before : before[i].id = before[j].id => i = j
  BY KnownApart
<1>2. Tree(payload)
  BY DEF WellTyped
<1>3. /\ \A l \in DOMAIN payload : \E i \in DOMAIN before : payload[l].id = before[i].id
      /\ \A i \in DOMAIN before : \E l \in DOMAIN payload : payload[l].id = before[i].id
  <2>1. {payload[l].id : l \in DOMAIN payload} = {before[i].id : i \in DOMAIN before}
    BY DEF OnlyReordered
  <2>2. \A l \in DOMAIN payload : payload[l].id \in {payload[m].id : m \in DOMAIN payload}
    OBVIOUS
  <2>3. \A i \in DOMAIN before : before[i].id \in {before[j].id : j \in DOMAIN before}
    OBVIOUS
  <2>4. QED
    BY <2>1, <2>2, <2>3
<1>4. ASSUME NEW l \in DOMAIN payload
      PROVE  /\ SiteOf(payload[l].id.place) = SiteOf(l)
             /\ Front(payload[l].id.place) = IF Front(l) = <<>> THEN <<>> ELSE payload[Front(l)].id.place
             /\ \A m \in DOMAIN payload : payload[l].id = payload[m].id => l = m
             /\ Front(l) # <<>> => Front(l) \in DOMAIN payload
             /\ l # <<>>
  <2>1. l \in Seq(Slots) /\ l # <<>>
    BY <1>2 DEF Tree
  <2>2. Front(l) # <<>> => Len(l) > 1
    <3>1. Len(l) \in Nat \ {0} /\ Len(Front(l)) = Len(l) - 1 /\ Front(l) \in Seq(Slots)
      BY <2>1, FrontAndLast
    <3>2. Front(l) # <<>> => Len(Front(l)) # 0
      BY <3>1, EmptySeq
    <3>3. QED
      BY <3>1, <3>2
  <2>3. QED
    BY <1>2, <2>1, <2>2 DEF OnlyReordered, Tree
<1>5. ASSUME NEW i \in DOMAIN before
      PROVE  /\ i \in Previous(g) <=> Front(before[i].location) = g.owner /\ SiteOf(before[i].location) = g.site
             /\ before[i].location # <<>>
  BY GroupIs DEF Previous, KnownBefore, Belonging
<1>6. ASSUME NEW l \in DOMAIN payload
      PROVE  l \in Candidates(g) <=> Front(l) = OwnerNow(g) /\ SiteOf(l) = g.site
  BY DEF Candidates
<1>7. ASSUME NEW l \in Candidates(g)
      PROVE  \E i \in Previous(g) : Identified(i, l)
  <2>1. l \in DOMAIN payload /\ Front(l) = OwnerNow(g) /\ SiteOf(l) = g.site
    BY DEF Candidates
  <2>2. PICK i \in DOMAIN before : payload[l].id = before[i].id
    BY <1>3, <2>1
  <2>3. payload[l].id.place = before[i].location
    BY <1>1, <2>2
  <2>4. SiteOf(before[i].location) = g.site
    BY <1>4, <2>1, <2>3
  <2>5. Front(before[i].location) = g.owner
    <3>1. CASE g.owner = <<>> /\ OwnerNow(g) = <<>>
      BY <1>4, <2>1, <2>3, <3>1
    <3>2. CASE \E j \in DOMAIN before :
                 /\ before[j].location = g.owner
                 /\ OwnerNow(g) \in DOMAIN payload /\ payload[OwnerNow(g)].id = before[j].id
      <4>1. PICK j \in DOMAIN before : /\ before[j].location = g.owner
                                       /\ OwnerNow(g) \in DOMAIN payload /\ payload[OwnerNow(g)].id = before[j].id
        BY <3>2
      <4>2. Front(l) # <<>> /\ payload[Front(l)].id.place = g.owner
        BY <1>1, <1>4, <2>1, <4>1
      <4>3. QED
        BY <1>4, <2>1, <2>3, <4>2
    <3>3. QED
      BY <3>1, <3>2 DEF OwnerIdentified
  <2>6. QED
    BY <1>1, <1>5, <2>2, <2>4, <2>5 DEF Identified
<1>8. ASSUME NEW i \in Previous(g)
      PROVE  \E l \in Candidates(g) : Identified(i, l)
  <2>1. i \in DOMAIN before /\ Front(before[i].location) = g.owner /\ SiteOf(before[i].location) = g.site
    BY <1>5 DEF Previous
  <2>2. PICK l \in DOMAIN payload : payload[l].id = before[i].id
    BY <1>3, <2>1
  <2>3. payload[l].id.place = before[i].location
    BY <1>1, <2>1, <2>2
  <2>4. SiteOf(l) = g.site
    BY <1>4, <2>1, <2>3
  <2>5. Front(l) = OwnerNow(g)
    <3>1. CASE Front(l) = <<>>
      <4>1. g.owner = <<>>
        BY <1>4, <2>1, <2>3, <3>1
      <4>2. QED
        BY <1>5, <3>1, <4>1 DEF OwnerIdentified
    <3>2. CASE Front(l) # <<>>
      <4>1. Front(l) \in DOMAIN payload /\ g.owner = payload[Front(l)].id.place
        BY <1>4, <2>1, <2>3, <3>2
      <4>2. PICK k \in DOMAIN before : payload[Front(l)].id = before[k].id
        BY <1>3, <4>1
      <4>3. g.owner = before[k].location /\ g.owner # <<>>
        BY <1>1, <1>5, <4>1, <4>2
      <4>4. PICK j \in DOMAIN before : /\ before[j].location = g.owner
                                       /\ OwnerNow(g) \in DOMAIN payload /\ payload[OwnerNow(g)].id = before[j].id
        BY <4>3 DEF OwnerIdentified
      <4>5. j = k
        BY <4>3, <4>4 DEF KnownBefore, Distinct
      <4>6. QED
        BY <1>4, <4>1, <4>2, <4>4, <4>5
    <3>3. QED
      BY <3>1, <3>2
  <2>6. QED
    BY <1>1, <1>6, <2>1, <2>2, <2>4, <2>5 DEF Identified
<1>9. Available(g) = {}
  <2>1. SUFFICES ASSUME NEW i \in Available(g)
                 PROVE  FALSE
    OBVIOUS
  <2>2. i \in Previous(g) /\ \A c \in Claims(g) : c[1] # i
    BY DEF Available
  <2>3. PICK l \in Candidates(g) : Identified(i, l)
    BY <1>8, <2>2
  <2>4. <<i, l>> \in Claims(g)
    BY <2>2, <2>3 DEF Claims
  <2>5. QED
    BY <2>2, <2>4
<1>10. Unclaimed(g) = {}
  <2>1. SUFFICES ASSUME NEW l \in Unclaimed(g)
                 PROVE  FALSE
    OBVIOUS
  <2>2. l \in Candidates(g) /\ \A c \in Claims(g) : c[2] # l
    BY DEF Unclaimed
  <2>3. PICK i \in Previous(g) : Identified(i, l)
    BY <1>7, <2>2
  <2>4. <<i, l>> \in Claims(g)
    BY <2>2, <2>3 DEF Claims
  <2>5. QED
    BY <2>2, <2>4
<1>11. RemainingPrevious(g) = {} /\ RemainingCandidates(g) = {}
  BY <1>9, <1>10 DEF RemainingPrevious, RemainingCandidates
<1>12. ToSet(Instances(g)) = {}
  <2>1. ToSet(Instances(g)) \subseteq Untaken(g)
    BY <1>2, GroupMatches DEF KnownBefore
  <2>2. QED
    BY <1>10, <2>1 DEF Untaken
<1>13. ~Moved(g)
  <2>1. SUFFICES ASSUME NEW l \in Candidates(g), NEW i \in DOMAIN before, Identified(i, l)
                 PROVE  GroupOf(before[i]) = g
    BY DEF Moved
  <2>2. PICK j \in Previous(g) : Identified(j, l)
    BY <1>7
  <2>3. i = j
    BY <1>1, <2>1, <2>2 DEF Identified, Previous
  <2>4. QED
    BY <2>2, <2>3 DEF Previous
<1>14. ~Reused(g)
  BY <1>4 DEF Reused, Identified, Candidates
<1>15. ~TooFew(g)
  <2> DEFINE f == [l \in Candidates(g) |-> CHOOSE i \in Previous(g) : Identified(i, l)]
             I == {f[l] : l \in DOMAIN f}
  <2>1. Previous(g) \subseteq DOMAIN before /\ IsFiniteSet(Previous(g)) /\ IsFiniteSet(Candidates(g))
    BY <1>2, GroupSets DEF KnownBefore
  <2>2. DOMAIN f = Candidates(g) /\ \A l \in Candidates(g) : f[l] \in Previous(g) /\ Identified(f[l], l)
    BY <1>7
  <2>3. Cardinality(I) <= Cardinality(Candidates(g)) /\ IsFiniteSet(I)
    <3> HIDE DEF f
    <3>1. QED
      BY <2>1, <2>2, FiniteImage
  <2> HIDE DEF f
  <2>4. I = Previous(g)
    <3>1. I \subseteq Previous(g)
      BY <2>2
    <3>2. ASSUME NEW i \in Previous(g)
          PROVE  i \in I
      <4>1. PICK l \in Candidates(g) : Identified(i, l)
        BY <1>8
      <4>2. f[l] = i
        BY <1>1, <2>1, <2>2, <4>1 DEF Identified
      <4>3. QED
        BY <2>2, <4>2
    <3>3. QED
      BY <3>1, <3>2
  <2> HIDE DEF I
  <2>5. Cardinality(Previous(g)) \in Nat /\ Cardinality(Candidates(g)) \in Nat
    BY <2>1, FS_CardinalityType
  <2>6. QED
    BY <2>3, <2>4, <2>5 DEF TooFew
<1>16. OwnerNow(g) \in DOMAIN payload \cup {<<>>}
  BY DEF OwnerIdentified
<1>17. ~NoUniqueFamily(g) /\ ~ExtraUntyped(g) /\ ~Ambiguous(g)
  BY <1>11, <1>12 DEF NoUniqueFamily, ExtraUntyped, Ambiguous
<1>18. QED
  BY <1>9, <1>10, <1>13, <1>14, <1>15, <1>16, <1>17 DEF Refused

\* The selections of a group are given up with their owner, refused, or found.
LEMMA ReconcileGroupMeans ==
  ASSUME ReconcileGroup, NEW g, g = NextGroup
  PROVE  /\ phase = "reconcile" /\ todo # {}
         /\ \/ /\ \E i \in Previous(g) : HasReplacedAncestor(i)
               /\ todo' = todo \ {g}
               /\ UNCHANGED <<target, at, phase, stage, payload, selections, before, replaced>>
            \/ Refused(g) /\ Refuse
            \/ /\ ~(\E i \in Previous(g) : HasReplacedAncestor(i)) /\ ~Refused(g)
               /\ todo' = todo \ {g} /\ selections' = Reconciled(g)
               /\ replaced' = replaced \cup {c[1] : c \in Replacements(g)}
               /\ UNCHANGED <<target, at, phase, stage, payload, before>>
BY DEF ReconcileGroup

\* After a conversion, the occurrences of a group are where they were.
LEMMA ConvertingGroup ==
  ASSUME Typing, Converting, NEW g \in Groups(before)
  PROVE  /\ KnownBefore /\ OwnerIdentified(g)
         /\ Available(g) = {} /\ Replacements(g) = {} /\ Rebound(g) = {}
         /\ \A c \in Claims(g) : c[1] \in DOMAIN before /\ before[c[1]].location = c[2]
<1>1. /\ Tree(payload) /\ before \in Seq(SelectionType) /\ selections = before
      /\ \A l \in DOMAIN payload : payload[l].id = Object(l, 0)
      /\ Belonging(before) /\ Distinct(before)
      /\ \A i \in DOMAIN before : BoundTo(before[i], payload)
  BY DEF Typing, WellTyped, Converting, Consistent
<1>2. ASSUME NEW i \in DOMAIN before
      PROVE  /\ before[i].location \in DOMAIN payload
             /\ before[i].id = Object(before[i].location, 0)
             /\ payload[before[i].location].id = before[i].id
  BY <1>1 DEF BoundTo
<1>3. KnownBefore
  BY <1>1, <1>2 DEF KnownBefore
<1>4. /\ \A i \in DOMAIN before : before[i].id # NoObject /\ before[i].id.place = before[i].location
      /\ \A i, j \in DOMAIN before : before[i].id = before[j].id => i = j
  BY <1>3, KnownApart
<1>5. PICK k \in DOMAIN before : g = GroupOf(before[k])
  BY DEF Groups
<1>6. /\ g.owner = Front(before[k].location) /\ g.site = SiteOf(before[k].location)
      /\ g.owner # <<>> => \E j \in DOMAIN before : before[j].location = g.owner
  BY <1>1, <1>5, PlacesBefore
<1>7. OwnerNow(g) = g.owner
  <2>1. CASE g.owner = <<>>
    BY <2>1 DEF OwnerNow
  <2>2. CASE g.owner # <<>>
    <3> DEFINE j == CHOOSE x \in DOMAIN before : before[x].location = g.owner
    <3>1. j \in DOMAIN before /\ before[j].location = g.owner
      BY <1>6, <2>2
    <3>2. OwnerNow(g) = selections[j].location
      BY <2>2 DEF OwnerNow
    <3> HIDE DEF j
    <3>3. QED
      BY <1>1, <3>1, <3>2
  <2>3. QED
    BY <2>1, <2>2
<1>8. OwnerIdentified(g)
  BY <1>2, <1>6, <1>7 DEF OwnerIdentified
<1>9. ASSUME NEW i \in Previous(g)
      PROVE  \E c \in Claims(g) : c[1] = i
  <2> DEFINE l == before[i].location
  <2>1. i \in DOMAIN before /\ Front(l) = g.owner /\ SiteOf(l) = g.site
    BY GroupIs DEF Previous
  <2>2. l \in DOMAIN payload /\ payload[l].id = before[i].id /\ before[i].id # NoObject
    BY <1>2, <1>4, <2>1
  <2> HIDE DEF l
  <2>3. l \in Candidates(g)
    BY <1>7, <2>1, <2>2 DEF Candidates
  <2>4. <<i, l>> \in Claims(g)
    BY <2>2, <2>3 DEF Claims, Identified
  <2>5. QED
    BY <2>4
<1>10. Available(g) = {}
  BY <1>9 DEF Available
<1>11. Replacements(g) = {} /\ RemainingPrevious(g) = {}
  <2>1. Replacements(g) \subseteq Available(g) \X Untaken(g)
    BY <1>1, GroupMatches
  <2>2. Replacements(g) = {}
    BY <1>10, <2>1
  <2>3. QED
    BY <1>10, <2>2 DEF RemainingPrevious
<1>12. Rebound(g) = {}
  <2>1. Cardinality({}) = 0
    BY FS_EmptySet
  <2>2. 1 .. Cardinality(RemainingPrevious(g)) = {}
    BY <1>11, <2>1
  <2>3. QED
    BY <1>11, <2>2 DEF Rebound
<1>13. ASSUME NEW c \in Claims(g)
       PROVE  c[1] \in DOMAIN before /\ before[c[1]].location = c[2]
  <2>1. c[1] \in DOMAIN before /\ c[2] \in DOMAIN payload /\ payload[c[2]].id = before[c[1]].id
    BY DEF Claims, Previous, Candidates, Identified
  <2>2. payload[c[2]].id.place = before[c[1]].location
    BY <1>4, <2>1
  <2>3. payload[c[2]].id = Object(c[2], 0)
    BY <1>1, <2>1
  <2>4. payload[c[2]].id.place = c[2]
    BY <2>3 DEF Object
  <2>5. QED
    BY <2>1, <2>2, <2>4
<1>14. QED
  BY <1>3, <1>8, <1>10, <1>11, <1>12, <1>13

\* So nothing changes.
LEMMA ConvertingReconciled ==
  ASSUME Typing, Converting, NEW g \in Groups(before), ~Refused(g)
  PROVE  Reconciled(g) = selections
<1>1. /\ KnownBefore
      /\ Available(g) = {} /\ Replacements(g) = {} /\ Rebound(g) = {}
      /\ \A c \in Claims(g) : c[1] \in DOMAIN before /\ before[c[1]].location = c[2]
  BY ConvertingGroup
<1>2. /\ WellTyped(payload) /\ Tree(payload) /\ before \in Seq(SelectionType) /\ selections = before
      /\ selections \in Seq(SelectionType)
      /\ \A i \in DOMAIN before : BoundTo(before[i], payload)
  BY DEF Typing, WellTyped, Converting, Consistent
<1>3. /\ Reconciled(g) \in Seq(SelectionType) /\ Len(Reconciled(g)) = Len(selections)
  BY <1>2, ReconciledTyped
<1>4. ASSUME NEW i \in 1 .. Len(selections)
      PROVE  Reconciled(g)[i] = selections[i]
  <2> DEFINE l(c) == c[2]
             k == CHOOSE c \in Claims(g) : c[1] = i
  <2>1. i \in DOMAIN selections /\ selections[i] \in SelectionType
    BY <1>2, LenProperties, ElementOfSeq
  <2>2. Reconciled(g)[i] =
          IF \E c \in Claims(g) : c[1] = i
          THEN [selections[i] EXCEPT !.location = k[2], !.id = payload[k[2]].id]
          ELSE selections[i]
    BY <1>1, <2>1 DEF Reconciled
  <2>3. CASE \E c \in Claims(g) : c[1] = i
    <3>1. k \in Claims(g) /\ k[1] = i
      BY <2>3
    <3> HIDE DEF k
    <3>2. k[2] = selections[i].location /\ payload[k[2]].id = selections[i].id
      BY <1>1, <1>2, <2>1, <3>1 DEF BoundTo
    <3>3. [selections[i] EXCEPT !.location = selections[i].location, !.id = selections[i].id] = selections[i]
      BY <2>1 DEF SelectionType
    <3>4. QED
      BY <2>2, <2>3, <3>2, <3>3
  <2>4. CASE ~(\E c \in Claims(g) : c[1] = i)
    BY <2>2, <2>4
  <2>5. QED
    BY <2>3, <2>4
<1>5. QED
  BY <1>2, <1>3, <1>4, SeqEqual

\* What is kept holds when a group is reconciled after a conversion.
LEMMA KeptConvertingGroup ==
  ASSUME Typing, Kept, ReconcileGroup, stage # "called"
  PROVE  Kept'
<1> DEFINE g == NextGroup
<1>1. /\ phase = "reconcile" /\ todo # {}
      /\ \/ /\ \E i \in Previous(g) : HasReplacedAncestor(i)
            /\ todo' = todo \ {g}
            /\ UNCHANGED <<target, at, phase, stage, payload, selections, before, replaced>>
         \/ Refused(g) /\ Refuse
         \/ /\ ~(\E i \in Previous(g) : HasReplacedAncestor(i)) /\ ~Refused(g)
            /\ todo' = todo \ {g} /\ selections' = Reconciled(g)
            /\ replaced' = replaced \cup {c[1] : c \in Replacements(g)}
            /\ UNCHANGED <<target, at, phase, stage, payload, before>>
  BY ReconcileGroupMeans
<1>2. Converting /\ Sound(payload)
  BY <1>1 DEF Kept
<1>3. g \in todo
  BY <1>1, <1>2, NextGroupIs DEF Typing, Converting, Consistent
<1>4. g \in Groups(before)
  BY <1>3 DEF Typing
<1> HIDE DEF g
<1>5. \A i : ~HasReplacedAncestor(i)
  BY <1>2 DEF HasReplacedAncestor, Converting
<1>6. CASE Refused(g) /\ Refuse
  <2>1. KnownBefore /\ OwnerIdentified(g)
    BY <1>2, <1>4, ConvertingGroup
  <2>2. ~OnlyReordered
    BY <1>4, <1>6, <2>1, ReorderedGroup DEF Typing
  <2>3. QED
    BY <1>6, <2>2, KeptRefuse
<1>7. CASE /\ ~Refused(g) /\ selections' = Reconciled(g)
           /\ replaced' = replaced \cup {c[1] : c \in Replacements(g)}
           /\ UNCHANGED <<target, at, phase, stage, payload, before>>
  <2>1. selections' = selections
    BY <1>2, <1>4, <1>7, ConvertingReconciled
  <2>2. replaced' = {}
    <3>1. Replacements(g) = {} /\ replaced = {}
      BY <1>2, <1>4, ConvertingGroup DEF Converting
    <3>2. QED
      BY <1>7, <3>1
  <2>3. Consistent(before, payload)'
    <3>1. Consistent(before', payload')
      BY <1>2, <1>7 DEF Converting
    <3>2. QED
      BY <3>1 DEF Consistent, BoundTo, Distinct, Belonging, Covered, Held, Occurrences, Arm, ToSet, SiteOf
  <2>4. Goal' = Goal
    BY <1>7 DEF Goal, Ahead
  <2>5. Converting'
    BY <1>2, <1>7, <2>1, <2>2, <2>3, <2>4 DEF Converting, Object
  <2>6. Sound(payload)'
    BY <1>2, <1>7, SoundNext
  <2>7. QED
    BY <1>1, <1>7, <2>5, <2>6 DEF Kept, Settled
<1>8. QED
  BY <1>1, <1>5, <1>6, <1>7

\* The owner of group g was found, or is the root.
OwnerFound(g) ==
  \/ g.owner = <<>> /\ OwnerNow(g) = <<>>
  \/ \E j \in DOMAIN before :
       /\ Done(j) /\ Live(j) /\ before[j].location = g.owner
       /\ selections[j].location = OwnerNow(g) /\ OwnerNow(g) # <<>>

\* What is found was not before the empty place.
LEMMA PlacedSomewhere ==
  ASSUME Typing, NEW i, Placed(i)
  PROVE  selections[i].location \in DOMAIN payload /\ selections[i].location # <<>>
BY DEF Typing, WellTyped, Tree, Placed, BoundTo

\* The next group: none of its selections is reconciled, and its owner is.
LEMMA NextGroupOwner ==
  ASSUME Typing, Given(before, payload, Ahead), Progress, todo # {}, NEW g, g = NextGroup
  PROVE  /\ KnownBefore /\ g \in todo /\ g \in Groups(before)
         /\ \A i \in Previous(g) : i \in DOMAIN before /\ ~Done(i) /\ selections[i] = before[i]
         /\ \A i \in Previous(g) : /\ Front(before[i].location) = g.owner
                                   /\ SiteOf(before[i].location) = g.site
                                   /\ \A j \in DOMAIN before : ~Done(j) =>
                                        Len(before[i].location) <= Len(before[j].location)
         /\ \A j \in DOMAIN before : before[j].location = g.owner => Done(j)
         /\ g.owner # <<>> => \E j \in DOMAIN before : before[j].location = g.owner
<1>1. before \in Seq(SelectionType) /\ Belonging(before) /\ Distinct(before)
  BY DEF Typing, Given
<1>2. KnownBefore
  BY <1>1 DEF KnownBefore, Given
<1>3. g \in todo /\ \A h \in todo : Len(g.owner) <= Len(h.owner)
  BY <1>1, NextGroupIs DEF Typing
<1>4. g \in Groups(before)
  BY <1>3 DEF Typing
<1>5. ASSUME NEW i \in Previous(g)
      PROVE  /\ i \in DOMAIN before /\ ~Done(i) /\ selections[i] = before[i]
             /\ Front(before[i].location) = g.owner /\ SiteOf(before[i].location) = g.site
  <2>1. i \in DOMAIN before /\ GroupOf(before[i]) = g
    BY DEF Previous
  <2>2. ~Done(i)
    BY <1>3, <2>1 DEF Done
  <2>3. selections[i] = before[i]
    BY <2>1, <2>2 DEF Progress
  <2>4. QED
    BY <1>4, <2>1, <2>2, <2>3, GroupIs
<1>6. ASSUME NEW j \in DOMAIN before, ~Done(j)
      PROVE  Len(g.owner) <= Len(before[j].location) - 1
  <2>1. GroupOf(before[j]) \in todo
    BY <1>6 DEF Done
  <2>2. Len(GroupOf(before[j]).owner) = Len(before[j].location) - 1
    BY <1>1, PlacesBefore
  <2>3. QED
    BY <1>3, <2>1, <2>2
<1>7. ASSUME NEW i \in Previous(g), NEW j \in DOMAIN before, ~Done(j)
      PROVE  Len(before[i].location) <= Len(before[j].location)
  <2>1. i \in DOMAIN before /\ Front(before[i].location) = g.owner
    BY <1>5
  <2>2. /\ Len(before[i].location) \in Nat /\ Len(before[j].location) \in Nat
        /\ Len(Front(before[i].location)) = Len(before[i].location) - 1
    BY <1>1, <2>1, PlacesBefore
  <2>3. QED
    BY <1>6, <1>7, <2>1, <2>2
<1>8. ASSUME NEW j \in DOMAIN before, before[j].location = g.owner
      PROVE  Done(j)
  <2>1. Len(before[j].location) \in Nat
    BY <1>1, PlacesBefore
  <2>2. QED
    BY <1>6, <1>8, <2>1
<1>9. PICK k \in DOMAIN before : g = GroupOf(before[k])
  BY <1>4 DEF Groups
<1>10. g.owner # <<>> => \E j \in DOMAIN before : before[j].location = g.owner
  BY <1>1, <1>9, PlacesBefore
<1>11. QED
  BY <1>2, <1>3, <1>4, <1>5, <1>7, <1>8, <1>10

\* What has a replaced owner, has it in common with its group.
LEMMA GivenUpTogether ==
  ASSUME KnownBefore, replaced \subseteq DOMAIN before,
         NEW i \in DOMAIN before, NEW k \in DOMAIN before,
         Front(before[i].location) = Front(before[k].location), HasReplacedAncestor(i)
  PROVE  HasReplacedAncestor(k)
<1>1. PICK j \in replaced : IsStrictPrefix(before[j].location, before[i].location)
  BY DEF HasReplacedAncestor
<1>2. /\ before[i].location \in Seq(Slots) /\ before[i].location # <<>>
      /\ before[k].location \in Seq(Slots) /\ before[k].location # <<>>
      /\ before[j].location \in Seq(Slots) /\ before[j].location # <<>>
  BY <1>1, PlacesBefore DEF KnownBefore
<1>3. IsPrefix(before[j].location, Front(before[i].location))
  BY <1>1, <1>2, PrefixOfFront
<1>4. IsStrictPrefix(before[j].location, before[k].location)
  BY <1>2, <1>3, PrefixOfFront
<1>5. QED
  BY <1>1, <1>4 DEF HasReplacedAncestor

\* What is not given up, is in an owner that is not, and that is not replaced.
LEMMA LiveOwner ==
  ASSUME KnownBefore, replaced \subseteq DOMAIN before,
         NEW i \in DOMAIN before, NEW j \in DOMAIN before,
         before[j].location = Front(before[i].location), Live(i)
  PROVE  Live(j) /\ j \notin replaced
<1>1. /\ before[i].location \in Seq(Slots) /\ before[i].location # <<>>
      /\ before[j].location \in Seq(Slots) /\ before[j].location # <<>>
  BY PlacesBefore DEF KnownBefore
<1>2. j \notin replaced
  <2>1. IsPrefix(before[j].location, Front(before[i].location))
    BY <1>1, PrefixOfItself
  <2>2. IsStrictPrefix(before[j].location, before[i].location)
    BY <1>1, <2>1, PrefixOfFront
  <2>3. QED
    BY <2>2 DEF Live, HasReplacedAncestor
<1>3. ASSUME NEW k \in replaced, IsStrictPrefix(before[k].location, before[j].location)
      PROVE  FALSE
  <2>1. before[k].location \in Seq(Slots) /\ before[k].location # <<>>
    BY PlacesBefore DEF KnownBefore
  <2>2. IsPrefix(before[k].location, Front(before[i].location))
    BY <1>3 DEF IsStrictPrefix
  <2>3. IsStrictPrefix(before[k].location, before[i].location)
    BY <1>1, <2>1, <2>2, PrefixOfFront
  <2>4. QED
    BY <2>3 DEF Live, HasReplacedAncestor
<1>4. QED
  BY <1>2, <1>3 DEF Live, HasReplacedAncestor

\* The owner of a group that is not given up was found.
LEMMA NextOwnerFound ==
  ASSUME Typing, Given(before, payload, Ahead), Progress, todo # {}, NEW g, g = NextGroup,
         ~(\E i \in Previous(g) : HasReplacedAncestor(i))
  PROVE  OwnerFound(g)
<1>1. /\ KnownBefore /\ g \in Groups(before)
      /\ \A i \in Previous(g) : i \in DOMAIN before /\ Front(before[i].location) = g.owner
      /\ \A j \in DOMAIN before : before[j].location = g.owner => Done(j)
      /\ g.owner # <<>> => \E j \in DOMAIN before : before[j].location = g.owner
  BY NextGroupOwner
<1>2. CASE g.owner = <<>>
  BY <1>2 DEF OwnerNow, OwnerFound
<1>3. CASE g.owner # <<>>
  <2> DEFINE j == CHOOSE x \in DOMAIN before : before[x].location = g.owner
  <2>1. j \in DOMAIN before /\ before[j].location = g.owner
    BY <1>1, <1>3
  <2>2. OwnerNow(g) = selections[j].location
    BY <1>3 DEF OwnerNow
  <2> HIDE DEF j
  <2>3. Done(j)
    BY <1>1, <2>1
  <2>4. PICK i \in DOMAIN before : g = GroupOf(before[i])
    BY <1>1 DEF Groups
  <2>5. i \in Previous(g)
    BY <2>4 DEF Previous
  <2>6. Live(i) /\ Front(before[i].location) = g.owner
    BY <1>1, <2>5 DEF Live
  <2>7. Live(j)
    BY <1>1, <2>1, <2>6, LiveOwner DEF Typing
  <2>8. Placed(j)
    BY <2>1, <2>3, <2>7 DEF Progress
  <2>9. QED
    BY <2>1, <2>2, <2>3, <2>7, <2>8, PlacedSomewhere DEF OwnerFound
<1>4. QED
  BY <1>2, <1>3

\* Where values were only reordered, owners are the same objects.
LEMMA FoundIdentified ==
  ASSUME Typing, Progress, NEW g, OwnerFound(g), OnlyReordered
  PROVE  OwnerIdentified(g)
<1>1. CASE g.owner = <<>> /\ OwnerNow(g) = <<>>
  BY <1>1 DEF OwnerIdentified
<1>2. ASSUME NEW j \in DOMAIN before, Done(j), Live(j), before[j].location = g.owner,
             selections[j].location = OwnerNow(g)
      PROVE  OwnerIdentified(g)
  <2>1. Placed(j) /\ selections[j].id = before[j].id
    BY <1>2 DEF Progress
  <2>2. OwnerNow(g) \in DOMAIN payload /\ payload[OwnerNow(g)].id = before[j].id
    BY <1>2, <2>1 DEF Placed, BoundTo
  <2>3. QED
    BY <1>2, <2>2 DEF OwnerIdentified
<1>3. QED
  BY <1>1, <1>2 DEF OwnerFound

\* What was found stays found.
LEMMA PlacedNext ==
  ASSUME NEW i \in DOMAIN before, Placed(i), payload' = payload, before' = before,
         selections'[i] = selections[i],
         \A j \in DOMAIN before : Done(j) /\ Live(j) =>
           Done(j)' /\ Live(j)' /\ selections'[j] = selections[j]
  PROVE  Placed(i)'
<1>1. BoundTo(selections[i], payload)'
  BY DEF Placed, BoundTo
<1>2. \A j \in DOMAIN before : Identified(j, selections[i].location)' => GroupOf(before[j])' = GroupOf(before[i])'
  BY DEF Placed, Identified, GroupOf, NoObject, Object, SiteOf
<1>3. selections[i].family' \in Arm(SiteOf(selections[i].location))'
  BY DEF Placed, Arm, SiteOf, ToSet
<1>4. SiteOf(selections[i].location)' = SiteOf(before[i].location)'
  BY DEF Placed, SiteOf
<1>5. \/ Front(before[i].location)' = <<>> /\ Front(selections[i].location)' = <<>>
      \/ \E j \in DOMAIN before' :
           /\ Done(j)' /\ Live(j)' /\ before'[j].location = Front(before[i].location)'
           /\ selections'[j].location = Front(selections[i].location)'
  BY DEF Placed
<1>6. QED
  BY <1>1, <1>2, <1>3, <1>4, <1>5 DEF Placed

\* Whether values were only reordered, where neither they nor what was known of them change.
LEMMA ReorderedNext ==
  ASSUME payload' = payload, before' = before
  PROVE  OnlyReordered' <=> OnlyReordered
BY DEF OnlyReordered, Occurrences, Arm, ToSet, SiteOf

\* What is kept holds when a group is given up with its owner.
LEMMA KeptGivenUp ==
  ASSUME Typing, Kept, phase = "reconcile", stage = "called", todo # {}, NEW g, g = NextGroup,
         \E i \in Previous(g) : HasReplacedAncestor(i), todo' = todo \ {g},
         UNCHANGED <<target, at, phase, stage, payload, selections, before, replaced>>
  PROVE  Kept'
<1>1. Given(before, payload, Ahead) /\ Progress /\ Sound(payload)
  BY DEF Kept
<1>2. /\ KnownBefore
      /\ \A i \in Previous(g) : /\ i \in DOMAIN before /\ Front(before[i].location) = g.owner
                                /\ \A j \in DOMAIN before : ~Done(j) =>
                                     Len(before[i].location) <= Len(before[j].location)
  BY <1>1, NextGroupOwner
<1>3. \A i \in Previous(g) : HasReplacedAncestor(i)
  BY <1>2, GivenUpTogether DEF Typing
<1>4. \A i \in DOMAIN before : Done(i)' <=> Done(i) \/ i \in Previous(g)
  BY DEF Done, Previous, GroupOf, SiteOf
<1>5. \A i \in DOMAIN before : Live(i)' <=> Live(i)
  BY DEF Live, HasReplacedAncestor
<1>6. \A i \in DOMAIN before : Done(i)' /\ Live(i)' => Done(i) /\ Live(i)
  BY <1>3, <1>4, <1>5 DEF Live
<1>7. \A i \in DOMAIN before : Done(i)' /\ Live(i)' => Placed(i)'
  <2>1. SUFFICES ASSUME NEW i \in DOMAIN before, Done(i)', Live(i)'
                 PROVE  Placed(i)'
    OBVIOUS
  <2>2. Placed(i)
    BY <1>1, <1>6, <2>1 DEF Progress
  <2>3. QED
    BY <1>4, <1>5, <2>2, PlacedNext
<1>8. \A i, j \in DOMAIN before : Done(i)' /\ ~Done(j)' => Len(before[i].location) <= Len(before[j].location)
  BY <1>1, <1>2, <1>4 DEF Progress
<1>9. ~OnlyReordered
  <2>1. replaced # {}
    BY <1>3 DEF HasReplacedAncestor
  <2>2. QED
    BY <1>1, <2>1 DEF Progress
<1>10. ~OnlyReordered'
  BY <1>9, ReorderedNext
<1>11. Progress'
  <2>1. \A i \in DOMAIN before : ~Done(i)' => selections[i] = before[i]
    BY <1>1, <1>4 DEF Progress
  <2>2. \A i, j \in DOMAIN before :
          Done(i)' /\ Live(i)' /\ Done(j)' /\ Live(j)'
            /\ selections[i].location = selections[j].location => i = j
    BY <1>1, <1>6 DEF Progress
  <2>3. \A i \in replaced : Done(i)' /\ Live(i)'
    BY <1>1, <1>4, <1>5 DEF Progress, Typing
  <2>4. QED
    BY <1>7, <1>8, <1>10, <2>1, <2>2, <2>3 DEF Progress
<1>12. Given(before, payload, Ahead)'
  <2>1. Ahead' = Ahead
    BY DEF Ahead
  <2>2. Given(before', payload', Ahead)
    BY <1>1
  <2>3. QED
    BY <2>1, <2>2 DEF Given, Distinct, Belonging, Held, Subtree, Arm, ToSet, SiteOf, Object
<1>13. Sound(payload)'
  BY <1>1, SoundNext
<1>14. QED
  BY <1>11, <1>12, <1>13 DEF Kept, Settled

\* What is kept holds when a group is refused after a callback.
LEMMA KeptGroupRefused ==
  ASSUME Typing, Kept, phase = "reconcile", stage = "called", todo # {}, NEW g, g = NextGroup,
         ~(\E i \in Previous(g) : HasReplacedAncestor(i)), Refused(g), Refuse
  PROVE  Kept'
<1>1. Given(before, payload, Ahead) /\ Progress
  BY DEF Kept
<1>2. KnownBefore /\ g \in Groups(before) /\ OwnerFound(g)
  BY <1>1, NextGroupOwner, NextOwnerFound
<1>3. ~OnlyReordered
  BY <1>1, <1>2, FoundIdentified, ReorderedGroup DEF Typing
<1>4. QED
  BY <1>3, KeptRefuse

\* A family of a site that has only one.
LEMMA OnlyFamily ==
  ASSUME NEW s \in Sites, Cardinality(Arm(s)) = 1, NEW f \in Arm(s), NEW h \in Arm(s)
  PROVE  f = h
<1>1. Arms[s] \in Seq(Families)
  BY SitesAssumption DEF SitesAssumption
<1>2. Arm(s) = {Arms[s][n] : n \in DOMAIN Arms[s]}
  BY DEF Arm, ToSet
<1>3. DOMAIN Arms[s] = 1 .. Len(Arms[s]) /\ Len(Arms[s]) \in Nat
  BY <1>1, LenProperties
<1>4. IsFiniteSet(DOMAIN Arms[s])
  BY <1>3, FS_Interval
<1>5. IsFiniteSet(Arm(s))
  BY <1>2, <1>4, FiniteImage
<1>6. \E x : Arm(s) = {x}
  BY <1>5, FS_Singleton
<1>7. QED
  BY <1>6

\* Selection x, of occurrence i of group g, says what its value is.
FoundIn(x, i, g) ==
  /\ BoundTo(x, payload) /\ x.family \in Arm(g.site)
  /\ Front(x.location) = OwnerNow(g) /\ SiteOf(x.location) = g.site
  /\ <<i, x.location>> \in Match(g)
  /\ \A j \in DOMAIN before : Identified(j, x.location) => GroupOf(before[j]) = g

\* The selections of a group say what was found for them.
LEMMA MatchedValues ==
  ASSUME Typing, Sound(payload), Given(before, payload, Ahead), phase = "reconcile",
         KnownBefore, NEW g \in Groups(before), ~Refused(g),
         \A i \in Previous(g) : i \in DOMAIN before /\ selections[i] = before[i]
  PROVE  /\ \A i \in Previous(g) : FoundIn(Reconciled(g)[i], i, g)
         /\ \A i \in DOMAIN selections \ Previous(g) : Reconciled(g)[i] = selections[i]
         /\ DOMAIN Reconciled(g) = DOMAIN before /\ DOMAIN selections = DOMAIN before
         /\ Reconciled(g) = [i \in DOMAIN Reconciled(g) |-> Reconciled(g)[i]]
         /\ \A c, d \in Match(g) : c[1] = d[1] \/ c[2] = d[2] => c = d
<1>1. Tree(payload) /\ before \in Seq(SelectionType) /\ selections \in Seq(SelectionType)
      /\ Len(selections) = Len(before) /\ WellTyped(payload)
  BY DEF Typing, WellTyped
<1>2. /\ \A i \in DOMAIN before : before[i].id # NoObject
      /\ \A i, j \in DOMAIN before : before[i].id = before[j].id => i = j
  BY KnownApart
<1>3. \A i, j \in Previous(g) : selections[i].location = selections[j].location => i = j
  BY DEF KnownBefore, Distinct
<1>4. /\ Match(g) \subseteq Previous(g) \X Candidates(g)
      /\ \A i \in Previous(g) : \E c \in Match(g) : c[1] = i
      /\ \A c, d \in Match(g) : c[1] = d[1] \/ c[2] = d[2] => c = d
      /\ \A c \in Rebound(g) : /\ c[2] \in Candidates(g) /\ ~payload[c[2]].instance
                               /\ \A d \in Claims(g) : c[2] # d[2]
      /\ \A c \in Replacements(g), d \in Claims(g) \cup Rebound(g) : c[1] # d[1]
  BY <1>1, <1>2, <1>3, GroupMatched
<1>5. DOMAIN selections = DOMAIN before
  BY <1>1, LenProperties
<1>6. Previous(g) \subseteq DOMAIN selections
  BY <1>5
<1>7. /\ DOMAIN Reconciled(g) = DOMAIN selections
      /\ Reconciled(g) = [i \in DOMAIN Reconciled(g) |-> Reconciled(g)[i]]
      /\ \A i \in DOMAIN selections \ Previous(g) : Reconciled(g)[i] = selections[i]
      /\ \A c \in Claims(g) \cup Rebound(g) :
           Reconciled(g)[c[1]] = [selections[c[1]] EXCEPT !.location = c[2], !.id = payload[c[2]].id]
      /\ \A c \in Replacements(g) : Reconciled(g)[c[1]] = Replacement(c[1], c[2])
  BY <1>4, <1>6, ReconciledGroup
<1>8. ~Moved(g) /\ ~NoUniqueFamily(g)
  BY DEF Refused
<1>9. ASSUME NEW l \in Candidates(g)
      PROVE  /\ l \in DOMAIN payload /\ Front(l) = OwnerNow(g) /\ SiteOf(l) = g.site
             /\ payload[l] \in ValueType
             /\ \A j \in DOMAIN before : Identified(j, l) => GroupOf(before[j]) = g
  BY <1>1, <1>8 DEF Candidates, Moved, WellTyped
<1>10. ASSUME NEW i \in Previous(g)
       PROVE  /\ i \in DOMAIN before /\ before[i] \in SelectionType
              /\ selections[i] = before[i] /\ before[i].label = Ahead
              /\ before[i].family \in Arm(g.site) /\ g.site \in Sites
  <2>1. i \in DOMAIN before /\ SiteOf(before[i].location) = g.site
    BY GroupIs DEF Previous
  <2>2. before[i] \in SelectionType /\ SiteOf(before[i].location) \in Sites
    BY <1>1, <2>1, PlacesBefore DEF KnownBefore
  <2>3. QED
    BY <2>1, <2>2 DEF Given, KnownBefore, Belonging
<1>11. ASSUME NEW c \in Claims(g) \cup Rebound(g), c[1] \in Previous(g), c[2] \in Candidates(g),
              payload[c[2]].family = before[c[1]].family, payload[c[2]].label = before[c[1]].label
       PROVE  /\ BoundTo(Reconciled(g)[c[1]], payload) /\ Reconciled(g)[c[1]].location = c[2]
              /\ Reconciled(g)[c[1]].family \in Arm(g.site)
  <2> DEFINE i == c[1]
             l == c[2]
             x == Reconciled(g)[i]
  <2>1. i \in Previous(g) /\ l \in Candidates(g) /\ x = [before[i] EXCEPT !.location = l, !.id = payload[l].id]
    BY <1>7, <1>10, <1>11
  <2>2. payload[l].family = before[i].family /\ payload[l].label = before[i].label
    BY <1>11
  <2> HIDE DEF i, l, x
  <2>3. /\ x.location = l /\ x.id = payload[l].id /\ x.family = before[i].family
        /\ x.label = before[i].label
    BY <1>10, <2>1 DEF SelectionType
  <2>4. BoundTo(x, payload) /\ x.location = l /\ x.family \in Arm(g.site)
    BY <1>9, <1>10, <2>1, <2>2, <2>3 DEF BoundTo
  <2>5. QED
    BY <2>4 DEF i, l, x
<1>12. ASSUME NEW c \in Claims(g)
       PROVE  payload[c[2]].family = before[c[1]].family /\ payload[c[2]].label = before[c[1]].label
  <2>1. c[1] \in DOMAIN before /\ c[2] \in DOMAIN payload /\ payload[c[2]].id = before[c[1]].id
    BY <1>9, <1>10 DEF Claims, Identified
  <2>2. QED
    BY <2>1 DEF Given
<1>13. ASSUME NEW c \in Rebound(g)
       PROVE  payload[c[2]].family = before[c[1]].family /\ payload[c[2]].label = before[c[1]].label
  <2> DEFINE i == c[1]
             l == c[2]
  <2>1. /\ i \in Previous(g) /\ i \in RemainingPrevious(g)
        /\ l \in Candidates(g) /\ ~payload[l].instance
        /\ \A d \in Claims(g) : d[2] # l
    <3>1. c \in Match(g)
      BY DEF Match
    <3>2. Rebound(g) \subseteq RemainingPrevious(g) \X RemainingCandidates(g)
      BY <1>1, ReboundPairs
    <3>3. QED
      BY <1>4, <3>1, <3>2
  <2>2. l \in DOMAIN payload /\ SiteOf(l) = g.site
    BY <1>9, <2>1
  <2>3. /\ payload[l].label = Ahead
        /\ \/ \E k \in DOMAIN before : before[k].id = payload[l].id
           \/ /\ payload[l].family \in Arm(SiteOf(l))
              /\ Kind[SiteOf(l)] = "mapping" =>
                   \A k \in DOMAIN before : before[k].location = l => payload[l].family = before[k].family
    BY <2>1, <2>2 DEF Given
  <2>4. ~\E k \in DOMAIN before : before[k].id = payload[l].id
    <3>1. SUFFICES ASSUME NEW k \in DOMAIN before, before[k].id = payload[l].id
                   PROVE  FALSE
      OBVIOUS
    <3>2. Identified(k, l)
      BY <1>2, <3>1 DEF Identified
    <3>3. k \in Previous(g)
      BY <1>9, <2>1, <3>2 DEF Previous
    <3>4. <<k, l>> \in Claims(g)
      BY <2>1, <3>2, <3>3 DEF Claims
    <3>5. QED
      BY <2>1, <3>4
  <2>5. CASE Anchored(g)
    <3>1. selections[i].location = l
      BY <2>5 DEF Rebound
    <3>2. before[i].location = l /\ Kind[g.site] = "mapping"
      BY <1>10, <2>1, <2>5, <3>1 DEF Anchored
    <3>3. QED
      BY <1>10, <2>1, <2>2, <2>3, <2>4, <3>2
  <2>6. CASE ~Anchored(g)
    <3>1. OneFamily(g)
      BY <1>1, <2>1, <2>6, ReboundPairs
    <3>2. payload[l].family = before[i].family
      BY <1>10, <2>1, <2>2, <2>3, <2>4, <3>1, OnlyFamily DEF OneFamily
    <3>3. QED
      BY <1>10, <2>1, <2>3, <3>2
  <2>7. QED
    BY <2>5, <2>6
<1>14. ASSUME NEW c \in Replacements(g), c[1] \in Previous(g), c[2] \in Candidates(g)
       PROVE  /\ BoundTo(Reconciled(g)[c[1]], payload) /\ Reconciled(g)[c[1]].location = c[2]
              /\ Reconciled(g)[c[1]].family \in Arm(g.site)
  <2> DEFINE l == c[2]
             x == Reconciled(g)[c[1]]
  <2>1. x = Selection(payload[l].family, Size, l, payload[l].id)
    BY <1>7 DEF Replacement
  <2>2. l \in ToSet(Instances(g)) /\ payload[l].instance
    <3>1. l \in ToSet(Instances(g)) /\ ToSet(Instances(g)) \subseteq Untaken(g)
      BY <1>1, GroupMatches
    <3>2. QED
      BY <3>1 DEF Untaken
  <2>3. payload[l].family \in Arm(g.site) /\ l \in DOMAIN payload
    BY <1>8, <1>9, <1>14, <2>2 DEF NoUniqueFamily
  <2>4. payload[l].label = Size
    BY <2>2, <2>3 DEF Sound
  <2> HIDE DEF l
  <2>5. x.location = l /\ x.id = payload[l].id /\ x.family = payload[l].family /\ x.label = Size
    BY <2>1 DEF Selection
  <2>6. BoundTo(x, payload) /\ x.location = l /\ x.family \in Arm(g.site)
    BY <2>3, <2>4, <2>5 DEF BoundTo
  <2>7. QED
    BY <2>6 DEF l
<1>15. ASSUME NEW i \in Previous(g)
       PROVE  FoundIn(Reconciled(g)[i], i, g)
  <2>1. PICK c \in Match(g) : c[1] = i
    BY <1>4
  <2>2. c \in Previous(g) \X Candidates(g)
    BY <1>4
  <2>3. c[1] \in Previous(g) /\ c[2] \in Candidates(g) /\ c = <<i, c[2]>>
    BY <2>1, <2>2
  <2>4. /\ BoundTo(Reconciled(g)[i], payload) /\ Reconciled(g)[i].location = c[2]
        /\ Reconciled(g)[i].family \in Arm(g.site)
    <3>1. CASE c \in Claims(g) \cup Rebound(g)
      BY <1>11, <1>12, <1>13, <2>1, <2>3, <3>1
    <3>2. CASE c \in Replacements(g)
      BY <1>14, <2>1, <2>3, <3>2
    <3>3. QED
      BY <2>1, <3>1, <3>2 DEF Match
  <2>5. /\ Front(c[2]) = OwnerNow(g) /\ SiteOf(c[2]) = g.site
        /\ \A j \in DOMAIN before : Identified(j, c[2]) => GroupOf(before[j]) = g
    BY <1>9, <2>3
  <2>6. <<i, c[2]>> \in Match(g)
    BY <2>1, <2>3
  <2>7. QED
    BY <2>4, <2>5, <2>6 DEF FoundIn
<1>16. QED
  BY <1>4, <1>5, <1>7, <1>15

\* What is found for a group is not at a place of another one.
LEMMA FoundApart ==
  ASSUME Typing, Progress, NEW g \in Groups(before), OwnerFound(g),
         NEW j \in DOMAIN before, Done(j), Live(j),
         Front(selections[j].location) = OwnerNow(g), SiteOf(selections[j].location) = g.site
  PROVE  GroupOf(before[j]) = g
<1>1. Placed(j)
  BY DEF Progress
<1>2. SiteOf(before[j].location) = g.site
  BY <1>1 DEF Placed
<1>3. Front(before[j].location) = g.owner
  <2>1. CASE Front(before[j].location) = <<>> /\ Front(selections[j].location) = <<>>
    BY <2>1 DEF OwnerFound
  <2>2. ASSUME NEW k \in DOMAIN before, Done(k), Live(k),
               before[k].location = Front(before[j].location),
               selections[k].location = Front(selections[j].location)
        PROVE  Front(before[j].location) = g.owner
    <3>1. Placed(k)
      BY <2>2 DEF Progress
    <3>2. OwnerNow(g) # <<>>
      BY <2>2, <3>1, PlacedSomewhere
    <3>3. PICK i \in DOMAIN before :
            /\ Done(i) /\ Live(i) /\ before[i].location = g.owner
            /\ selections[i].location = OwnerNow(g)
      BY <3>2 DEF OwnerFound
    <3>4. i = k
      BY <2>2, <3>3 DEF Progress
    <3>5. QED
      BY <2>2, <3>3, <3>4
  <2>3. QED
    BY <1>1, <2>1, <2>2 DEF Placed
<1>4. QED
  BY <1>2, <1>3, GroupIs

\* Of two places, the shorter or equally long does not lie within the other.
LEMMA NotWithin ==
  ASSUME KnownBefore, NEW i \in DOMAIN before, NEW j \in DOMAIN before,
         Len(before[i].location) <= Len(before[j].location)
  PROVE  ~IsStrictPrefix(before[j].location, before[i].location)
<1>1. /\ before[i].location \in Seq(Slots) /\ before[j].location \in Seq(Slots)
      /\ before[i].location # <<>>
      /\ Len(before[i].location) \in Nat /\ Len(before[j].location) \in Nat
      /\ Front(before[i].location) \in Seq(Slots)
      /\ Len(Front(before[i].location)) = Len(before[i].location) - 1
  BY PlacesBefore DEF KnownBefore
<1>2. SUFFICES ASSUME IsStrictPrefix(before[j].location, before[i].location)
               PROVE  FALSE
  OBVIOUS
<1>3. IsPrefix(before[j].location, Front(before[i].location))
  BY <1>1, <1>2, PrefixOfFront
<1>4. Len(before[j].location) <= Len(Front(before[i].location))
  BY <1>1, <1>3, PrefixMeans
<1>5. QED
  BY <1>1, <1>4

\* What is replaced does not belong to an owner of what was reconciled before.
LEMMA LiveNext ==
  ASSUME KnownBefore, Progress, NEW g, before' = before,
         replaced' = replaced \cup {c[1] : c \in Replacements(g)},
         Replacements(g) \subseteq Previous(g) \X Candidates(g),
         \A i \in Previous(g) : /\ i \in DOMAIN before /\ ~Done(i)
                                /\ \A j \in DOMAIN before : ~Done(j) =>
                                     Len(before[i].location) <= Len(before[j].location),
         NEW i \in DOMAIN before, Done(i) \/ i \in Previous(g)
  PROVE  Live(i)' <=> Live(i)
<1>1. ASSUME NEW c \in Replacements(g)
      PROVE  ~IsStrictPrefix(before[c[1]].location, before[i].location)
  <2>1. c[1] \in Previous(g)
    OBVIOUS
  <2>2. c[1] \in DOMAIN before /\ ~Done(c[1])
    BY <2>1
  <2>3. Len(before[i].location) <= Len(before[c[1]].location)
    BY <2>2 DEF Progress
  <2>4. QED
    BY <2>2, <2>3, NotWithin
<1>2. QED
  BY <1>1 DEF Live, HasReplacedAncestor

\* What is kept holds when a group is found after a callback.
LEMMA KeptGroupFound ==
  ASSUME Typing, Kept, phase = "reconcile", stage = "called", todo # {}, NEW g, g = NextGroup,
         ~(\E i \in Previous(g) : HasReplacedAncestor(i)), ~Refused(g),
         todo' = todo \ {g}, selections' = Reconciled(g),
         replaced' = replaced \cup {c[1] : c \in Replacements(g)},
         UNCHANGED <<target, at, phase, stage, payload, before>>
  PROVE  Kept'
<1>1. Given(before, payload, Ahead) /\ Progress /\ Sound(payload)
  BY DEF Kept
<1>2. KnownBefore /\ g \in Groups(before) /\ OwnerFound(g)
  BY <1>1, NextGroupOwner, NextOwnerFound
<1>3. ASSUME NEW i \in Previous(g)
      PROVE  /\ i \in DOMAIN before /\ ~Done(i) /\ Live(i) /\ selections[i] = before[i]
             /\ Front(before[i].location) = g.owner /\ SiteOf(before[i].location) = g.site
             /\ \A j \in DOMAIN before : ~Done(j) => Len(before[i].location) <= Len(before[j].location)
  BY <1>1, NextGroupOwner DEF Live
<1>4. /\ \A i \in Previous(g) : FoundIn(Reconciled(g)[i], i, g)
      /\ \A i \in DOMAIN selections \ Previous(g) : Reconciled(g)[i] = selections[i]
      /\ DOMAIN Reconciled(g) = DOMAIN before /\ DOMAIN selections = DOMAIN before
      /\ \A c, d \in Match(g) : c[1] = d[1] \/ c[2] = d[2] => c = d
  BY <1>1, <1>2, <1>3, MatchedValues
<1>5. \A i \in DOMAIN before : /\ i \in Previous(g) => FoundIn(selections'[i], i, g)
                               /\ i \notin Previous(g) => selections'[i] = selections[i]
  BY <1>4
<1>6. \A i \in DOMAIN before : i \in Previous(g) <=> GroupOf(before[i]) = g
  BY DEF Previous
<1>7. \A i \in DOMAIN before : Done(i)' <=> Done(i) \/ i \in Previous(g)
  BY DEF Done, Previous, GroupOf, SiteOf
<1>8. \A i \in DOMAIN before : Done(i)' => (Live(i)' <=> Live(i))
  <2>1. Replacements(g) \subseteq Previous(g) \X Candidates(g)
    <3>1. Replacements(g) \subseteq Available(g) \X Untaken(g)
      BY GroupMatches DEF Typing, WellTyped
    <3>2. QED
      BY <3>1 DEF Available, Untaken, Unclaimed
  <2>2. QED
    BY <1>1, <1>2, <1>3, <1>7, <2>1, LiveNext
<1>9. \A j \in DOMAIN before : Done(j) /\ Live(j) => Done(j)' /\ Live(j)' /\ selections'[j] = selections[j]
  BY <1>3, <1>5, <1>7, <1>8
<1>10. ASSUME NEW i \in Previous(g)
       PROVE  Placed(i)'
  <2>1. i \in DOMAIN before /\ FoundIn(selections'[i], i, g)
    BY <1>3, <1>5
  <2>2. BoundTo(selections[i], payload)'
    BY <2>1 DEF FoundIn, BoundTo
  <2>3. SiteOf(selections'[i].location) = g.site /\ Front(selections'[i].location) = OwnerNow(g)
    BY <2>1 DEF FoundIn
  <2>4. selections[i].family' \in Arm(SiteOf(selections[i].location))'
    BY <2>1, <2>3 DEF FoundIn, Arm, SiteOf, ToSet
  <2>5. SiteOf(selections[i].location)' = SiteOf(before[i].location)'
    BY <1>3, <2>3 DEF SiteOf
  <2>6. \A j \in DOMAIN before :
          Identified(j, selections[i].location)' => GroupOf(before[j])' = GroupOf(before[i])'
    <3>1. \A j \in DOMAIN before : Identified(j, selections'[i].location) => GroupOf(before[j]) = GroupOf(before[i])
      BY <1>6, <2>1 DEF FoundIn
    <3>2. QED
      BY <3>1 DEF Identified, GroupOf, NoObject, Object, SiteOf
  <2>7. \/ Front(before[i].location)' = <<>> /\ Front(selections[i].location)' = <<>>
        \/ \E j \in DOMAIN before' :
             /\ Done(j)' /\ Live(j)' /\ before'[j].location = Front(before[i].location)'
             /\ selections'[j].location = Front(selections[i].location)'
    <3>1. Front(before'[i].location) = g.owner
      BY <1>3
    <3>2. CASE g.owner = <<>> /\ OwnerNow(g) = <<>>
      BY <2>3, <3>1, <3>2
    <3>3. ASSUME NEW j \in DOMAIN before, Done(j), Live(j), before[j].location = g.owner,
                 selections[j].location = OwnerNow(g)
          PROVE  /\ Done(j)' /\ Live(j)' /\ before'[j].location = Front(before'[i].location)
                 /\ selections'[j].location = Front(selections'[i].location)
      BY <1>9, <2>3, <3>1, <3>3
    <3>4. QED
      BY <1>2, <3>2, <3>3 DEF OwnerFound
  <2>8. QED
    BY <2>1, <2>2, <2>4, <2>5, <2>6, <2>7 DEF Placed
<1>11. ASSUME NEW i \in DOMAIN before, Done(i)', Live(i)'
       PROVE  Placed(i)'
  <2>1. CASE i \in Previous(g)
    BY <1>10, <2>1
  <2>2. CASE i \notin Previous(g)
    <3>1. Placed(i) /\ selections'[i] = selections[i]
      BY <1>1, <1>5, <1>7, <1>8, <1>11, <2>2 DEF Progress
    <3>2. QED
      BY <1>9, <3>1, PlacedNext
  <2>3. QED
    BY <2>1, <2>2
<1>12. ASSUME NEW i \in Previous(g), NEW j \in DOMAIN before, Done(j), Live(j)
       PROVE  selections'[i].location # selections'[j].location
  <2>1. FoundIn(selections'[i], i, g) /\ selections'[j] = selections[j] /\ j \notin Previous(g)
    BY <1>3, <1>5, <1>9, <1>12
  <2>2. GroupOf(before[j]) # g
    BY <1>6, <2>1
  <2>3. ~(Front(selections[j].location) = OwnerNow(g) /\ SiteOf(selections[j].location) = g.site)
    BY <1>1, <1>2, <1>12, <2>2, FoundApart
  <2>4. QED
    BY <2>1, <2>3 DEF FoundIn
<1>13. ASSUME NEW i \in Previous(g), NEW j \in Previous(g), selections'[i].location = selections'[j].location
       PROVE  i = j
  <2>1. <<i, selections'[i].location>> \in Match(g) /\ <<j, selections'[j].location>> \in Match(g)
    BY <1>3, <1>5 DEF FoundIn
  <2>2. QED
    BY <1>4, <1>13, <2>1
<1>14. \A i, j \in DOMAIN before :
         Done(i)' /\ Live(i)' /\ Done(j)' /\ Live(j)'
           /\ selections'[i].location = selections'[j].location => i = j
  <2>1. SUFFICES ASSUME NEW i \in DOMAIN before, NEW j \in DOMAIN before,
                        Done(i)', Live(i)', Done(j)', Live(j)',
                        selections'[i].location = selections'[j].location
                 PROVE  i = j
    OBVIOUS
  <2>2. /\ i \in Previous(g) \/ (Done(i) /\ Live(i))
        /\ j \in Previous(g) \/ (Done(j) /\ Live(j))
    BY <1>7, <1>8, <2>1
  <2>3. CASE Done(i) /\ Live(i) /\ Done(j) /\ Live(j)
    BY <1>1, <1>9, <2>1, <2>3 DEF Progress
  <2>4. QED
    BY <1>12, <1>13, <2>1, <2>2, <2>3
<1>15. \A i \in replaced' : Done(i)' /\ Live(i)'
  <2>1. SUFFICES ASSUME NEW i \in replaced'
                 PROVE  Done(i)' /\ Live(i)'
    OBVIOUS
  <2>2. CASE i \in replaced
    BY <1>1, <1>9, <2>2 DEF Progress, Typing
  <2>3. CASE i \in {c[1] : c \in Replacements(g)}
    <3>1. Replacements(g) \subseteq Available(g) \X Untaken(g)
      BY GroupMatches DEF Typing, WellTyped
    <3>2. i \in Previous(g)
      BY <2>3, <3>1 DEF Available
    <3>3. QED
      BY <1>3, <1>7, <1>8, <3>2
  <2>4. QED
    BY <2>2, <2>3
<1>16. \A i, j \in DOMAIN before : Done(i)' /\ ~Done(j)' => Len(before[i].location) <= Len(before[j].location)
  BY <1>1, <1>3, <1>7 DEF Progress
<1>17. ASSUME OnlyReordered
       PROVE  replaced' = {} /\ \A i \in DOMAIN before : Done(i)' => selections'[i].id = before[i].id
  <2>1. Available(g) = {}
    BY <1>1, <1>2, <1>17, FoundIdentified, ReorderedGroup DEF Typing
  <2>2. Replacements(g) = {} /\ RemainingPrevious(g) = {}
    <3>1. Replacements(g) \subseteq Available(g) \X Untaken(g)
      BY GroupMatches DEF Typing, WellTyped
    <3>2. QED
      BY <2>1, <3>1 DEF RemainingPrevious
  <2>3. Rebound(g) = {}
    <3>1. Rebound(g) \subseteq RemainingPrevious(g) \X RemainingCandidates(g)
      BY ReboundPairs DEF Typing, WellTyped
    <3>2. QED
      BY <2>2, <3>1
  <2>4. ASSUME NEW i \in Previous(g)
        PROVE  selections'[i].id = before[i].id
    <3>1. /\ <<i, selections'[i].location>> \in Claims(g)
          /\ payload[selections'[i].location].id = selections'[i].id
      BY <1>3, <1>5, <2>2, <2>3 DEF FoundIn, Match, BoundTo
    <3>2. Identified(i, selections'[i].location)
      BY <3>1 DEF Claims
    <3>3. QED
      BY <3>1, <3>2 DEF Identified
  <2>5. replaced' = {}
    BY <1>1, <1>17, <2>2 DEF Progress
  <2>6. \A i \in DOMAIN before : Done(i)' => selections'[i].id = before[i].id
    BY <1>1, <1>5, <1>7, <1>17, <2>4 DEF Progress
  <2>7. QED
    BY <2>5, <2>6
<1>18. Progress'
  <2>1. \A i \in DOMAIN before : ~Done(i)' => selections'[i] = before[i]
    BY <1>1, <1>5, <1>7 DEF Progress
  <2>2. OnlyReordered' => /\ replaced' = {}
                          /\ \A i \in DOMAIN before : Done(i)' => selections'[i].id = before[i].id
    BY <1>17, ReorderedNext
  <2>3. QED
    BY <1>11, <1>14, <1>15, <1>16, <2>1, <2>2 DEF Progress
<1>19. Given(before, payload, Ahead)'
  <2>1. Ahead' = Ahead
    BY DEF Ahead
  <2>2. Given(before', payload', Ahead)
    BY <1>1
  <2>3. QED
    BY <2>1, <2>2 DEF Given, Distinct, Belonging, Held, Subtree, Arm, ToSet, SiteOf, Object
<1>20. Sound(payload)'
  BY <1>1, SoundNext
<1>21. QED
  BY <1>18, <1>19, <1>20 DEF Kept, Settled

\* What is kept holds when a group is reconciled.
LEMMA KeptReconcileGroup ==
  ASSUME Typing, Kept, ReconcileGroup
  PROVE  Kept'
<1> DEFINE g == NextGroup
<1>1. /\ phase = "reconcile" /\ todo # {}
      /\ \/ /\ \E i \in Previous(g) : HasReplacedAncestor(i)
            /\ todo' = todo \ {g}
            /\ UNCHANGED <<target, at, phase, stage, payload, selections, before, replaced>>
         \/ Refused(g) /\ Refuse
         \/ /\ ~(\E i \in Previous(g) : HasReplacedAncestor(i)) /\ ~Refused(g)
            /\ todo' = todo \ {g} /\ selections' = Reconciled(g)
            /\ replaced' = replaced \cup {c[1] : c \in Replacements(g)}
            /\ UNCHANGED <<target, at, phase, stage, payload, before>>
  BY ReconcileGroupMeans
<1>2. CASE stage # "called"
  BY <1>2, KeptConvertingGroup
<1>3. CASE stage = "called" /\ \E i \in Previous(g) : HasReplacedAncestor(i)
  <2>1. todo' = todo \ {g} /\ UNCHANGED <<target, at, phase, stage, payload, selections, before, replaced>>
    BY <1>1, <1>3 DEF ReconcileGroup, Refuse
  <2> HIDE DEF g
  <2>2. QED
    BY <1>1, <1>3, <2>1, KeptGivenUp DEF g
<1>4. CASE stage = "called" /\ ~(\E i \in Previous(g) : HasReplacedAncestor(i)) /\ Refused(g) /\ Refuse
  BY <1>1, <1>4, KeptGroupRefused
<1>5. CASE /\ stage = "called" /\ ~(\E i \in Previous(g) : HasReplacedAncestor(i)) /\ ~Refused(g)
           /\ todo' = todo \ {g} /\ selections' = Reconciled(g)
           /\ replaced' = replaced \cup {c[1] : c \in Replacements(g)}
           /\ UNCHANGED <<target, at, phase, stage, payload, before>>
  BY <1>1, <1>5, KeptGroupFound
<1>6. QED
  BY <1>1, <1>2, <1>3, <1>4, <1>5

-----------------------------------------------------------------------------
(* What is selected after a callback. *)

\* The selections that are retained say what their values are, and belong there.
LEMMA RetainedFound ==
  ASSUME Typing, Progress, phase = "reconcile", todo = {}
  PROVE  /\ Retained \in Seq(SelectionType) /\ Distinct(Retained) /\ Belonging(Retained)
         /\ \A n \in DOMAIN Retained : BoundTo(Retained[n], payload)
         /\ replaced = {} => \A i \in DOMAIN before : \E n \in DOMAIN Retained : Retained[n] = selections[i]
<1>1. /\ WellTyped(payload) /\ selections \in Seq(SelectionType) /\ before \in Seq(SelectionType)
      /\ Len(selections) = Len(before)
  BY DEF Typing
<1>2. DOMAIN selections = DOMAIN before
  BY <1>1, LenProperties
<1>3. \A i \in DOMAIN before : Done(i)
  BY DEF Done
<1>4. \A i, j \in DOMAIN before : Live(i) /\ Live(j) /\ selections[i].location = selections[j].location => i = j
  BY <1>3 DEF Progress
<1>5. /\ Retained \in Seq(SelectionType)
      /\ \A n \in DOMAIN Retained : \E i \in DOMAIN before : Live(i) /\ Retained[n] = selections[i]
      /\ \A i \in DOMAIN before : Live(i) => \E n \in DOMAIN Retained : Retained[n] = selections[i]
      /\ \A n, k \in DOMAIN Retained : Retained[n].location = Retained[k].location => n = k
  <2>1. /\ Retained \in Seq(SelectionType)
        /\ \A n \in DOMAIN Retained : \E i \in DOMAIN selections :
             ~HasReplacedAncestor(i) /\ Retained[n] = selections[i]
        /\ \A i \in DOMAIN selections : ~HasReplacedAncestor(i) =>
             \E n \in DOMAIN Retained : Retained[n] = selections[i]
        /\ (\A i, j \in DOMAIN selections :
              ~HasReplacedAncestor(i) /\ ~HasReplacedAncestor(j)
                /\ selections[i].location = selections[j].location => i = j)
           => \A n, k \in DOMAIN Retained : Retained[n].location = Retained[k].location => n = k
    BY <1>1, RetainedSeq
  <2>2. QED
    BY <1>2, <1>4, <2>1 DEF Live
<1>6. ASSUME NEW n \in DOMAIN Retained
      PROVE  /\ BoundTo(Retained[n], payload)
             /\ Retained[n].family \in Arm(SiteOf(Retained[n].location))
             /\ Retained[n].location \in DOMAIN payload /\ Retained[n].location # <<>>
             /\ \/ Front(Retained[n].location) = <<>>
                \/ Held(Retained, Front(Retained[n].location))
  <2>1. PICK i \in DOMAIN before : Live(i) /\ Retained[n] = selections[i]
    BY <1>5
  <2>2. Placed(i)
    BY <1>3, <2>1 DEF Progress
  <2>3. selections[i].location \in DOMAIN payload /\ selections[i].location # <<>>
    BY <2>2, PlacedSomewhere
  <2>4. Front(selections[i].location) = <<>> \/ Held(Retained, Front(selections[i].location))
    BY <1>5, <2>2 DEF Placed, Held
  <2>5. QED
    BY <2>1, <2>2, <2>3, <2>4 DEF Placed
<1> DEFINE S == {l \in DOMAIN payload : Held(Retained, l)}
<1>7. IsFiniteSet(S) /\ S \subseteq Seq(Slots) \ {<<>>}
  <2>1. IsFiniteSet(DOMAIN payload) /\ DOMAIN payload \subseteq Seq(Slots) \ {<<>>}
    BY <1>1 DEF WellTyped, Tree
  <2>2. S \subseteq DOMAIN payload
    OBVIOUS
  <2>3. QED
    BY <2>1, <2>2, FS_Subset
<1>8. \A n \in DOMAIN Retained : Retained[n].location \in S
  BY <1>6 DEF Held
<1>9. ASSUME NEW l \in S, Len(l) > 1
      PROVE  Front(l) \in S
  <2>1. PICK n \in DOMAIN Retained : Retained[n].location = l
    BY DEF Held
  <2>2. Front(l) # <<>>
    <3>1. l \in Seq(Slots) /\ l # <<>>
      BY <1>7
    <3>2. Len(l) \in Nat /\ Len(Front(l)) = Len(l) - 1
      BY <3>1, FrontAndLast
    <3>3. Len(Front(l)) # 0
      BY <1>9, <3>2
    <3>4. QED
      BY <3>3, EmptySeq
  <2>3. Held(Retained, Front(l))
    BY <1>6, <2>1, <2>2
  <2>4. QED
    BY <1>8, <2>3 DEF Held
<1>10. \A l \in S : \A n \in 1 .. Len(l) : SubSeq(l, 1, n) \in S
  <2> HIDE DEF S
  <2>1. QED
    BY <1>7, <1>9, BeginningsHeld
<1>11. Belonging(Retained)
  BY <1>6, <1>8, <1>10 DEF Belonging
<1>12. Distinct(Retained)
  BY <1>5 DEF Distinct
<1>13. replaced = {} => \A i \in DOMAIN before : \E n \in DOMAIN Retained : Retained[n] = selections[i]
  BY <1>5 DEF Live, HasReplacedAncestor
<1>14. QED
  BY <1>5, <1>6, <1>11, <1>12, <1>13

\* So do those of what a callback introduced.
LEMMA IntroducedFound ==
  ASSUME WellTyped(payload), Sound(payload), NEW xs \in Seq(SelectionType),
         Distinct(xs), Belonging(xs), \A n \in DOMAIN xs : BoundTo(xs[n], payload),
         NEW ys, ys = WithIntroduced(xs)
  PROVE  /\ Distinct(ys) /\ Belonging(ys) /\ \A n \in DOMAIN ys : BoundTo(ys[n], payload)
         /\ \A l : Held(ys, l) <=> Held(xs, l) \/ l \in Introduced(xs)
<1>1. /\ \A i \in DOMAIN xs : i \in DOMAIN ys /\ ys[i] = xs[i]
      /\ \A i \in DOMAIN ys \ DOMAIN xs : \E l \in Introduced(xs) :
           ys[i] = Selection(payload[l].family, Size, l, payload[l].id)
      /\ \A l \in Introduced(xs) : \E i \in DOMAIN ys \ DOMAIN xs :
           ys[i] = Selection(payload[l].family, Size, l, payload[l].id)
      /\ \A i, j \in DOMAIN ys \ DOMAIN xs : ys[i].location = ys[j].location => i = j
      /\ \A l \in Introduced(xs) : l \in DOMAIN payload /\ Typed(l) /\ ~Held(xs, l)
  BY IntroducedTyped
<1>2. ASSUME NEW i \in DOMAIN ys \ DOMAIN xs
      PROVE  /\ ys[i].location \in Introduced(xs) /\ BoundTo(ys[i], payload)
             /\ ys[i].family \in Arm(SiteOf(ys[i].location)) /\ ys[i].location # <<>>
  <2>1. PICK l \in Introduced(xs) : ys[i] = Selection(payload[l].family, Size, l, payload[l].id)
    BY <1>1
  <2>2. ys[i].location = l /\ ys[i].family = payload[l].family /\ ys[i].label = Size /\ ys[i].id = payload[l].id
    BY <2>1 DEF Selection
  <2>3. l \in DOMAIN payload /\ payload[l].instance /\ payload[l].family \in Arm(SiteOf(l))
    BY <1>1 DEF Typed
  <2>4. payload[l].label = Size /\ l # <<>>
    BY <2>3 DEF Sound, WellTyped, Tree
  <2>5. QED
    BY <2>2, <2>3, <2>4 DEF BoundTo
<1>3. ASSUME NEW l
      PROVE  Held(ys, l) <=> Held(xs, l) \/ l \in Introduced(xs)
  <2>1. ASSUME Held(ys, l)
        PROVE  Held(xs, l) \/ l \in Introduced(xs)
    BY <1>1, <1>2, <2>1 DEF Held
  <2>2. ASSUME l \in Introduced(xs)
        PROVE  Held(ys, l)
    <3>1. PICK i \in DOMAIN ys : ys[i] = Selection(payload[l].family, Size, l, payload[l].id)
      BY <1>1, <2>2
    <3>2. ys[i].location = l
      BY <3>1 DEF Selection
    <3>3. QED
      BY <3>2 DEF Held
  <2>3. Held(xs, l) => Held(ys, l)
    BY <1>1 DEF Held
  <2>4. QED
    BY <2>1, <2>2, <2>3
<1>4. Distinct(ys)
  <2>1. SUFFICES ASSUME NEW i \in DOMAIN ys, NEW j \in DOMAIN ys, ys[i].location = ys[j].location
                 PROVE  i = j
    BY DEF Distinct
  <2>2. CASE i \in DOMAIN xs /\ j \in DOMAIN xs
    BY <1>1, <2>1, <2>2 DEF Distinct
  <2>3. CASE i \notin DOMAIN xs /\ j \notin DOMAIN xs
    BY <1>1, <2>1, <2>3
  <2>4. CASE i \in DOMAIN xs /\ j \notin DOMAIN xs
    <3>1. Held(xs, ys[i].location) /\ ~Held(xs, ys[j].location)
      BY <1>1, <1>2, <2>4 DEF Held
    <3>2. QED
      BY <2>1, <3>1
  <2>5. CASE i \notin DOMAIN xs /\ j \in DOMAIN xs
    <3>1. Held(xs, ys[j].location) /\ ~Held(xs, ys[i].location)
      BY <1>1, <1>2, <2>5 DEF Held
    <3>2. QED
      BY <2>1, <3>1
  <2>6. QED
    BY <2>2, <2>3, <2>4, <2>5
<1>5. ASSUME NEW l \in Introduced(xs), NEW n \in 1 .. Len(l)
      PROVE  Held(ys, SubSeq(l, 1, n))
  <2> DEFINE m == SubSeq(l, 1, n)
  <2>1. l \in DOMAIN payload /\ Visited(xs, l) /\ Tree(payload)
    BY DEF Introduced, WellTyped
  <2>2. m \in DOMAIN payload
    BY <2>1, PartsOfPlace
  <2>3. l \in Seq(Slots)
    BY <2>1 DEF Tree
  <2>4. Begins(m, l, n) /\ Len(l) \in Nat
    BY <2>3, BeginningOfPlace, LenProperties
  <2>5. 1 .. n \subseteq 1 .. Len(l)
    BY <2>4
  <2> HIDE DEF m
  <2>6. Len(m) = n /\ \A k \in 1 .. n : SubSeq(m, 1, k) = SubSeq(l, 1, k)
    BY <2>4 DEF Begins
  <2>7. Visited(xs, m)
    BY <2>1, <2>5, <2>6 DEF Visited
  <2>8. Held(xs, m) \/ m \in Introduced(xs)
    BY <2>2, <2>7 DEF Introduced
  <2>9. Held(ys, m)
    BY <1>3, <2>8
  <2>10. QED
    BY <2>9 DEF m
<1>6. Belonging(ys)
  <2>1. SUFFICES ASSUME NEW i \in DOMAIN ys
                 PROVE  /\ ys[i].location # <<>> /\ ys[i].family \in Arm(SiteOf(ys[i].location))
                        /\ \A n \in 1 .. Len(ys[i].location) : Held(ys, SubSeq(ys[i].location, 1, n))
    BY DEF Belonging
  <2>2. CASE i \in DOMAIN xs
    <3>1. /\ xs[i].location # <<>> /\ xs[i].family \in Arm(SiteOf(xs[i].location))
          /\ \A n \in 1 .. Len(xs[i].location) : Held(xs, SubSeq(xs[i].location, 1, n))
      BY <2>2 DEF Belonging
    <3>2. QED
      BY <1>1, <1>3, <2>2, <3>1
  <2>3. CASE i \notin DOMAIN xs
    BY <1>2, <1>5, <2>3
  <2>4. QED
    BY <2>2, <2>3
<1>7. \A n \in DOMAIN ys : BoundTo(ys[n], payload)
  BY <1>1, <1>2
<1>8. QED
  BY <1>3, <1>4, <1>6, <1>7

\* What is selected then is all there is, except for instances that do not belong.
LEMMA IntroducedCovers ==
  ASSUME WellTyped(payload), NEW xs \in Seq(SelectionType), Intruding(xs) = {},
         NEW a, Given(before, payload, a),
         NEW ys, \A l : Held(xs, l) \/ l \in Introduced(xs) => Held(ys, l)
  PROVE  Covered(ys, payload)
<1>1. SUFFICES ASSUME NEW l \in DOMAIN payload, ~Held(ys, l)
               PROVE  payload[l].instance /\ l \notin Occurrences(payload)
  BY DEF Covered
<1>2. Tree(payload) /\ l \in Seq(Slots) \ {<<>>} /\ Len(l) \in Nat
  BY LenProperties DEF WellTyped, Tree
<1> DEFINE T == {n \in 1 .. Len(l) : ~Held(xs, SubSeq(l, 1, n)) /\ ~Typed(SubSeq(l, 1, n))}
<1>3. T # {}
  BY <1>1 DEF Introduced, Visited
<1>4. T \subseteq Nat
  BY <1>2
<1>5. PICK n \in T : \A k \in T : n <= k
  <2> HIDE DEF T
  <2>1. QED
    BY <1>3, <1>4, NatMin
<1>6. n \in 1 .. Len(l) /\ ~Held(xs, SubSeq(l, 1, n)) /\ ~Typed(SubSeq(l, 1, n))
  BY <1>5
<1>7. \A k \in 1 .. n - 1 : Held(xs, SubSeq(l, 1, k)) \/ Typed(SubSeq(l, 1, k))
  <2>1. SUFFICES ASSUME NEW k \in 1 .. n - 1
                 PROVE  k \notin T /\ k \in 1 .. Len(l)
    OBVIOUS
  <2>2. k \in 1 .. Len(l) /\ ~(n <= k)
    BY <1>2, <1>6, <2>1
  <2> HIDE DEF T
  <2>3. QED
    BY <1>5, <2>2
<1> DEFINE m == SubSeq(l, 1, n)
<1> HIDE DEF T
<1>8. m \in DOMAIN payload
  BY <1>2, <1>6, PartsOfPlace
<1>9. Begins(m, l, n)
  BY <1>2, <1>6, BeginningOfPlace
<1>10. Visited(xs, Front(m))
  <2>1. CASE n = 1
    <3>1. Front(m) = <<>>
      BY <1>9, <2>1 DEF Begins
    <3>2. Len(Front(m)) = 0
      BY <3>1, EmptySeq
    <3>3. 1 .. Len(Front(m)) = {}
      BY <3>2
    <3>4. QED
      BY <3>3, Zenon DEF Visited
  <2>2. CASE n # 1
    <3> DEFINE o == SubSeq(l, 1, n - 1)
    <3>1. n > 1 /\ n - 1 \in 1 .. Len(l)
      BY <1>2, <1>6, <2>2
    <3>2. Front(m) = o
      BY <1>9, <3>1 DEF Begins
    <3>3. Begins(o, l, n - 1)
      BY <1>2, <3>1, BeginningOfPlace
    <3> HIDE DEF o
    <3>4. Len(o) = n - 1 /\ \A k \in 1 .. n - 1 : SubSeq(o, 1, k) = SubSeq(l, 1, k)
      BY <3>3 DEF Begins
    <3>5. \A k \in 1 .. Len(o) : Held(xs, SubSeq(o, 1, k)) \/ Typed(SubSeq(o, 1, k))
      BY <1>7, <3>4
    <3>6. QED
      BY <3>2, <3>5 DEF Visited
  <2>3. QED
    BY <2>1, <2>2
<1> HIDE DEF m
<1>11. ~Held(xs, m) /\ ~Typed(m)
  BY <1>6 DEF m
<1>12. payload[m].instance
  BY <1>8, <1>10, <1>11 DEF Intruding
<1>13. payload[m].family \notin Arm(SiteOf(m)) /\ SiteOf(m) = l[n][1] /\ IsPrefix(m, l)
  BY <1>9, <1>11, <1>12 DEF Typed, Begins
<1>14. payload[l].instance
  <2>1. l \in Subtree(payload, m)
    BY <1>13 DEF Subtree
  <2>2. QED
    BY <1>8, <1>12, <1>13, <2>1 DEF Given
<1>15. l \notin Occurrences(payload)
  BY <1>6, <1>13 DEF Occurrences, m
<1>16. QED
  BY <1>14, <1>15

\* What is selected when it is accepted what a callback returned.
LEMMA CalledConsistent ==
  ASSUME Typing, Kept, SettleCalled, ~Refuse
  PROVE  Consistent(WithIntroduced(Retained), payload)
<1> DEFINE ys == WithIntroduced(Retained)
<1>1. /\ phase = "reconcile" /\ todo = {} /\ stage = "called" /\ Intruding(Retained) = {}
  BY SettleCalledMeans
<1>2. Given(before, payload, Ahead) /\ Progress /\ Sound(payload) /\ WellTyped(payload)
  BY <1>1 DEF Kept, Typing
<1>3. /\ Retained \in Seq(SelectionType) /\ Distinct(Retained) /\ Belonging(Retained)
      /\ \A n \in DOMAIN Retained : BoundTo(Retained[n], payload)
  BY <1>1, <1>2, RetainedFound
<1>4. /\ Distinct(ys) /\ Belonging(ys) /\ \A n \in DOMAIN ys : BoundTo(ys[n], payload)
      /\ \A l : Held(ys, l) <=> Held(Retained, l) \/ l \in Introduced(Retained)
  BY <1>2, <1>3, IntroducedFound
<1> HIDE DEF ys
<1>5. Covered(ys, payload)
  BY <1>1, <1>2, <1>3, <1>4, IntroducedCovers
<1>6. Consistent(ys, payload)
  BY <1>4, <1>5 DEF Consistent
<1>7. QED
  BY <1>6 DEF ys

\* Where values were only reordered, that is accepted.
LEMMA ReorderedSettled ==
  ASSUME Typing, Kept, phase = "reconcile", stage = "called", todo = {}, OnlyReordered
  PROVE  ~SharedIdentity(WithIntroduced(Retained)) /\ Intruding(Retained) = {}
<1> DEFINE ys == WithIntroduced(Retained)
<1>1. Progress /\ Sound(payload) /\ WellTyped(payload) /\ replaced = {}
  BY DEF Kept, Typing, Progress
<1>2. /\ Retained \in Seq(SelectionType) /\ Distinct(Retained) /\ Belonging(Retained)
      /\ \A n \in DOMAIN Retained : BoundTo(Retained[n], payload)
      /\ \A i \in DOMAIN before : \E n \in DOMAIN Retained : Retained[n] = selections[i]
  BY <1>1, RetainedFound
<1>3. ASSUME NEW l \in DOMAIN payload
      PROVE  Held(Retained, l)
  <2>1. {payload[m].id : m \in DOMAIN payload} = {before[i].id : i \in DOMAIN before}
    BY DEF OnlyReordered
  <2>2. PICK i \in DOMAIN before : payload[l].id = before[i].id
    <3>1. payload[l].id \in {payload[m].id : m \in DOMAIN payload}
      OBVIOUS
    <3>2. QED
      BY <2>1, <3>1
  <2>3. selections[i].id = before[i].id
    BY <1>1 DEF Progress, Done
  <2>4. PICK n \in DOMAIN Retained : Retained[n] = selections[i]
    BY <1>2
  <2>5. Retained[n].location \in DOMAIN payload /\ payload[Retained[n].location].id = payload[l].id
    BY <1>2, <2>2, <2>3, <2>4 DEF BoundTo
  <2>6. Retained[n].location = l
    BY <2>5 DEF OnlyReordered
  <2>7. QED
    BY <2>6 DEF Held
<1>4. Intruding(Retained) = {}
  BY <1>3 DEF Intruding
<1>5. \A n \in DOMAIN ys : BoundTo(ys[n], payload)
  BY <1>1, <1>2, IntroducedFound
<1>6. ~SharedIdentity(ys)
  <2>1. \A l, m \in DOMAIN payload : payload[l].id = payload[m].id => l = m
    BY DEF OnlyReordered
  <2> HIDE DEF ys
  <2>2. QED
    BY <1>5, <2>1, NoneShared
<1>7. QED
  BY <1>4, <1>6

\* What is kept holds when what a callback returned is accepted, or refused.
LEMMA KeptSettleCalled ==
  ASSUME Typing, Kept, SettleCalled
  PROVE  Kept'
<1>1. CASE Refuse
  <2>1. /\ phase = "reconcile" /\ todo = {} /\ stage = "called"
        /\ SharedIdentity(WithIntroduced(Retained)) \/ Intruding(Retained) # {}
    BY <1>1 DEF SettleCalled, Refuse, GoOn
  <2>2. ~OnlyReordered
    BY <2>1, ReorderedSettled
  <2>3. QED
    BY <1>1, <2>2, KeptRefuse
<1>2. CASE ~Refuse
  <2>1. Consistent(WithIntroduced(Retained), payload)
    BY <1>2, CalledConsistent
  <2>2. /\ selections' = WithIntroduced(Retained) /\ before' = <<>> /\ phase' = "convert"
        /\ UNCHANGED payload
    BY <1>2, SettleCalledMeans DEF GoOn
  <2>3. Consistent(selections', payload')
    BY <2>1, <2>2
  <2>4. Consistent(selections, payload)'
    BY <2>3, ConsistentNext
  <2>5. Sound(payload)'
    BY <2>2, SoundNext DEF Kept
  <2>6. QED
    BY <2>2, <2>4, <2>5 DEF Kept, Settled
<1>3. QED
  BY <1>1, <1>2

\* What is kept holds at first.
LEMMA KeptInit ==
  ASSUME Init
  PROVE  Kept
<1>1. payload = <<>> /\ phase = "idle"
  BY DEF Init
<1>2. DOMAIN payload = {}
  BY <1>1, EmptySeq
<1>3. Sound(payload)
  BY <1>2 DEF Sound
<1>4. QED
  BY <1>1, <1>3 DEF Kept, Settled

\* What is kept does not depend on anything else.
LEMMA KeptStutter ==
  ASSUME Typing, Kept, UNCHANGED vars
  PROVE  Kept'
<1>1. /\ UNCHANGED <<target, at, phase, stage, payload, selections, before, todo, replaced, edits>>
  BY DEF vars
<1>2. Sound(payload)'
  BY <1>1, SoundNext DEF Kept
<1>3. Settled' = Settled /\ Ahead' = Ahead /\ Goal' = Goal
  BY <1>1 DEF Settled, Ahead, Goal
<1>4. Settled => Consistent(selections, payload)'
  <2>1. Settled => Consistent(selections', payload')
    BY <1>1 DEF Kept
  <2>2. QED
    BY <2>1, ConsistentNext
<1>5. phase = "callback" => Given(selections, payload, Ahead)'
  <2>1. phase = "callback" => Given(selections', payload', Ahead)
    BY <1>1 DEF Kept
  <2>2. QED
    BY <1>3, <2>1, GivenNext
<1>6. phase = "reconcile" /\ stage # "called" => Converting'
  <2>1. SUFFICES ASSUME Converting
                 PROVE  Converting'
    BY DEF Kept
  <2>2. Consistent(before', payload')
    BY <1>1, <2>1 DEF Converting
  <2>3. Consistent(before, payload)'
    BY <2>2 DEF Consistent, BoundTo, Distinct, Belonging, Covered, Held, Occurrences, Arm, ToSet, SiteOf
  <2>4. QED
    BY <1>1, <1>3, <2>1, <2>3 DEF Converting, Object
<1>7. phase = "reconcile" /\ stage = "called" => Given(before, payload, Ahead)' /\ Progress'
  <2>1. SUFFICES ASSUME Given(before, payload, Ahead), Progress
                 PROVE  Given(before, payload, Ahead)' /\ Progress'
    BY DEF Kept
  <2>2. Given(before', payload', Ahead)
    BY <1>1, <2>1
  <2>3. Given(before, payload, Ahead)'
    BY <1>3, <2>2 DEF Given, Distinct, Belonging, Held, Subtree, Arm, ToSet, SiteOf, Object
  <2>4. \A i \in DOMAIN before : (Done(i)' <=> Done(i)) /\ (Live(i)' <=> Live(i))
    BY <1>1 DEF Done, Live, HasReplacedAncestor, GroupOf, SiteOf
  <2>5. \A i \in DOMAIN before : Done(i)' /\ Live(i)' => Placed(i)'
    BY <1>1, <2>1, <2>4, PlacedNext DEF Progress
  <2>6. OnlyReordered' <=> OnlyReordered
    BY <1>1, ReorderedNext
  <2>7. \A i \in replaced : Done(i)' /\ Live(i)'
    BY <2>1, <2>4 DEF Progress, Typing
  <2>8. \A i, j \in DOMAIN before :
          Done(i)' /\ Live(i)' /\ Done(j)' /\ Live(j)'
            /\ selections[i].location = selections[j].location => i = j
    BY <2>1, <2>4 DEF Progress
  <2>9. \A i, j \in DOMAIN before :
          Done(i)' /\ ~Done(j)' => Len(before[i].location) <= Len(before[j].location)
    BY <2>1, <2>4 DEF Progress
  <2>10. /\ \A i \in DOMAIN before : ~Done(i)' => selections[i] = before[i]
         /\ OnlyReordered => /\ replaced = {}
                             /\ \A i \in DOMAIN before : Done(i)' => selections[i].id = before[i].id
    BY <2>1, <2>4 DEF Progress
  <2>11. Progress'
    BY <1>1, <2>5, <2>6, <2>7, <2>8, <2>9, <2>10 DEF Progress
  <2>12. QED
    BY <2>3, <2>11
<1>8. OnlyReordered' <=> OnlyReordered
  BY <1>1, ReorderedNext
<1>9. QED
  BY <1>1, <1>2, <1>3, <1>4, <1>5, <1>6, <1>7, <1>8 DEF Kept

-----------------------------------------------------------------------------
(* What holds when the callbacks of embedded owners leave the values in them in place. *)

\* What is kept is kept by every step.
LEMMA KeptNext ==
  ASSUME OwnerEdits = {}, Typing, Kept, [Next]_vars
  PROVE  Kept'
<1>1. ASSUME NEW d \in Documents, NEW from \in Labels, NEW to \in Labels, Begin(d, from, to)
      PROVE  Kept'
  BY <1>1, KeptBegin
<1>2. CASE Convert
  BY <1>2, KeptConvert
<1>3. CASE ReconcileGroup
  BY <1>3, KeptReconcileGroup
<1>4. CASE SettleConverted
  BY <1>4, KeptSettleConverted
<1>5. CASE SettleCalled
  BY <1>5, KeptSettleCalled
<1>6. CASE Project
  BY <1>6, KeptProject
<1>7. CASE CallbackStep
  BY <1>7, KeptCallback
<1>8. CASE UNCHANGED vars
  BY <1>8, KeptStutter
<1>9. QED
  BY <1>1, <1>2, <1>3, <1>4, <1>5, <1>6, <1>7, <1>8 DEF Next

\* So it is invariant.
LEMMA KeptInvariant ==
  ASSUME OwnerEdits = {}
  PROVE  Spec => [](Typing /\ Kept)
<1>1. Init => Typing /\ Kept
  BY TypingInit, KeptInit
<1>2. Typing /\ Kept /\ [Next]_vars => (Typing /\ Kept)'
  BY TypingNext, KeptNext
<1>3. QED
  BY <1>1, <1>2, PTL DEF Spec

\* What a selection says of its value is so, its family, its label and which object it is,
\* and no value has two selections, whatever the sites and their families, and whatever
\* callbacks of the root family did (_runtime_decorators.py:777-1035).
THEOREM SelectionsHold ==
  ASSUME OwnerEdits = {}
  PROVE  Spec => []RightlyBound
<1>1. Kept => RightlyBound
  BY DEF Kept, Consistent, BoundTo, Distinct, RightlyBound
<1>2. QED
  BY <1>1, KeptInvariant, PTL

\* Every occurrence of a decorated family is selected, at any depth, also within a model
\* that a callback introduced (_runtime_decorators.py:1068-1174).
THEOREM OccurrencesSelected ==
  ASSUME OwnerEdits = {}
  PROVE  Spec => []NoneOverlooked
<1>1. Kept => NoneOverlooked
  <2>1. SUFFICES ASSUME Kept, Settled, NEW l \in Occurrences(payload)
                 PROVE  SelectedAt(l) # {}
    BY DEF NoneOverlooked
  <2>2. l \in DOMAIN payload
    BY DEF Occurrences
  <2>3. Held(selections, l)
    BY <2>1, <2>2 DEF Kept, Consistent, Covered
  <2>4. QED
    BY <2>3, HeldSelected
<1>2. QED
  BY <1>1, KeptInvariant, PTL

\* A conversion that ends has converted every value, by the family it follows, to the
\* label asked for (_runtime.py:812-930).
THEOREM OccurrencesDelivered ==
  ASSUME OwnerEdits = {}
  PROVE  Spec => []Delivered
<1>1. Kept => Delivered
  BY DEF Kept, Sound, Delivered
<1>2. QED
  BY <1>1, KeptInvariant, PTL

\* A callback that only changes the order of values at their sites is not refused, nor is
\* one that changes nothing (_runtime_decorators.py:876-900).
THEOREM ReordersPass ==
  ASSUME OwnerEdits = {}
  PROVE  Spec => []ReordersAccepted
<1>1. Kept => ReordersAccepted
  BY DEF Kept, ReordersAccepted
<1>2. QED
  BY <1>1, KeptInvariant, PTL

\* What KeptApart says of occurrence l.
Apart(l) ==
  /\ \A m \in Occurrences(payload) : payload[m].id = payload[l].id => m = l
  /\ \A i \in DOMAIN before : Identified(i, l) /\ ~payload[l].instance =>
       /\ SiteOf(before[i].location) = SiteOf(l)
       /\ \A j \in OwnerOf(i) : selections[j].location = Front(l)

\* What a conversion leaves is apart.
LEMMA ConvertedApart ==
  ASSUME Converting, NEW l \in Occurrences(payload)
  PROVE  Apart(l)
<1>1. /\ \A m \in DOMAIN payload : payload[m].id = Object(m, 0)
      /\ \A i \in DOMAIN before : BoundTo(before[i], payload)
      /\ selections = before
  BY DEF Converting, Consistent
<1>2. \A m : Object(m, 0).place = m
  BY DEF Object
<1>3. \A m \in Occurrences(payload) : m \in DOMAIN payload
  BY DEF Occurrences
<1>4. \A m \in Occurrences(payload) : payload[m].id = payload[l].id => m = l
  BY <1>1, <1>2, <1>3
<1>5. ASSUME NEW i \in DOMAIN before, Identified(i, l)
      PROVE  before[i].location = l
  BY <1>1, <1>2, <1>3, <1>5 DEF Identified, BoundTo
<1>6. QED
  BY <1>1, <1>4, <1>5 DEF Apart, OwnerOf

\* What is accepted after a callback is apart.
LEMMA CalledApart ==
  ASSUME Typing, Kept, SettleCalled, ~Refuse, NEW l \in Occurrences(payload)
  PROVE  Apart(l)
<1> DEFINE ys == WithIntroduced(Retained)
<1>1. /\ phase = "reconcile" /\ todo = {} /\ stage = "called" /\ ~SharedIdentity(ys)
  BY SettleCalledMeans
<1>2. /\ Given(before, payload, Ahead) /\ Progress /\ Sound(payload) /\ WellTyped(payload)
      /\ selections \in Seq(SelectionType) /\ before \in Seq(SelectionType)
      /\ Len(selections) = Len(before)
  BY <1>1 DEF Kept, Typing
<1>3. Consistent(ys, payload)
  BY CalledConsistent
<1>4. /\ Retained \in Seq(SelectionType) /\ Distinct(Retained) /\ Belonging(Retained)
      /\ \A n \in DOMAIN Retained : BoundTo(Retained[n], payload)
  BY <1>1, <1>2, RetainedFound
<1>5. \A m : Held(ys, m) <=> Held(Retained, m) \/ m \in Introduced(Retained)
  BY <1>2, <1>4, IntroducedFound
<1> HIDE DEF ys
<1>6. ASSUME NEW m \in Occurrences(payload)
      PROVE  m \in DOMAIN payload /\ Held(ys, m)
  BY <1>3 DEF Occurrences, Consistent, Covered
<1>7. ASSUME NEW m \in Occurrences(payload), payload[m].id = payload[l].id
      PROVE  m = l
  <2>1. PICK i \in DOMAIN ys : ys[i].location = m
    BY <1>6 DEF Held
  <2>2. PICK j \in DOMAIN ys : ys[j].location = l
    BY <1>6 DEF Held
  <2>3. ys[i].id = payload[m].id /\ ys[j].id = payload[l].id
    BY <1>3, <2>1, <2>2 DEF Consistent, BoundTo
  <2>4. payload[l].id # NoObject
    BY <1>2, <1>6 DEF Sound
  <2>5. QED
    BY <1>1, <1>7, <2>1, <2>2, <2>3, <2>4 DEF SharedIdentity
<1>8. ASSUME NEW i \in DOMAIN before, Identified(i, l), ~payload[l].instance
      PROVE  /\ SiteOf(before[i].location) = SiteOf(l)
             /\ \A j \in OwnerOf(i) : selections[j].location = Front(l)
  <2>1. l \notin Introduced(Retained)
    <3>1. \A m \in Introduced(Retained) : Typed(m)
      BY <1>2, <1>4, IntroducedTyped
    <3>2. QED
      BY <1>8, <3>1 DEF Typed
  <2>2. PICK n \in DOMAIN Retained : Retained[n].location = l
    BY <1>5, <1>6, <2>1 DEF Held
  <2>3. \A x \in DOMAIN Retained : \E k \in DOMAIN selections :
          ~HasReplacedAncestor(k) /\ Retained[x] = selections[k]
    BY <1>2, RetainedSeq
  <2>4. DOMAIN selections = DOMAIN before
    BY <1>2, LenProperties
  <2>5. PICK k \in DOMAIN before : Live(k) /\ selections[k].location = l
    BY <2>2, <2>3, <2>4 DEF Live
  <2>6. Placed(k)
    BY <1>1, <1>2, <2>5 DEF Progress, Done
  <2>7. GroupOf(before[i]) = GroupOf(before[k])
    BY <1>8, <2>5, <2>6 DEF Placed
  <2>8. Front(before[i].location) = Front(before[k].location)
        /\ SiteOf(before[i].location) = SiteOf(before[k].location)
    BY <2>7 DEF GroupOf
  <2>9. SiteOf(before[i].location) = SiteOf(l)
    BY <2>5, <2>6, <2>8 DEF Placed
  <2>10. ASSUME NEW j \in OwnerOf(i)
         PROVE  selections[j].location = Front(l)
    <3>1. j \in DOMAIN before /\ before[j].location = Front(before[k].location)
      BY <2>8 DEF OwnerOf
    <3>2. before[j].location # <<>>
      BY <1>2, <3>1 DEF Given, Belonging
    <3>3. PICK x \in DOMAIN before : /\ before[x].location = Front(before[k].location)
                                     /\ selections[x].location = Front(selections[k].location)
      BY <2>6, <3>1, <3>2 DEF Placed
    <3>4. x = j
      BY <1>2, <3>1, <3>3 DEF Given, Distinct
    <3>5. QED
      BY <2>5, <3>3, <3>4
  <2>11. QED
    BY <2>9, <2>10
<1>9. QED
  BY <1>7, <1>8 DEF Apart

\* What is accepted is accepted when all is reconciled.
LEMMA AcceptedWhen ==
  ASSUME Typing, [Next]_vars, Accepted
  PROVE  ~Refuse /\ (SettleConverted \/ SettleCalled)
<1>1. phase = "reconcile" /\ phase' # "reconcile" /\ phase' # "refused"
  BY DEF Accepted
<1>2. ~Refuse
  BY <1>1 DEF Refuse
<1>3. ~UNCHANGED vars
  BY <1>1 DEF vars
<1>4. ~Convert /\ ~Project /\ \A d, from, to : ~Begin(d, from, to)
  BY <1>1 DEF Convert, Project, Begin
<1>5. ~ReconcileGroup
  BY <1>1 DEF ReconcileGroup, Refuse
<1>6. ~CallbackStep
  <2>1. ASSUME CallbackStep
        PROVE  phase = "callback"
    <3>1. CASE Return
      BY <3>1 DEF Return
    <3>2. CASE \E p : Edited(p)
      BY <3>2 DEF Edited, Edit
    <3>3. QED
      BY <2>1, <3>1, <3>2, CallbackMeans
  <2>2. QED
    BY <1>1, <2>1
<1>7. QED
  BY <1>2, <1>3, <1>4, <1>5, <1>6 DEF Next

\* What a callback returned is not accepted if one object is in two places, or if a mapping
\* that was known is now at another site or in another owner, at any depth
\* (_runtime_decorators.py:849-857, 885-890, 1050-1065).
THEOREM ObjectsKeptApart ==
  ASSUME OwnerEdits = {}
  PROVE  Spec => KeptApart
<1>1. ASSUME Typing, Kept, [Next]_vars, Accepted, NEW l \in Occurrences(payload)
      PROVE  Apart(l)
  <2>1. ~Refuse /\ (SettleConverted \/ SettleCalled)
    BY <1>1, AcceptedWhen
  <2>2. CASE SettleConverted
    <3>1. Converting
      BY <1>1, <2>2 DEF SettleConverted, Kept
    <3>2. QED
      BY <3>1, ConvertedApart
  <2>3. CASE SettleCalled
    BY <1>1, <2>1, <2>3, CalledApart
  <2>4. QED
    BY <2>1, <2>2, <2>3
<1>2. Typing /\ Kept /\ [Next]_vars =>
        [Accepted => \A l \in Occurrences(payload) :
           /\ \A m \in Occurrences(payload) : payload[m].id = payload[l].id => m = l
           /\ \A i \in DOMAIN before : Identified(i, l) /\ ~payload[l].instance =>
                /\ SiteOf(before[i].location) = SiteOf(l)
                /\ \A j \in OwnerOf(i) : selections[j].location = Front(l)]_vars
  BY <1>1 DEF Apart
<1>3. QED
  BY <1>2, KeptInvariant, PTL DEF Spec, KeptApart
=============================================================================
