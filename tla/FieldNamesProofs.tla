--------------------------- MODULE FieldNamesProofs ---------------------------
(***************************************************************************)
(* Proofs about FieldNames, for any fields and names, any history of       *)
(* patches, any aliases that belong to one field each, and any callbacks.  *)
(***************************************************************************)
EXTENDS FieldNames, TLAPS, WellFoundedInduction

\* A callback may use aliases of f.
Usable(f) ==
  family.byAlias /\ (kind = "dump" => f \in WireFields(version) \ Renamed(version))

Shape == TypeOK /\ Compiles /\ (phase = "normalise" => todo \subseteq Planned)

\* A field is held at its name or at one alias, and an alias counts where the name is not.
Held(f) ==
  /\ \A m, n \in Mapped(f) \cap DOMAIN payload : m = n
  /\ ~Usable(f) => Mapped(f) \cap DOMAIN payload = {}
  /\ f \in DOMAIN payload => payload[f] = meant[f]
  /\ f \notin DOMAIN payload => \A n \in Mapped(f) \cap DOMAIN payload : payload[n] = meant[f]
  /\ Places(f) \cap DOMAIN payload = {} => meant[f] = Unset

\* Once normalised, a field is not held in both ways.
OneWay(f) ==
  phase = "normalise" /\ f \notin todo => f \notin DOMAIN payload \/ Mapped(f) \cap DOMAIN payload = {}

\* What is held by no field belongs to no field of the wire model either.
Foreign ==
  \A n \in DOMAIN payload :
    \/ \E f \in Fields : n \in Places(f)
    \/ \A f \in WireFields(version) : n \notin WirePlaces(f, version)

\* The value of a field of a model is at that field, unless it is excluded.
Tagged ==
  kind = "dump" =>
    /\ \A n \in DOMAIN payload : payload[n] \in Names => payload[n] = n /\ n \in Fields \ family.excluded
    /\ \A f \in Fields : meant[f] \in Names => meant[f] = f

\* The inductive invariant.
Inv ==
  /\ Shape
  /\ Unambiguous /\ phase \in {"canonical", "normalise"} =>
       /\ \A f \in Fields : Held(f) /\ OneWay(f)
       /\ Foreign /\ Tagged
  /\ ValidatedAsMeant /\ RenderedAsMeant

-----------------------------------------------------------------------------
(* Families. *)

\* Families are well formed.
LEMMA FamilyShape ==
  ASSUME Shape, NEW f \in Fields
  PROVE  /\ f \in Names
         /\ family.aliases[f] \in Seq(Names) /\ Distinct(family.aliases[f])
         /\ Elements(family.aliases[f]) \subseteq Names
         /\ Mapped(f) \subseteq Names /\ Mapped(f) \subseteq Places(f)
  BY NamesAssumption DEF Shape, TypeOK, Family, Elements, Mapped, Places

\* No alias of a field is another field, or an alias of another field.
LEMMA Apart ==
  ASSUME Unambiguous, NEW f \in Fields, NEW g \in Fields, f # g
  PROVE  f \notin Places(g) /\ Mapped(f) \cap Places(g) = {} /\ Mapped(f) \cap Fields = {}
<1>1. \A h \in Fields : h \in Places(h)
  BY DEF Places
<1>2. Mapped(f) \subseteq Places(f) /\ f \notin Mapped(f)
  BY DEF Mapped, Places
<1>3. \A h \in Fields \ {f} : Places(f) \cap Places(h) = {}
  BY DEF Unambiguous
<1>4. QED
  BY <1>1, <1>2, <1>3

\* The only alias that is present is the first that is present.
LEMMA OnlyPresent ==
  ASSUME NEW aliases \in Seq(Names), Distinct(aliases), NEW p, NEW n,
         n \in Elements(aliases) \cap DOMAIN p,
         \A m \in Elements(aliases) \cap DOMAIN p : m = n
  PROVE  Present(aliases, p) # {} /\ aliases[First(Present(aliases, p))] = n
<1>1. PICK i \in DOMAIN aliases : aliases[i] = n
  BY DEF Elements
<1>2. Present(aliases, p) = {i}
  BY <1>1 DEF Present, Elements, Distinct
<1>3. i \in Nat
  BY <1>1
<1>4. First(Present(aliases, p)) = i
  BY <1>2, <1>3 DEF First
<1>5. QED
  BY <1>1, <1>2, <1>4

\* No alias is present.
LEMMA NonePresent ==
  ASSUME NEW aliases, NEW p, Elements(aliases) \cap DOMAIN p = {}
  PROVE  Present(aliases, p) = {}
  BY DEF Present, Elements

\* p holds v at a name or at one of its aliases, and nothing if v is the default.
HoldsOneWay(p, aliases, name, v, default) ==
  LET other == Elements(aliases) \ {name}
  IN /\ \A m, n \in other \cap DOMAIN p : m = n
     /\ ~family.byAlias => other \cap DOMAIN p = {}
     /\ name \notin DOMAIN p \/ other \cap DOMAIN p = {}
     /\ name \in DOMAIN p => p[name] = v
     /\ \A n \in other \cap DOMAIN p : p[n] = v
     /\ ({name} \cup other) \cap DOMAIN p = {} => v = default

\* Pydantic reads what a field is held with, once it is held in one way.
LEMMA ReadsHeld ==
  ASSUME NEW f \in Names, NEW p, NEW v, NEW default, NEW aliases \in Seq(Names),
         Distinct(aliases), DOMAIN p \subseteq Names, HoldsOneWay(p, aliases, f, v, default)
  PROVE  /\ Taken(p, PayloadKey(p, aliases, f), default) = v
         /\ PayloadKey(p, aliases, f) \in DOMAIN p \cup {Absent}
         /\ ({f} \cup Elements(aliases)) \cap DOMAIN p \subseteq {PayloadKey(p, aliases, f)}
<1> DEFINE M == Elements(aliases) \ {f}
<1>0. /\ \A m, n \in M \cap DOMAIN p : m = n
      /\ ~family.byAlias => M \cap DOMAIN p = {}
      /\ f \notin DOMAIN p \/ M \cap DOMAIN p = {}
      /\ f \in DOMAIN p => p[f] = v
      /\ \A n \in M \cap DOMAIN p : p[n] = v
      /\ ({f} \cup M) \cap DOMAIN p = {} => v = default
  BY DEF HoldsOneWay
<1> DEFINE key == PayloadKey(p, aliases, f)
<1>1. Absent \notin DOMAIN p
  BY NamesAssumption DEF Absent
<1>2. CASE f \in DOMAIN p
  <2>1. M \cap DOMAIN p = {}
    BY <1>0, <1>2
  <2>2. \A m \in Elements(aliases) \cap DOMAIN p : m = f
    BY <2>1
  <2>3. key = f
    <3>1. CASE f \in Elements(aliases)
      BY <1>2, <2>2, <3>1, OnlyPresent DEF PayloadKey, Key
    <3>2. CASE f \notin Elements(aliases)
      BY <1>2, <2>2, <3>2, NonePresent DEF PayloadKey, Key
    <3>3. QED
      BY <3>1, <3>2
  <2>4. QED
    BY <1>0, <1>2, <2>1, <2>3 DEF Taken
<1>3. CASE f \notin DOMAIN p /\ M \cap DOMAIN p # {}
  <2>1. PICK n \in M \cap DOMAIN p : TRUE
    BY <1>0, <1>3
  <2>2. \A m \in Elements(aliases) \cap DOMAIN p : m = n
    BY <1>0, <1>3, <2>1
  <2>3. family.byAlias
    BY <1>0, <1>3
  <2>4. Present(aliases, p) # {} /\ aliases[First(Present(aliases, p))] = n
    BY <2>1, <2>2, OnlyPresent
  <2>5. key = n
    BY <2>3, <2>4 DEF PayloadKey, Key
  <2>6. QED
    BY <1>0, <1>3, <2>1, <2>2, <2>5 DEF Taken
<1>4. CASE f \notin DOMAIN p /\ M \cap DOMAIN p = {}
  <2>1. Present(aliases, p) = {}
    BY <1>4, NonePresent
  <2>2. key = Absent
    BY <1>4, <2>1 DEF PayloadKey, Key
  <2>3. QED
    BY <1>0, <1>1, <1>4, <2>2 DEF Taken
<1>5. QED
  BY <1>2, <1>3, <1>4

-----------------------------------------------------------------------------
(* Names of a version. *)

\* What is compiled does not change.
LEMMA Fixed ==
  ASSUME UNCHANGED <<family, kind, version>>
  PROVE  /\ Unambiguous' = Unambiguous /\ Compiles' = Compiles /\ Current' = Current
         /\ WireFields(version)' = WireFields(version)
         /\ Renamed(version)' = Renamed(version)
         /\ Removed(version)' = Removed(version) /\ Planned' = Planned
         /\ \A f \in Fields :
              /\ Mapped(f)' = Mapped(f) /\ Places(f)' = Places(f) /\ Usable(f)' = Usable(f)
              /\ WirePlaces(f, version)' = WirePlaces(f, version)
              /\ WireOut(f, version)' = WireOut(f, version)
              /\ WireDefault(f, version)' = WireDefault(f, version)
  BY DEF Unambiguous, Compiles, OwnNames, OwnOutputs, Introducible, Current, WireFields, Renamed, Removed, PatchOf, VersionName,
         IntroducedAt, Mapped, Planned, Places, Usable, WirePlaces, WireAliases, WireOut, WireDefault

\* Fields of a version have names of their own.
LEMMA OwnName ==
  ASSUME Shape, NEW f \in Fields \ Removed(version), NEW g \in Fields \ Removed(version),
         VersionName(f, version) = VersionName(g, version)
  PROVE  f = g
  BY DEF Shape, TypeOK, Compiles, OwnNames

\* Only renamed fields have another name.
LEMMA OtherName ==
  /\ Renamed(version) \subseteq Fields \ Removed(version)
  /\ WireFields(version) \subseteq Fields \ Removed(version)
  /\ \A f \in Fields \ (Removed(version) \cup Renamed(version)) : VersionName(f, version) = f
  /\ \A f \in Renamed(version) : WireAliases(f, version) = <<>>
  /\ \A f \in Fields \ Renamed(version) : WireAliases(f, version) = family.aliases[f]
  BY DEF Renamed, WireFields, WireAliases

\* Renaming the fields of a document gives each its current name.
LEMMA RenamedBack ==
  ASSUME Shape, NEW w, NEW m,
         DOMAIN w = {VersionName(f, version) : f \in WireFields(version)},
         \A f \in WireFields(version) : w[VersionName(f, version)] = m[f]
  PROVE  /\ DOMAIN ToCurrentNames(w) = WireFields(version)
         /\ \A f \in WireFields(version) : ToCurrentNames(w)[f] = m[f]
<1> DEFINE R == Renamed(version)
           moved == {f \in R : VersionName(f, version) \in DOMAIN w}
           keys == (DOMAIN w \ {VersionName(f, version) : f \in R}) \cup moved
<1>1. moved = R \cap WireFields(version)
  <2>1. ASSUME NEW f \in moved PROVE f \in WireFields(version)
    <3>1. PICK g \in WireFields(version) : VersionName(f, version) = VersionName(g, version)
      OBVIOUS
    <3>2. f = g
      BY <3>1, OwnName, OtherName
    <3>3. QED
      BY <3>2
  <2>2. QED
    BY <2>1
<1>2. DOMAIN w \ {VersionName(f, version) : f \in R} = WireFields(version) \ R
  <2>1. ASSUME NEW f \in WireFields(version) \ R
        PROVE  f \in DOMAIN w \ {VersionName(g, version) : g \in R}
    <3>1. VersionName(f, version) = f
      BY OtherName
    <3>2. \A g \in R : VersionName(g, version) # f
      BY <3>1, OwnName, OtherName
    <3>3. QED
      BY <3>1, <3>2
  <2>2. ASSUME NEW n \in DOMAIN w \ {VersionName(g, version) : g \in R}
        PROVE  n \in WireFields(version) \ R
    <3>1. PICK f \in WireFields(version) : n = VersionName(f, version)
      OBVIOUS
    <3>2. f \notin R
      BY <3>1
    <3>3. QED
      BY <3>1, <3>2, OtherName
  <2>3. QED
    BY <2>1, <2>2
<1>3. ToCurrentNames(w) = [n \in keys |-> IF n \in moved THEN w[VersionName(n, version)] ELSE w[n]]
  BY DEF ToCurrentNames
<1>4. DOMAIN ToCurrentNames(w) = WireFields(version)
  BY <1>1, <1>2, <1>3
<1>5. ASSUME NEW f \in WireFields(version) PROVE ToCurrentNames(w)[f] = m[f]
  <2>1. f \in keys
    BY <1>1, <1>2
  <2>2. CASE f \in R
    BY <1>1, <1>3, <2>1, <2>2
  <2>3. CASE f \notin R
    <3>1. VersionName(f, version) = f
      BY <2>3, OtherName
    <3>2. QED
      BY <1>1, <1>3, <2>1, <2>3, <3>1
  <2>4. QED
    BY <2>2, <2>3
<1>6. QED
  BY <1>4, <1>5

\* The payload that a conversion begins with holds fields at their names only.
LEMMA Canonical ==
  ASSUME Shape, UNCHANGED <<family, kind, version>>, phase' = "canonical",
         NEW F \in SUBSET Fields, DOMAIN payload' = F,
         \A f \in F : payload'[f] = meant'[f],
         \A f \in Fields \ F : meant'[f] = Unset
  PROVE  Unambiguous' => /\ \A f \in Fields : Held(f)' /\ OneWay(f)'
                         /\ Foreign'
<1> SUFFICES ASSUME Unambiguous PROVE (\A f \in Fields : Held(f)' /\ OneWay(f)') /\ Foreign'
  BY Fixed
<1>1. \A f \in Fields : Mapped(f) \cap Fields = {}
  <2>1. ASSUME NEW f \in Fields, NEW g \in Fields, g \in Mapped(f) PROVE FALSE
    BY <2>1, Apart DEF Mapped, Places
  <2>2. QED
    BY <2>1
<1>2. \A f \in Fields : f \in Places(f) /\ Places(f) = {f} \cup Mapped(f)
  BY DEF Places, Mapped
<1>3. \A f \in Fields : Held(f)'
  BY <1>1, <1>2, Fixed DEF Held
<1>4. \A f \in Fields : OneWay(f)'
  BY DEF OneWay
<1>5. Foreign'
  BY <1>2, Fixed DEF Foreign
<1>6. QED
  BY <1>3, <1>4, <1>5

-----------------------------------------------------------------------------
(* Steps. *)

\* A document is read.
LEMMA ReadDocumentStep == Inv /\ ReadDocument => Inv'
<1> SUFFICES ASSUME Inv, ReadDocument PROVE Inv'
  OBVIOUS
<1> DEFINE WF == WireFields(version)
           names == {VersionName(f, version) : f \in WF}
<1>1. Shape
  BY DEF Inv
<1>2. PICK D \in SUBSET Names : \E p \in {[n \in D |-> n]} :
      \E key \in {[f \in WireFields(version) |-> DocumentKey(f, p)]} :
        /\ ~Refused(p, key, WireRequired(version))
        /\ meant' = [f \in Fields |-> IF f \in WireFields(version)
                                      THEN Taken(p, key[f], WireDefault(f, version)) ELSE Unset]
        /\ \E w \in {[n \in {VersionName(f, version) : f \in WireFields(version)} |->
                        meant'[CHOOSE f \in WireFields(version) : VersionName(f, version) = n]]} :
             payload' = ToCurrentNames(w)
  BY DEF ReadDocument
<1>3. PICK p \in {[n \in D |-> n]} :
      \E key \in {[f \in WireFields(version) |-> DocumentKey(f, p)]} :
        /\ meant' = [f \in Fields |-> IF f \in WireFields(version)
                                      THEN Taken(p, key[f], WireDefault(f, version)) ELSE Unset]
        /\ \E w \in {[n \in {VersionName(f, version) : f \in WireFields(version)} |->
                        meant'[CHOOSE f \in WireFields(version) : VersionName(f, version) = n]]} :
             payload' = ToCurrentNames(w)
  BY <1>2
<1> DEFINE wire == [n \in names |-> meant'[CHOOSE f \in WF : VersionName(f, version) = n]]
<1>4. payload' = ToCurrentNames(wire)
  BY <1>3
<1>5. PICK key :
        meant' = [f \in Fields |-> IF f \in WF
                                   THEN Taken(p, key[f], WireDefault(f, version)) ELSE Unset]
  BY <1>3
<1>6. DOMAIN p \subseteq Names /\ \A n \in DOMAIN p : p[n] \in Names
  OBVIOUS
<1>7. UNCHANGED <<family, kind, version, todo, result>> /\ kind = "validate" /\ phase' = "canonical"
  BY DEF ReadDocument
<1>8. WF \subseteq Fields
  BY DEF WireFields
<1>9. meant' \in [Fields -> Values \cup {Unset}]
  BY <1>5, <1>6 DEF Taken, WireDefault, Values
<1>10. \A f \in WF : meant'[f] \in Values
  BY <1>5, <1>6, <1>8 DEF Taken, WireDefault, Values
<1>11. \A f \in WF : wire[VersionName(f, version)] = meant'[f]
  <2>1. SUFFICES ASSUME NEW f \in WF PROVE wire[VersionName(f, version)] = meant'[f]
    OBVIOUS
  <2>2. \A g \in WF : VersionName(g, version) = VersionName(f, version) => g = f
    BY <1>1, OwnName, OtherName
  <2>3. (CHOOSE g \in WF : VersionName(g, version) = VersionName(f, version)) = f
    BY <2>2
  <2>4. QED
    BY <2>3
<1>12. DOMAIN payload' = WF /\ \A f \in WF : payload'[f] = meant'[f]
  <2>1. DOMAIN wire = {VersionName(f, version) : f \in WireFields(version)}
    OBVIOUS
  <2>2. payload' = ToCurrentNames(wire)
    BY <1>4
  <2> HIDE DEF wire
  <2>3. PICK m : m = meant'
    OBVIOUS
  <2>4. \A f \in WireFields(version) : wire[VersionName(f, version)] = m[f]
    BY <1>11, <2>3
  <2>5. /\ DOMAIN ToCurrentNames(wire) = WireFields(version)
        /\ \A f \in WireFields(version) : ToCurrentNames(wire)[f] = m[f]
    BY <1>1, <2>1, <2>4, RenamedBack
  <2>6. QED
    BY <2>2, <2>3, <2>5
<1>13. \A f \in Fields \ WF : meant'[f] = Unset
  BY <1>5
<1>14. Shape'
  BY <1>1, <1>7, <1>8, <1>9, <1>10, <1>12, Fixed, NamesAssumption DEF Shape, TypeOK
<1>15. Unambiguous' => (\A f \in Fields : Held(f)' /\ OneWay(f)') /\ Foreign'
  BY <1>1, <1>7, <1>8, <1>12, <1>13, Canonical
<1>16. Tagged'
  BY <1>7 DEF Tagged
<1>17. ValidatedAsMeant' /\ RenderedAsMeant'
  BY <1>7 DEF ValidatedAsMeant, RenderedAsMeant
<1>18. QED
  BY <1>14, <1>15, <1>16, <1>17 DEF Inv

\* A model is read.
LEMMA ReadModelStep == Inv /\ ReadModel => Inv'
<1> SUFFICES ASSUME Inv, ReadModel PROVE Inv'
  OBVIOUS
<1> DEFINE F == Fields \ family.excluded
<1>1. Shape
  BY DEF Inv
<1>2. /\ UNCHANGED <<family, kind, version, todo, result>> /\ kind = "dump" /\ phase' = "canonical"
      /\ payload' = [f \in F |-> f]
      /\ meant' = [f \in Fields |-> IF f \in family.excluded THEN Unset ELSE f]
  BY DEF ReadModel
<1>3. \A f \in F : payload'[f] = meant'[f]
  BY <1>2
<1>4. meant' \in [Fields -> Values \cup {Unset}]
  BY <1>2, NamesAssumption DEF Values
<1>5. Shape'
  BY <1>1, <1>2, <1>4, Fixed, NamesAssumption DEF Shape, TypeOK, Values
<1>6. Unambiguous' => (\A f \in Fields : Held(f)' /\ OneWay(f)') /\ Foreign'
  BY <1>1, <1>2, <1>3, Canonical
<1>7. Tagged'
  BY <1>2, NamesAssumption DEF Tagged, Unset
<1>8. ValidatedAsMeant' /\ RenderedAsMeant'
  BY <1>2 DEF ValidatedAsMeant, RenderedAsMeant
<1>9. QED
  BY <1>5, <1>6, <1>7, <1>8 DEF Inv

\* A field is held as before if its places are left alone.
LEMMA HeldStill ==
  ASSUME NEW g \in Fields, Held(g), UNCHANGED <<family, kind, version>>, meant'[g] = meant[g],
         Places(g) \cap DOMAIN payload' = Places(g) \cap DOMAIN payload,
         \A n \in Places(g) \cap DOMAIN payload : payload'[n] = payload[n]
  PROVE  Held(g)'
<1>1. Mapped(g) \subseteq Places(g) /\ g \in Places(g)
  BY DEF Mapped, Places
<1>2. Mapped(g)' = Mapped(g) /\ Places(g)' = Places(g) /\ Usable(g)' = Usable(g)
  BY Fixed
<1>3. Mapped(g) \cap DOMAIN payload' = Mapped(g) \cap DOMAIN payload
  BY <1>1
<1>4. \A n \in Mapped(g) \cap DOMAIN payload : payload'[n] = payload[n]
  BY <1>1
<1>5. g \in DOMAIN payload' <=> g \in DOMAIN payload
  BY <1>1
<1>6. g \in DOMAIN payload => payload'[g] = payload[g]
  BY <1>1
<1>7. QED
  BY <1>2, <1>3, <1>4, <1>5, <1>6 DEF Held

\* The keys that there are belong to a field or to none, as before.
LEMMA ForeignStill ==
  ASSUME UNCHANGED <<family, kind, version>>,
         \A n \in DOMAIN payload' :
           \/ \E f \in Fields : n \in Places(f)
           \/ \A f \in WireFields(version) : n \notin WirePlaces(f, version)
  PROVE  Foreign'
<1>1. WireFields(version) \subseteq Fields
  BY DEF WireFields
<1>2. \A f \in Fields : Places(f)' = Places(f) /\ WirePlaces(f, version)' = WirePlaces(f, version)
  BY Fixed
<1>3. WireFields(version)' = WireFields(version)
  BY Fixed
<1>4. QED
  BY <1>1, <1>2, <1>3 DEF Foreign

\* What a callback changes of the mapping is the place of one field or of none.
LEMMA CallbackInv ==
  ASSUME Inv, UNCHANGED <<family, kind, version, phase, todo, result>>, phase = "canonical",
         DOMAIN payload' \subseteq Names, \A n \in DOMAIN payload' : payload'[n] \in Values,
         meant' \in [Fields -> Values \cup {Unset}],
         Unambiguous => (\A f \in Fields : Held(f)') /\ Foreign' /\ Tagged'
  PROVE  Inv'
<1>1. Shape'
  BY Fixed DEF Inv, Shape, TypeOK
<1>2. \A f \in Fields : OneWay(f)'
  BY DEF OneWay
<1>3. ValidatedAsMeant' /\ RenderedAsMeant'
  BY DEF ValidatedAsMeant, RenderedAsMeant
<1>4. QED
  BY <1>1, <1>2, <1>3, Fixed DEF Inv

\* A field is supplied by its name.
LEMMA SupplyStep ==
  ASSUME Inv, Callback, NEW f \in Fields, Supply(f)
  PROVE  Inv'
<1>1. /\ UNCHANGED <<family, kind, version, phase, todo, result>> /\ phase = "canonical"
      /\ payload' = With(payload, f, "new") /\ meant' = [meant EXCEPT ![f] = "new"]
  BY DEF Callback, Supply
<1>2. /\ DOMAIN payload' = DOMAIN payload \cup {f} /\ payload'[f] = "new"
      /\ \A n \in DOMAIN payload \ {f} : payload'[n] = payload[n]
  BY <1>1 DEF With
<1>3. Shape /\ meant'[f] = "new" /\ (\A g \in Fields \ {f} : meant'[g] = meant[g])
  BY <1>1 DEF Inv, Shape, TypeOK
<1>4. DOMAIN payload' \subseteq Names /\ \A n \in DOMAIN payload' : payload'[n] \in Values
  BY <1>2, <1>3, NamesAssumption DEF Shape, TypeOK, Values
<1>5. meant' \in [Fields -> Values \cup {Unset}]
  BY <1>1, <1>3 DEF Shape, TypeOK, Values
<1>6. ASSUME Unambiguous PROVE (\A g \in Fields : Held(g)') /\ Foreign' /\ Tagged'
  <2>1. (\A g \in Fields : Held(g)) /\ Foreign /\ Tagged
    BY <1>1, <1>6 DEF Inv
  <2>2. Held(f)'
    <3>1. Mapped(f) \cap DOMAIN payload' = Mapped(f) \cap DOMAIN payload /\ f \in Places(f)
      BY <1>2 DEF Mapped, Places
    <3>2. f \in DOMAIN payload' /\ payload'[f] = meant'[f]
      BY <1>2, <1>3
    <3>3. QED
      BY <1>1, <2>1, <3>1, <3>2, Fixed DEF Held
  <2>3. ASSUME NEW g \in Fields \ {f} PROVE Held(g)'
    <3>1. f \notin Places(g)
      BY <1>6, Apart
    <3>2. QED
      BY <1>1, <1>2, <1>3, <2>1, <3>1, HeldStill
  <2>4. Foreign'
    <3>1. f \in Places(f)
      BY DEF Places
    <3>2. QED
      BY <1>1, <1>2, <2>1, <3>1, ForeignStill DEF Foreign
  <2>5. Tagged'
    BY <1>1, <1>2, <1>3, <2>1, NamesAssumption DEF Tagged
  <2>6. QED
    BY <2>2, <2>3, <2>4, <2>5
<1>7. QED
  BY <1>1, <1>4, <1>5, <1>6, CallbackInv

\* A field is supplied by an alias.
LEMMA SupplyAliasStep ==
  ASSUME Inv, Callback, NEW f \in Fields, NEW k \in Names, SupplyAlias(f, k)
  PROVE  Inv'
<1>1. /\ UNCHANGED <<family, kind, version, phase, todo, result>> /\ phase = "canonical"
      /\ payload' = With(payload, k, "alias") /\ meant' = [meant EXCEPT ![f] = "alias"]
      /\ Places(f) \cap DOMAIN payload = {} /\ k \in Places(f) /\ Usable(f)
  BY DEF Callback, SupplyAlias, Usable, Places
<1>2. /\ DOMAIN payload' = DOMAIN payload \cup {k} /\ payload'[k] = "alias"
      /\ \A n \in DOMAIN payload \ {k} : payload'[n] = payload[n]
  BY <1>1 DEF With
<1>3. Shape /\ meant'[f] = "alias" /\ (\A g \in Fields \ {f} : meant'[g] = meant[g])
  BY <1>1 DEF Inv, Shape, TypeOK
<1>4. DOMAIN payload' \subseteq Names /\ \A n \in DOMAIN payload' : payload'[n] \in Values
  BY <1>2, <1>3 DEF Shape, TypeOK, Values
<1>5. meant' \in [Fields -> Values \cup {Unset}]
  BY <1>1, <1>3 DEF Shape, TypeOK, Values
<1>6. ASSUME Unambiguous PROVE (\A g \in Fields : Held(g)') /\ Foreign' /\ Tagged'
  <2>1. (\A g \in Fields : Held(g)) /\ Foreign /\ Tagged
    BY <1>1, <1>6 DEF Inv
  <2>2. Held(f)'
    <3>1. Places(f) \cap DOMAIN payload' = {k} /\ Places(f) = {f} \cup Mapped(f)
      BY <1>1, <1>2 DEF Mapped, Places
    <3>2. payload'[k] = meant'[f]
      BY <1>2, <1>3
    <3>3. /\ Mapped(f) \cap DOMAIN payload' \subseteq {k}
          /\ f \in DOMAIN payload' => f = k
      BY <3>1
    <3>4. QED
      BY <1>1, <3>1, <3>2, <3>3, Fixed DEF Held
  <2>3. ASSUME NEW g \in Fields \ {f} PROVE Held(g)'
    <3>1. k \notin Places(g)
      BY <1>1, <1>6 DEF Unambiguous
    <3>2. QED
      BY <1>1, <1>2, <1>3, <2>1, <3>1, HeldStill
  <2>4. Foreign'
    BY <1>1, <1>2, <2>1, ForeignStill DEF Foreign
  <2>5. Tagged'
    BY <1>1, <1>2, <1>3, <2>1, NamesAssumption DEF Tagged
  <2>6. QED
    BY <2>2, <2>3, <2>4, <2>5
<1>7. QED
  BY <1>1, <1>4, <1>5, <1>6, CallbackInv

\* A field is dropped.
LEMMA DropStep ==
  ASSUME Inv, Callback, NEW f \in Fields, Drop(f)
  PROVE  Inv'
<1>1. /\ UNCHANGED <<family, kind, version, phase, todo, result>> /\ phase = "canonical"
      /\ payload' = Without(payload, Places(f)) /\ meant' = [meant EXCEPT ![f] = Unset]
  BY DEF Callback, Drop
<1>2. /\ DOMAIN payload' = DOMAIN payload \ Places(f)
      /\ \A n \in DOMAIN payload \ Places(f) : payload'[n] = payload[n]
  BY <1>1 DEF Without
<1>3. Shape /\ meant'[f] = Unset /\ (\A g \in Fields \ {f} : meant'[g] = meant[g])
  BY <1>1 DEF Inv, Shape, TypeOK
<1>4. DOMAIN payload' \subseteq Names /\ \A n \in DOMAIN payload' : payload'[n] \in Values
  BY <1>2, <1>3 DEF Shape, TypeOK
<1>5. meant' \in [Fields -> Values \cup {Unset}]
  BY <1>1, <1>3 DEF Shape, TypeOK
<1>6. ASSUME Unambiguous PROVE (\A g \in Fields : Held(g)') /\ Foreign' /\ Tagged'
  <2>1. (\A g \in Fields : Held(g)) /\ Foreign /\ Tagged
    BY <1>1, <1>6 DEF Inv
  <2>2. Held(f)'
    <3>1. Places(f) \cap DOMAIN payload' = {} /\ Places(f) = {f} \cup Mapped(f)
      BY <1>2 DEF Mapped, Places
    <3>2. QED
      BY <1>1, <1>3, <3>1, Fixed DEF Held
  <2>3. ASSUME NEW g \in Fields \ {f} PROVE Held(g)'
    <3>1. Places(f) \cap Places(g) = {}
      BY <1>6 DEF Unambiguous
    <3>2. Places(g) \cap DOMAIN payload' = Places(g) \cap DOMAIN payload
      BY <1>2, <3>1
    <3>3. \A n \in Places(g) \cap DOMAIN payload : payload'[n] = payload[n]
      BY <1>2, <3>1
    <3>4. QED
      BY <1>1, <1>3, <2>1, <3>2, <3>3, HeldStill
  <2>4. Foreign'
    BY <1>1, <1>2, <2>1, ForeignStill DEF Foreign
  <2>5. Tagged'
    BY <1>1, <1>2, <1>3, <2>1, NamesAssumption DEF Tagged, Unset
  <2>6. QED
    BY <2>2, <2>3, <2>4, <2>5
<1>7. QED
  BY <1>1, <1>4, <1>5, <1>6, CallbackInv

\* Something else is added.
LEMMA AddStep ==
  ASSUME Inv, Callback, NEW k \in Names, Add(k)
  PROVE  Inv'
<1>1. /\ UNCHANGED <<family, kind, version, phase, todo, result, meant>> /\ phase = "canonical"
      /\ payload' = With(payload, k, "stray") /\ (\A f \in Fields : k \notin Places(f))
      /\ \A f \in WireFields(version) : k \notin WirePlaces(f, version)
  BY DEF Callback, Add
<1>2. /\ DOMAIN payload' = DOMAIN payload \cup {k} /\ payload'[k] = "stray"
      /\ \A n \in DOMAIN payload \ {k} : payload'[n] = payload[n]
  BY <1>1 DEF With
<1>3. Shape
  BY DEF Inv
<1>4. DOMAIN payload' \subseteq Names /\ \A n \in DOMAIN payload' : payload'[n] \in Values
  BY <1>2, <1>3 DEF Shape, TypeOK, Values
<1>5. meant' \in [Fields -> Values \cup {Unset}]
  BY <1>1, <1>3 DEF Shape, TypeOK
<1>6. ASSUME Unambiguous PROVE (\A g \in Fields : Held(g)') /\ Foreign' /\ Tagged'
  <2>1. (\A g \in Fields : Held(g)) /\ Foreign /\ Tagged
    BY <1>1, <1>6 DEF Inv
  <2>2. \A g \in Fields : Held(g)'
    BY <1>1, <1>2, <2>1, HeldStill
  <2>3. Foreign'
    BY <1>1, <1>2, <2>1, ForeignStill DEF Foreign
  <2>4. Tagged'
    BY <1>1, <1>2, <2>1, NamesAssumption DEF Tagged
  <2>5. QED
    BY <2>2, <2>3, <2>4
<1>7. QED
  BY <1>1, <1>4, <1>5, <1>6, CallbackInv

\* A callback runs.
LEMMA CallbackStep == Inv /\ Callback => Inv'
<1> SUFFICES ASSUME Inv, Callback PROVE Inv'
  OBVIOUS
<1>1. CASE \E f \in Fields : Supply(f)
  BY <1>1, SupplyStep
<1>2. CASE \E f \in Fields : Drop(f)
  BY <1>2, DropStep
<1>3. CASE \E f \in Fields : \E n \in Names : SupplyAlias(f, n)
  BY <1>3, SupplyAliasStep
<1>4. CASE \E n \in Names : Add(n)
  BY <1>4, AddStep
<1>5. QED
  BY <1>1, <1>2, <1>3, <1>4 DEF Callback

\* The callbacks are done.
LEMMA SettleStep == Inv /\ Settle => Inv'
<1> SUFFICES ASSUME Inv, Settle PROVE Inv'
  OBVIOUS
<1>1. /\ UNCHANGED <<family, kind, version, payload, meant, result>>
      /\ phase = "canonical" /\ phase' = "normalise" /\ todo' = Planned
  BY DEF Settle
<1>2. Planned \subseteq Fields
  BY DEF Planned, WireFields
<1>3. Shape'
  BY <1>1, <1>2, Fixed DEF Inv, Shape, TypeOK
<1>4. ASSUME Unambiguous PROVE (\A f \in Fields : Held(f)' /\ OneWay(f)') /\ Foreign' /\ Tagged'
  <2>1. (\A f \in Fields : Held(f)) /\ Foreign /\ Tagged
    BY <1>1, <1>4 DEF Inv
  <2>2. \A f \in Fields : Held(f)'
    BY <1>1, <2>1, HeldStill
  <2>3. ASSUME NEW f \in Fields, f \notin Planned PROVE Mapped(f) \cap DOMAIN payload = {}
    <3>1. ~Usable(f) \/ Mapped(f) = {}
      BY <2>3 DEF Planned, Usable, Inv, Shape, TypeOK
    <3>2. QED
      BY <2>1, <3>1 DEF Held
  <2>4. \A f \in Fields : OneWay(f)'
    BY <1>1, <2>3, Fixed DEF OneWay
  <2>5. Foreign'
    BY <1>1, <2>1, ForeignStill DEF Foreign
  <2>6. Tagged'
    BY <1>1, <2>1 DEF Tagged
  <2>7. QED
    BY <2>2, <2>4, <2>5, <2>6
<1>5. ValidatedAsMeant' /\ RenderedAsMeant'
  BY <1>1 DEF ValidatedAsMeant, RenderedAsMeant
<1>6. QED
  BY <1>1, <1>3, <1>4, <1>5, Fixed DEF Inv

\* The alias under which validation hands a field over is one of its aliases.
LEMMA FirstMappedIn ==
  ASSUME Shape, NEW f \in Fields, Mapped(f) # {}
  PROVE  FirstMapped(f) \in Mapped(f)
<1>1. family.aliases[f] \in Seq(Names) /\ Distinct(family.aliases[f])
  BY FamilyShape
<1>2. PICK i \in DOMAIN family.aliases[f] : family.aliases[f][i] # f
  BY DEF Mapped, Elements
<1>3. 1 \in DOMAIN family.aliases[f]
  BY <1>1, <1>2
<1>4. CASE family.aliases[f][1] = f
  <2>1. 2 \in DOMAIN family.aliases[f]
    BY <1>1, <1>2, <1>4
  <2>2. family.aliases[f][2] # f
    BY <1>1, <1>3, <1>4, <2>1 DEF Distinct
  <2>3. QED
    BY <1>4, <2>1, <2>2 DEF FirstMapped, Mapped, Elements
<1>5. CASE family.aliases[f][1] # f
  BY <1>3, <1>5 DEF FirstMapped, Mapped, Elements
<1>6. QED
  BY <1>4, <1>5

\* Normalising a field keeps its value, at its name or at its first alias.
LEMMA NormalisedField ==
  ASSUME Shape, NEW f \in Fields, Mapped(f) # {}, Held(f),
         payload' = Normalised(f, payload), UNCHANGED <<family, kind, version, meant>>,
         kind = "validate" => Usable(f)
  PROVE  /\ Held(f)'
         /\ f \notin DOMAIN payload' \/ Mapped(f) \cap DOMAIN payload' = {}
         /\ DOMAIN payload' \subseteq DOMAIN payload \cup Places(f)
         /\ DOMAIN payload \ Places(f) \subseteq DOMAIN payload'
         /\ \A n \in DOMAIN payload \ Places(f) : payload'[n] = payload[n]
         /\ \A n \in DOMAIN payload' \cap Places(f) : \E m \in DOMAIN payload \cap Places(f) :
              payload'[n] = payload[m] /\ (n \in Mapped(f) => kind = "validate" \/ n = m)
                                      /\ (n = f => m = f \/ m \in Mapped(f))
<1> DEFINE first == family.aliases[f][1]
           k == FirstMapped(f)
<1>1. f \notin Mapped(f) /\ Places(f) = {f} \cup Mapped(f) /\ k \in Mapped(f)
  BY FirstMappedIn DEF Mapped, Places
<1>2. Mapped(f)' = Mapped(f) /\ Places(f)' = Places(f) /\ Usable(f)' = Usable(f)
  BY Fixed
<1>3. kind \in {"validate", "dump"}
  BY DEF Shape, TypeOK
<1> HIDE DEF k
<1>4. CASE f \in DOMAIN payload /\ kind = "validate"
  <2>1. payload' = With(Without(payload, Mapped(f) \cup {f}), k, payload[f])
    BY <1>4 DEF Normalised, k
  <2>2. /\ DOMAIN payload' = (DOMAIN payload \ Places(f)) \cup {k} /\ payload'[k] = payload[f]
        /\ \A n \in DOMAIN payload \ Places(f) : payload'[n] = payload[n]
    BY <1>1, <2>1 DEF With, Without
  <2>3. Places(f) \cap DOMAIN payload' = {k} /\ f \notin DOMAIN payload'
    BY <1>1, <2>2
  <2>4. Held(f)'
    BY <1>1, <1>2, <1>4, <2>2, <2>3 DEF Held
  <2>5. QED
    BY <1>1, <1>4, <2>2, <2>3, <2>4
<1>5. CASE f \in DOMAIN payload /\ kind = "dump"
  <2>1. payload' = Without(payload, Mapped(f))
    BY <1>5 DEF Normalised
  <2>2. /\ DOMAIN payload' = DOMAIN payload \ Mapped(f)
        /\ \A n \in DOMAIN payload \ Mapped(f) : payload'[n] = payload[n]
    BY <2>1 DEF Without
  <2>3. f \in DOMAIN payload' /\ Mapped(f) \cap DOMAIN payload' = {}
    BY <1>1, <1>5, <2>2
  <2>4. Held(f)'
    BY <1>1, <1>2, <1>5, <2>2, <2>3 DEF Held
  <2>5. QED
    BY <1>1, <1>5, <2>2, <2>3, <2>4
<1>6. CASE f \notin DOMAIN payload /\ first \in DOMAIN payload
  <2>1. first \in Mapped(f)
    <3>1. 1 \in DOMAIN family.aliases[f]
      BY <1>1, FamilyShape DEF Mapped, Elements
    <3>2. QED
      BY <1>6, <3>1 DEF Mapped, Elements
  <2>2. payload' = With(Without(payload, {first}), f, payload[first])
    BY <1>6 DEF Normalised
  <2>3. /\ DOMAIN payload' = (DOMAIN payload \ {first}) \cup {f} /\ payload'[f] = payload[first]
        /\ \A n \in DOMAIN payload \ {first} : n # f => payload'[n] = payload[n]
    BY <2>2 DEF With, Without
  <2>4. Mapped(f) \cap DOMAIN payload = {first}
    BY <1>6, <2>1 DEF Held
  <2>5. Mapped(f) \cap DOMAIN payload' = {} /\ f \in DOMAIN payload' /\ payload'[f] = meant[f]
    BY <1>1, <1>6, <2>1, <2>3, <2>4 DEF Held
  <2>6. Held(f)'
    BY <1>1, <1>2, <2>5 DEF Held
  <2>7. QED
    BY <1>1, <1>6, <2>1, <2>3, <2>5, <2>6
<1>7. CASE f \notin DOMAIN payload /\ first \notin DOMAIN payload
  <2>1. payload' = payload
    BY <1>7 DEF Normalised
  <2>2. Held(f)'
    BY <1>2, <2>1 DEF Held
  <2>3. QED
    BY <1>1, <1>7, <2>1, <2>2
<1>8. QED
  BY <1>3, <1>4, <1>5, <1>6, <1>7

\* The mapping stays one from names to values.
LEMMA NormalisedType ==
  ASSUME Shape, NEW f \in Fields, Mapped(f) # {}
  PROVE  /\ DOMAIN Normalised(f, payload) \subseteq Names
         /\ \A n \in DOMAIN Normalised(f, payload) : Normalised(f, payload)[n] \in Values
<1>1. DOMAIN payload \subseteq Names /\ \A n \in DOMAIN payload : payload[n] \in Values
  BY DEF Shape, TypeOK
<1>2. FirstMapped(f) \in Names /\ f \in Names
  BY FirstMappedIn, FamilyShape
<1>3. ASSUME NEW N, NEW k \in Names, NEW m \in DOMAIN payload
      PROVE  /\ DOMAIN With(Without(payload, N), k, payload[m]) \subseteq Names
             /\ \A n \in DOMAIN With(Without(payload, N), k, payload[m]) :
                  With(Without(payload, N), k, payload[m])[n] \in Values
  BY <1>1 DEF With, Without
<1>4. \A N : DOMAIN Without(payload, N) \subseteq Names
              /\ \A n \in DOMAIN Without(payload, N) : Without(payload, N)[n] \in Values
  BY <1>1 DEF Without
<1>5. QED
  BY <1>1, <1>2, <1>3, <1>4 DEF Normalised

\* A field is normalised.
LEMMA NormaliseStep ==
  ASSUME Inv, NEW f \in Fields, Normalise(f)
  PROVE  Inv'
<1>1. /\ UNCHANGED <<family, kind, version, phase, meant, result>>
      /\ phase = "normalise" /\ f \in todo /\ todo' = todo \ {f}
      /\ payload' = Normalised(f, payload)
  BY DEF Normalise
<1>2. Shape /\ Mapped(f) # {} /\ (kind = "validate" => Usable(f))
  BY <1>1 DEF Inv, Shape, Planned, Usable
<1>3. Shape'
  <2>1. DOMAIN payload' \subseteq Names /\ \A n \in DOMAIN payload' : payload'[n] \in Values
    BY <1>1, <1>2, NormalisedType
  <2>2. TypeOK'
    BY <1>1, <1>2, <2>1, Fixed DEF Shape, TypeOK
  <2>3. QED
    BY <1>1, <1>2, <2>2, Fixed DEF Shape
<1>4. ASSUME Unambiguous PROVE (\A g \in Fields : Held(g)' /\ OneWay(g)') /\ Foreign' /\ Tagged'
  <2>1. (\A g \in Fields : Held(g) /\ OneWay(g)) /\ Foreign /\ Tagged
    BY <1>1, <1>4 DEF Inv
  <2>2. /\ Held(f)'
        /\ f \notin DOMAIN payload' \/ Mapped(f) \cap DOMAIN payload' = {}
        /\ DOMAIN payload' \subseteq DOMAIN payload \cup Places(f)
        /\ DOMAIN payload \ Places(f) \subseteq DOMAIN payload'
        /\ \A n \in DOMAIN payload \ Places(f) : payload'[n] = payload[n]
        /\ \A n \in DOMAIN payload' \cap Places(f) : \E m \in DOMAIN payload \cap Places(f) :
             payload'[n] = payload[m] /\ (n \in Mapped(f) => kind = "validate" \/ n = m)
                                     /\ (n = f => m = f \/ m \in Mapped(f))
    BY <1>1, <1>2, <2>1, NormalisedField
  <2>3. ASSUME NEW g \in Fields \ {f}
        PROVE  /\ Places(g) \cap DOMAIN payload' = Places(g) \cap DOMAIN payload
               /\ Held(g)'
    <3>1. Places(f) \cap Places(g) = {}
      BY <1>4 DEF Unambiguous
    <3>2. Places(g) \cap DOMAIN payload' = Places(g) \cap DOMAIN payload
      BY <2>2, <3>1
    <3>3. \A n \in Places(g) \cap DOMAIN payload : payload'[n] = payload[n]
      BY <2>2, <3>1
    <3>4. QED
      BY <1>1, <2>1, <3>2, <3>3, HeldStill
  <2>4. ASSUME NEW g \in Fields PROVE OneWay(g)'
    <3>1. CASE g = f
      BY <2>2, <3>1, Fixed, <1>1 DEF OneWay
    <3>2. CASE g # f
      <4>1. Places(g) \cap DOMAIN payload' = Places(g) \cap DOMAIN payload
        BY <2>3, <3>2
      <4>2. Places(g) = {g} \cup Mapped(g)
        BY DEF Places, Mapped
      <4>3. QED
        BY <1>1, <2>1, <3>2, <4>1, <4>2, Fixed DEF OneWay
    <3>3. QED
      BY <3>1, <3>2
  <2>5. Foreign'
    BY <1>1, <2>1, <2>2, ForeignStill DEF Foreign
  <2>6. Tagged'
    <3>1. SUFFICES ASSUME kind = "dump", NEW n \in DOMAIN payload', payload'[n] \in Names
                   PROVE  payload'[n] = n /\ n \in Fields \ family.excluded
      BY <1>1, <2>1 DEF Tagged
    <3>2. CASE n \notin Places(f)
      BY <2>1, <2>2, <3>1, <3>2 DEF Tagged
    <3>3. CASE n \in Places(f)
      <4>1. PICK m \in DOMAIN payload \cap Places(f) :
              payload'[n] = payload[m] /\ (n \in Mapped(f) => kind = "validate" \/ n = m)
                                      /\ (n = f => m = f \/ m \in Mapped(f))
        BY <2>2, <3>1, <3>3
      <4>2. payload[m] = m /\ m \in Fields \ family.excluded
        BY <2>1, <3>1, <4>1 DEF Tagged
      <4>3. Mapped(f) \cap Fields = {}
        <5>1. ASSUME NEW g \in Fields, g \in Mapped(f) PROVE FALSE
          BY <1>4, <5>1, Apart DEF Mapped, Places
        <5>2. QED
          BY <5>1
      <4>4. n = m
        BY <3>1, <3>3, <4>1, <4>2, <4>3 DEF Places, Mapped
      <4>5. QED
        BY <4>1, <4>2, <4>4
    <3>4. QED
      BY <3>2, <3>3
  <2>7. QED
    BY <2>2, <2>3, <2>4, <2>5, <2>6
<1>5. ValidatedAsMeant' /\ RenderedAsMeant'
  BY <1>1 DEF ValidatedAsMeant, RenderedAsMeant
<1>6. QED
  BY <1>1, <1>3, <1>4, <1>5, Fixed DEF Inv

\* The mapping that the current model reads holds each field in one way.
LEMMA CurrentHeld ==
  ASSUME Shape, phase = "normalise", todo = {}, NEW f \in Fields, Held(f), OneWay(f), NEW d
  PROVE  HoldsOneWay(payload, family.aliases[f], f, Given(f, d), d)
<1>1. f \notin DOMAIN payload \/ Mapped(f) \cap DOMAIN payload = {}
  BY DEF OneWay
<1>2. \A n \in DOMAIN payload : payload[n] # Unset
  BY NamesAssumption DEF Shape, TypeOK, Values, Unset
<1>3. Places(f) = {f} \cup Mapped(f) /\ Mapped(f) = Elements(family.aliases[f]) \ {f}
  BY DEF Places, Mapped
<1> DEFINE v == Given(f, d)
<1>4. f \in DOMAIN payload => payload[f] = v
  BY <1>2 DEF Held, Given
<1>5. \A n \in Mapped(f) \cap DOMAIN payload : payload[n] = v
  BY <1>1, <1>2 DEF Held, Given
<1>6. ({f} \cup Mapped(f)) \cap DOMAIN payload = {} => v = d
  BY <1>3 DEF Held, Given
<1>7. ~family.byAlias => Mapped(f) \cap DOMAIN payload = {}
  BY DEF Held, Usable
<1>8. \A m, n \in Mapped(f) \cap DOMAIN payload : m = n
  BY DEF Held
<1> HIDE DEF v
<1>9. HoldsOneWay(payload, family.aliases[f], f, v, d)
  BY <1>1, <1>3, <1>4, <1>5, <1>6, <1>7, <1>8 DEF HoldsOneWay
<1>10. QED
  BY <1>9 DEF v

\* The current model is validated: every field is read from where it is held.
LEMMA FinishValidateStep == Inv /\ FinishValidate => Inv'
<1> SUFFICES ASSUME Inv, FinishValidate PROVE Inv'
  OBVIOUS
<1>1. /\ UNCHANGED <<family, kind, version, payload, todo, meant>>
      /\ phase = "normalise" /\ kind = "validate" /\ todo = {}
      /\ phase' \in {"done", "refused"}
  BY DEF FinishValidate
<1>2. \/ phase' = "refused" /\ result' = result
      \/ /\ phase' = "done"
         /\ result' = [f \in Fields |-> Taken(payload, CurrentKey(f, payload), "default")]
  BY DEF FinishValidate
<1>3. Shape
  BY DEF Inv
<1>4. ASSUME phase' = "done"
      PROVE  /\ DOMAIN result' = Fields
             /\ \A f \in Fields : result'[f] = Taken(payload, CurrentKey(f, payload), "default")
  BY <1>2, <1>4
<1>5. Shape'
  <2>1. \A n \in DOMAIN result' : n \in Names /\ result'[n] \in Values
    <3>1. CASE phase' = "refused"
      BY <1>2, <1>3, <3>1 DEF Shape, TypeOK
    <3>2. CASE phase' = "done"
      BY <1>3, <1>4, <3>2, NamesAssumption DEF Shape, TypeOK, Taken, Values
    <3>3. QED
      BY <1>1, <3>1, <3>2
  <2>2. QED
    BY <1>1, <1>3, <2>1, Fixed DEF Shape, TypeOK
<1>6. ValidatedAsMeant'
  <2>1. SUFFICES ASSUME Unambiguous, phase' = "done", NEW f \in Fields
                 PROVE  result'[f] = Given(f, "default")
    BY <1>1, Fixed DEF ValidatedAsMeant, Given
  <2>2. Held(f) /\ OneWay(f)
    BY <1>1, <2>1 DEF Inv
  <2>3. family.aliases[f] \in Seq(Names) /\ Distinct(family.aliases[f]) /\ DOMAIN payload \subseteq Names
    BY <1>3, FamilyShape DEF Shape, TypeOK
  <2>4. HoldsOneWay(payload, family.aliases[f], f, Given(f, "default"), "default")
    BY <1>1, <1>3, <2>2, CurrentHeld
  <2>5. Taken(payload, PayloadKey(payload, family.aliases[f], f), "default") = Given(f, "default")
    BY <1>3, <2>3, <2>4, FamilyShape, ReadsHeld
  <2>6. QED
    BY <1>4, <2>1, <2>5 DEF CurrentKey
<1>7. RenderedAsMeant'
  BY <1>1 DEF RenderedAsMeant
<1>8. QED
  BY <1>1, <1>5, <1>6, <1>7 DEF Inv

\* The caller calls again.
LEMMA ReturnStep == Inv /\ Return => Inv'
<1> SUFFICES ASSUME Inv, Return PROVE Inv'
  OBVIOUS
<1>1. /\ UNCHANGED <<family, kind, version, todo>> /\ phase' = "begin"
      /\ payload' = Empty /\ result' = Empty /\ meant' = [f \in Fields |-> Unset]
  BY DEF Return
<1>2. Shape'
  BY <1>1, Fixed DEF Inv, Shape, TypeOK, Empty
<1>3. QED
  BY <1>1, <1>2 DEF Inv, ValidatedAsMeant, RenderedAsMeant

-----------------------------------------------------------------------------
(* Rendering. *)

\* Renamed fields move to their names, and what is neither renamed nor removed stays.
LEMMA VersionNames ==
  ASSUME Shape, NEW p, p = ToVersionNames(payload)
  PROVE  /\ DOMAIN p = (DOMAIN payload \ (Renamed(version) \cup Removed(version)))
                        \cup {VersionName(f, version) : f \in Renamed(version) \cap DOMAIN payload}
         /\ \A f \in Renamed(version) \cap DOMAIN payload : p[VersionName(f, version)] = payload[f]
         /\ \A n \in DOMAIN p :
              (\A f \in Renamed(version) \cap DOMAIN payload : n # VersionName(f, version))
                => p[n] = payload[n]
<1> DEFINE moved == Renamed(version) \cap DOMAIN payload
           kept == DOMAIN payload \ (Renamed(version) \cup Removed(version))
           target == {VersionName(f, version) : f \in moved}
<1>1. p = [n \in kept \cup target |->
            IF n \in target THEN payload[CHOOSE f \in moved : VersionName(f, version) = n]
            ELSE payload[n]]
  BY DEF ToVersionNames
<1>2. ASSUME NEW f \in moved PROVE p[VersionName(f, version)] = payload[f]
  <2>1. \A g \in moved : VersionName(g, version) = VersionName(f, version) => g = f
    BY OwnName, OtherName
  <2>2. (CHOOSE g \in moved : VersionName(g, version) = VersionName(f, version)) = f
    BY <2>1
  <2>3. VersionName(f, version) \in target
    OBVIOUS
  <2>4. QED
    BY <1>1, <2>2, <2>3
<1>3. QED
  BY <1>1, <1>2

\* No other field of the version is written where f belongs.
LEMMA PlaceOwn ==
  ASSUME Shape, Unambiguous, kind = "dump", Foreign, \A g \in Fields : Held(g),
         NEW f \in WireFields(version),
         NEW n \in WirePlaces(f, version), NEW p, p = ToVersionNames(payload)
  PROVE  /\ \A g \in Renamed(version) : n = VersionName(g, version) => g = f
         /\ f \in Renamed(version) /\ f \notin DOMAIN payload => n \notin DOMAIN p
         /\ f \notin Renamed(version) => (n \in DOMAIN p <=> n \in DOMAIN payload)
         /\ f \notin Renamed(version) /\ n \in DOMAIN p => p[n] = payload[n]
<1>1. f \in Fields \ Removed(version) /\ version \in 1 .. Current
  BY OtherName DEF Shape, TypeOK
<1>2. \A g \in Fields \ Removed(version) :
        g # f => WirePlaces(f, version) \cap WirePlaces(g, version) = {}
  BY <1>1 DEF Unambiguous
<1>3. ASSUME NEW g \in Renamed(version), n = VersionName(g, version) PROVE g = f
  <2>1. n \in WirePlaces(g, version) /\ g \in Fields \ Removed(version)
    BY <1>3, OtherName DEF WirePlaces
  <2>2. QED
    BY <1>2, <2>1
<1>4. ASSUME f \in Renamed(version), f \notin DOMAIN payload PROVE n \notin DOMAIN p
  <2>1. n = VersionName(f, version)
    BY <1>4, OtherName DEF WirePlaces, Elements
  <2>2. SUFFICES ASSUME n \in DOMAIN payload \ (Renamed(version) \cup Removed(version)) PROVE FALSE
    <3>1. n \notin {VersionName(g, version) : g \in Renamed(version) \cap DOMAIN payload}
      BY <1>3, <1>4
    <3>2. DOMAIN p = (DOMAIN payload \ (Renamed(version) \cup Removed(version)))
                     \cup {VersionName(g, version) : g \in Renamed(version) \cap DOMAIN payload}
      BY VersionNames
    <3>3. QED
      BY <2>2, <3>1, <3>2
  <2>3. PICK g \in Fields : n \in Places(g)
    BY <2>2 DEF Foreign
  <2>4. CASE n = g
    <3>1. VersionName(g, version) = g
      BY <2>2, <2>4, OtherName
    <3>2. g = f
      BY <1>1, <2>1, <2>2, <2>4, <3>1, OwnName
    <3>3. QED
      BY <1>4, <2>2, <2>4, <3>2
  <2>5. CASE n # g
    <3>1. n \in Mapped(g) \cap DOMAIN payload
      BY <2>2, <2>3, <2>5 DEF Places, Mapped
    <3>2. g \in WireFields(version) \ Renamed(version)
      BY <3>1 DEF Held, Usable
    <3>3. n \in WirePlaces(g, version) /\ g \in Fields \ Removed(version) /\ g # f
      BY <1>4, <3>1, <3>2, OtherName DEF WirePlaces, Mapped
    <3>4. QED
      BY <1>2, <3>3
  <2>6. QED
    BY <2>4, <2>5
<1>5. ASSUME f \notin Renamed(version)
      PROVE  /\ n \in DOMAIN p <=> n \in DOMAIN payload
             /\ n \in DOMAIN p => p[n] = payload[n]
  <2>1. n \in Places(f)
    BY <1>1, <1>5, OtherName DEF WirePlaces, Places
  <2>2. n \notin Renamed(version) \cup Removed(version)
    <3>1. ASSUME n \in Fields PROVE n = f
      BY <1>1, <2>1, <3>1, Apart
    <3>2. QED
      BY <1>1, <1>5, <3>1, OtherName DEF Removed
  <2>3. \A g \in Renamed(version) : n # VersionName(g, version)
    BY <1>3, <1>5
  <2>4. QED
    BY <2>2, <2>3, VersionNames
<1>6. QED
  BY <1>3, <1>4, <1>5

\* The mapping that the wire model reads holds each of its fields in one way.
LEMMA WireHeld ==
  ASSUME Shape, Unambiguous, kind = "dump", phase = "normalise", todo = {}, Foreign,
         \A g \in Fields : Held(g) /\ OneWay(g),
         NEW f \in WireFields(version), NEW p, p = ToVersionNames(payload), NEW d
  PROVE  HoldsOneWay(p, WireAliases(f, version), VersionName(f, version), Given(f, d), d)
<1> DEFINE name == VersionName(f, version)
           other == Elements(WireAliases(f, version)) \ {name}
           v == Given(f, d)
<1>1. f \in Fields \ Removed(version) /\ WirePlaces(f, version) = {name} \cup other
  BY OtherName DEF WirePlaces
<1>2. Held(f) /\ (f \notin DOMAIN payload \/ Mapped(f) \cap DOMAIN payload = {})
  BY <1>1 DEF OneWay
<1>3. \A n \in DOMAIN payload : payload[n] # Unset
  BY NamesAssumption DEF Shape, TypeOK, Values, Unset
<1>4. Places(f) = {f} \cup Mapped(f) /\ Mapped(f) = Elements(family.aliases[f]) \ {f}
  BY DEF Places, Mapped
<1>5. CASE f \in Renamed(version)
  <2>1. other = {}
    BY <1>5, OtherName DEF Elements
  <2>2. Mapped(f) \cap DOMAIN payload = {}
    BY <1>2, <1>5 DEF Held, Usable
  <2>3. CASE f \in DOMAIN payload
    <3>1. name \in DOMAIN p /\ p[name] = payload[f]
      BY <1>5, <2>3, VersionNames
    <3>2. p[name] = v
      BY <1>2, <1>3, <2>3, <3>1 DEF Held, Given
    <3>3. QED
      BY <2>1, <3>1, <3>2 DEF HoldsOneWay
  <2>4. CASE f \notin DOMAIN payload
    <3>1. name \notin DOMAIN p
      BY <1>1, <1>5, <2>4, PlaceOwn
    <3>2. v = d
      BY <1>2, <1>4, <2>2, <2>4 DEF Held, Given
    <3>3. QED
      BY <2>1, <3>1, <3>2 DEF HoldsOneWay
  <2>5. QED
    BY <2>3, <2>4
<1>6. CASE f \notin Renamed(version)
  <2>1. name = f /\ other = Mapped(f)
    BY <1>1, <1>4, <1>6, OtherName
  <2>2. \A n \in Places(f) : (n \in DOMAIN p <=> n \in DOMAIN payload)
                             /\ (n \in DOMAIN p => p[n] = payload[n])
    BY <1>1, <1>4, <1>6, <2>1, PlaceOwn
  <2>3. f \in DOMAIN payload => payload[f] = v
    BY <1>2, <1>3 DEF Held, Given
  <2>4. \A n \in Mapped(f) \cap DOMAIN payload : payload[n] = v
    BY <1>2, <1>3 DEF Held, Given
  <2>5. ({f} \cup Mapped(f)) \cap DOMAIN payload = {} => v = d
    BY <1>2, <1>4 DEF Held, Given
  <2>6. ~family.byAlias => Mapped(f) \cap DOMAIN payload = {}
    BY <1>2 DEF Held, Usable
  <2>7. \A m, n \in Mapped(f) \cap DOMAIN payload : m = n
    BY <1>2 DEF Held
  <2> HIDE DEF v, name, other
  <2>8. HoldsOneWay(p, WireAliases(f, version), f, v, d)
    BY <1>2, <1>4, <2>1, <2>2, <2>3, <2>4, <2>5, <2>6, <2>7 DEF HoldsOneWay, other
  <2>9. QED
    BY <2>1, <2>8 DEF v, name
<1>7. QED
  BY <1>5, <1>6

\* A field has a name in a version.
LEMMA NameOfField ==
  ASSUME Shape
  PROVE  \A f \in Fields : VersionName(f, version) \in Names /\ WireOut(f, version) \in Names
<1>1. Family(family) /\ version \in 1 .. Len(family.patches)
  BY NamesAssumption DEF Shape, TypeOK, Current
<1>2. family.patches[version] \in [Fields -> Patch] /\ family.out \in [Fields -> Names]
  BY <1>1 DEF Family
<1>3. ASSUME NEW f \in Fields
      PROVE  VersionName(f, version) \in Names /\ WireOut(f, version) \in Names
  <2>1. family.patches[version][f] \in Patch
    BY <1>2
  <2>2. family.patches[version][f].kind = "renamed" => family.patches[version][f].name \in Names
    BY <2>1 DEF Patch
  <2>3. QED
    BY <1>2, <2>2, NamesAssumption DEF VersionName, PatchOf, WireOut
<1>4. QED
  BY <1>3

\* The aliases that the wire model keeps.
LEMMA WireAliasesType ==
  ASSUME Shape, NEW f \in Fields
  PROVE  WireAliases(f, version) \in Seq(Names) /\ Distinct(WireAliases(f, version))
<1>1. CASE f \in Renamed(version)
  <2>1. WireAliases(f, version) = <<>> /\ <<>> \in Seq(Names) /\ DOMAIN <<>> = {}
    BY <1>1, OtherName
  <2>2. QED
    BY <2>1 DEF Distinct
<1>2. CASE f \notin Renamed(version)
  BY <1>2, FamilyShape, OtherName
<1>3. QED
  BY <1>1, <1>2

\* The mapping stays one from names to values.
LEMMA VersionType ==
  ASSUME Shape, NEW p, p = ToVersionNames(payload)
  PROVE  DOMAIN p \subseteq Names /\ \A n \in DOMAIN p : p[n] \in Values
<1>1. DOMAIN payload \subseteq Names /\ \A n \in DOMAIN payload : payload[n] \in Values
  BY DEF Shape, TypeOK
<1>2. \A f \in Fields : VersionName(f, version) \in Names
  BY NameOfField
<1>3. DOMAIN p = (DOMAIN payload \ (Renamed(version) \cup Removed(version)))
                  \cup {VersionName(f, version) : f \in Renamed(version) \cap DOMAIN payload}
  BY VersionNames
<1>4. DOMAIN p \subseteq Names
  BY <1>1, <1>2, <1>3, OtherName
<1>5. ASSUME NEW n \in DOMAIN p PROVE p[n] \in Values
  <2>1. CASE \E f \in Renamed(version) \cap DOMAIN payload : n = VersionName(f, version)
    BY <1>1, <2>1, VersionNames
  <2>2. CASE \A f \in Renamed(version) \cap DOMAIN payload : n # VersionName(f, version)
    <3>1. n \in DOMAIN payload
      BY <1>3, <2>2
    <3>2. p[n] = payload[n]
      BY <2>2, VersionNames
    <3>3. QED
      BY <1>1, <3>1, <3>2
  <2>3. QED
    BY <2>1, <2>2
<1>6. QED
  BY <1>4, <1>5

\* The wire model is rendered: every field is read from where it is held.
LEMMA FinishRenderStep == Inv /\ FinishRender => Inv'
<1> SUFFICES ASSUME Inv, FinishRender PROVE Inv'
  OBVIOUS
<1> DEFINE WF == WireFields(version)
           outs == {WireOut(f, version) : f \in WF}
<1>1. /\ UNCHANGED <<family, kind, version, payload, todo, meant>>
      /\ phase = "normalise" /\ kind = "dump" /\ todo = {}
      /\ phase' \in {"done", "refused"}
  BY DEF FinishRender
<1>2. Shape /\ version \in 1 .. Current
  BY DEF Inv, Shape, TypeOK
<1>3. PICK p : p = ToVersionNames(payload)
  OBVIOUS
<1>4. DOMAIN p \subseteq Names /\ \A n \in DOMAIN p : p[n] \in Values
  BY <1>2, <1>3, VersionType
<1>5. ASSUME phase' = "done"
      PROVE  \E extras \in SUBSET DOMAIN p :
               /\ extras \cap outs = {} /\ DOMAIN result' = outs \cup extras
               /\ \A n \in extras : result'[n] = p[n]
               /\ \A f \in WF : result'[WireOut(f, version)]
                                 = Taken(p, WireKey(f, p), WireDefault(f, version))
  <2>1. PICK q \in {ToVersionNames(payload)} :
        \E key \in {[f \in WireFields(version) |-> WireKey(f, q)]} :
        \E extras \in {IF family.extra = "allow" THEN Unused(q, {key[f] : f \in DOMAIN key}) ELSE {}} :
          ~Collides(extras) /\ result' = Rendered(q, key, extras)
    BY <1>5 DEF FinishRender
  <2>2. q = p
    BY <1>3
  <2>3. PICK key \in {[f \in WireFields(version) |-> WireKey(f, q)]} :
        \E extras \in {IF family.extra = "allow" THEN Unused(q, {key[f] : f \in DOMAIN key}) ELSE {}} :
          ~Collides(extras) /\ result' = Rendered(q, key, extras)
    BY <2>1
  <2>4. PICK extras \in {IF family.extra = "allow" THEN Unused(q, {key[f] : f \in DOMAIN key}) ELSE {}} :
          ~Collides(extras) /\ result' = Rendered(q, key, extras)
    BY <2>3
  <2>5. extras \in SUBSET DOMAIN p /\ extras \cap outs = {}
    BY <2>2, <2>4 DEF Unused, Collides
  <2>6. /\ DOMAIN result' = outs \cup extras
        /\ \A n \in extras : result'[n] = p[n]
    BY <2>2, <2>4 DEF Rendered
  <2>7. ASSUME NEW f \in WF
        PROVE  result'[WireOut(f, version)] = Taken(p, WireKey(f, p), WireDefault(f, version))
    <3>1. \A g \in WF : WireOut(g, version) = WireOut(f, version) => g = f
      BY <1>2 DEF Shape, Compiles, OwnOutputs
    <3>2. (CHOOSE g \in WF : WireOut(g, version) = WireOut(f, version)) = f
      BY <3>1
    <3>3. key[f] = WireKey(f, p)
      BY <2>2, <2>3
    <3>4. WireOut(f, version) \in outs /\ WireOut(f, version) \notin extras
      BY <2>5
    <3>5. QED
      BY <2>2, <2>4, <3>2, <3>3, <3>4 DEF Rendered
  <2>8. QED
    BY <2>5, <2>6, <2>7
<1>6. Shape'
  <2>1. CASE phase' = "refused"
    <3>1. result' = result
      BY <2>1 DEF FinishRender
    <3>2. QED
      BY <1>1, <1>2, <2>1, <3>1, Fixed DEF Shape, TypeOK
  <2>2. CASE phase' = "done"
    <3>1. PICK extras \in SUBSET DOMAIN p :
            /\ extras \cap outs = {} /\ DOMAIN result' = outs \cup extras
            /\ \A n \in extras : result'[n] = p[n]
            /\ \A f \in WF : result'[WireOut(f, version)]
                              = Taken(p, WireKey(f, p), WireDefault(f, version))
      BY <1>5, <2>2
    <3>2. ASSUME NEW n \in DOMAIN result' PROVE n \in Names /\ result'[n] \in Values
      <4>1. CASE n \in extras
        BY <1>4, <3>1, <4>1
      <4>2. CASE n \in outs
        <5>1. PICK f \in WF : n = WireOut(f, version)
          BY <4>2
        <5>2. n \in Names
          BY <1>2, <5>1, NameOfField, OtherName
        <5>3. result'[n] \in Values
          BY <1>4, <3>1, <5>1 DEF Taken, WireDefault, Values
        <5>4. QED
          BY <5>2, <5>3
      <4>3. QED
        BY <3>1, <4>1, <4>2
    <3>3. QED
      BY <1>1, <1>2, <3>2, Fixed DEF Shape, TypeOK
  <2>3. QED
    BY <1>1, <2>1, <2>2
<1>7. ASSUME Unambiguous, phase' = "done"
      PROVE  /\ \A f \in WF : result'[WireOut(f, version)] = Given(f, WireDefault(f, version))
             /\ \A n \in DOMAIN result' : result'[n] \notin Fields \ WF
  <2>1. (\A g \in Fields : Held(g) /\ OneWay(g)) /\ Foreign /\ Tagged
    BY <1>1, <1>7 DEF Inv
  <2>2. PICK extras \in SUBSET DOMAIN p :
          /\ extras \cap outs = {} /\ DOMAIN result' = outs \cup extras
          /\ \A n \in extras : result'[n] = p[n]
          /\ \A f \in WF : result'[WireOut(f, version)]
                            = Taken(p, WireKey(f, p), WireDefault(f, version))
    BY <1>5, <1>7
  <2>3. ASSUME NEW f \in WF
        PROVE  result'[WireOut(f, version)] = Given(f, WireDefault(f, version))
    <3>1. PICK d : d = WireDefault(f, version)
      OBVIOUS
    <3>2. PICK v : v = Given(f, d)
      OBVIOUS
    <3>3. HoldsOneWay(p, WireAliases(f, version), VersionName(f, version), v, d)
      BY <1>1, <1>2, <1>3, <1>7, <2>1, <3>2, WireHeld
    <3>4. f \in Fields /\ VersionName(f, version) \in Names
      BY <1>2, NameOfField, OtherName
    <3>5. WireAliases(f, version) \in Seq(Names) /\ Distinct(WireAliases(f, version))
      BY <1>2, <3>4, WireAliasesType
    <3>6. Taken(p, WireKey(f, p), d) = v
      BY <1>4, <3>3, <3>4, <3>5, ReadsHeld DEF WireKey
    <3>7. QED
      BY <2>2, <3>1, <3>2, <3>6
  <2>4. ASSUME NEW f \in WF PROVE Given(f, WireDefault(f, version)) \notin Fields \ WF
    <3>1. f \in Fields
      BY OtherName
    <3>2. WireDefault(f, version) \notin Fields
      BY NamesAssumption DEF WireDefault
    <3>3. meant[f] \in Fields => meant[f] = f
      BY <1>1, <2>1, <3>1, NamesAssumption DEF Tagged
    <3>4. QED
      BY <3>2, <3>3 DEF Given
  <2>5. ASSUME NEW n \in extras PROVE p[n] \notin Fields \ WF
    <3>1. \A m \in DOMAIN payload : payload[m] \in Fields =>
            payload[m] = m /\ m \in Fields \ family.excluded
      BY <1>1, <2>1, NamesAssumption DEF Tagged
    <3>2. Fields \ (family.excluded \cup Removed(version)) \subseteq WF
      BY DEF WireFields
    <3>3. CASE \E g \in Renamed(version) \cap DOMAIN payload : n = VersionName(g, version)
      <4>1. PICK g \in Renamed(version) \cap DOMAIN payload : n = VersionName(g, version)
        BY <3>3
      <4>2. p[n] = payload[g]
        BY <1>2, <1>3, <4>1, VersionNames
      <4>3. g \in Fields \ Removed(version)
        BY <4>1, OtherName
      <4>4. QED
        BY <3>1, <3>2, <4>1, <4>2, <4>3
    <3>4. CASE \A g \in Renamed(version) \cap DOMAIN payload : n # VersionName(g, version)
      <4>1. p[n] = payload[n]
        BY <1>2, <1>3, <3>4, VersionNames
      <4>2. n \in DOMAIN payload \ (Renamed(version) \cup Removed(version))
        <5>1. DOMAIN p = (DOMAIN payload \ (Renamed(version) \cup Removed(version)))
                \cup {VersionName(f, version) : f \in Renamed(version) \cap DOMAIN payload}
          BY <1>2, <1>3, VersionNames
        <5>2. QED
          BY <3>4, <5>1
      <4>3. QED
        BY <3>1, <3>2, <4>1, <4>2
    <3>5. QED
      BY <3>3, <3>4
  <2>6. ASSUME NEW n \in DOMAIN result' PROVE result'[n] \notin Fields \ WF
    <3>1. CASE n \in extras
      BY <2>2, <2>5, <3>1
    <3>2. CASE n \in outs
      <4>1. PICK f \in WF : n = WireOut(f, version)
        BY <3>2
      <4>2. QED
        BY <2>3, <2>4, <4>1
    <3>3. QED
      BY <2>2, <3>1, <3>2
  <2>7. QED
    BY <2>3, <2>6
<1>8. RenderedAsMeant'
  BY <1>1, <1>7, Fixed, OtherName DEF RenderedAsMeant, Given
<1>9. ValidatedAsMeant'
  BY <1>1 DEF ValidatedAsMeant
<1>10. QED
  BY <1>1, <1>6, <1>8, <1>9 DEF Inv

-----------------------------------------------------------------------------
(* Refusals. *)

\* While no callback is on the way, the payload has every field of the version that was
\* read, under one of its names, and nothing else.
Untouched ==
  Unambiguous /\ Callbacks = {} /\ phase \in {"canonical", "normalise"} =>
    /\ kind = "validate" =>
         /\ \A f \in WireFields(version) : Places(f) \cap DOMAIN payload # {}
         /\ \A n \in DOMAIN payload : \E f \in WireFields(version) : n \in Places(f)
    /\ kind = "dump" => DOMAIN payload = Fields \ family.excluded

\* A set of natural numbers has a least element.
LEMMA LeastNumber ==
  ASSUME NEW T \in SUBSET Nat, T # {}
  PROVE  \E x \in T : \A y \in T : x <= y
<1> DEFINE R == OpToRel(<, Nat)
<1>1. IsWellFoundedOn(R, Nat)
  BY NatLessThanWellFounded, Zenon
<1>2. \A x, y \in Nat : x < y <=> <<x, y>> \in R
  BY DEF OpToRel
<1> HIDE DEF R
<1>3. PICK x \in T : \A y \in T : ~(<<y, x>> \in R)
  BY <1>1, WFMin
<1>4. x \in Nat /\ \A y \in T : y \in Nat /\ ~(y < x)
  BY <1>2, <1>3
<1>5. \A y \in T : x <= y
  BY <1>4
<1>6. QED
  BY <1>5

\* A required field that a version lacks comes in at some edge, and there is an upgrade
\* that could supply it.
LEMMA RequiredRead ==
  ASSUME Shape, kind = "validate", Callbacks = {}, NEW f \in Fields,
         f \in family.required, f \notin family.excluded
  PROVE  f \in WireFields(version)
<1> DEFINE T == {v \in Nat : v \in version .. Current /\ f \notin Removed(v)}
<1>1. Family(family) /\ Current = Len(family.patches) /\ Current \in Nat \ {0}
      /\ version \in 1 .. Current
  <2>1. Family(family)
    BY NamesAssumption DEF Shape, TypeOK
  <2>2. family.patches \in Seq([Fields -> Patch]) /\ Len(family.patches) > 0
    BY <2>1 DEF Family
  <2>3. QED
    BY <2>1, <2>2 DEF Current, Shape, TypeOK
<1>2. Current \in T
  <2>1. f \notin Removed(Current)
    BY <1>1 DEF Family, Removed, PatchOf
  <2>2. QED
    BY <1>1, <2>1
<1>3. PICK v \in T : \A w \in T : v <= w
  BY <1>2, LeastNumber
<1>4. v = version
  <2>1. SUFFICES ASSUME v # version PROVE FALSE
    OBVIOUS
  <2>2. v - 1 \in 1 .. Current - 1 /\ version <= v - 1 /\ (v - 1) + 1 = v /\ v - 1 \in Nat
        /\ v - 1 \in version .. Current /\ ~(v <= v - 1)
    BY <1>1, <2>1
  <2>3. f \in Removed(v - 1) /\ f \notin Removed(v)
    BY <1>3, <2>2
  <2>4. f \in IntroducedAt(v - 1)
    BY <2>2, <2>3 DEF IntroducedAt
  <2>5. v - 1 \in family.upgrades
    BY <2>2, <2>4 DEF Shape, Compiles, Introducible
  <2>6. v - 1 \in Callbacks
    BY <2>2, <2>5 DEF Callbacks
  <2>7. QED
    BY <2>6
<1>5. f \notin Removed(version)
  BY <1>4
<1>6. QED
  BY <1>5 DEF WireFields

\* What is compiled does not change, and neither does what is known of callbacks.
LEMMA SameCallbacks ==
  ASSUME UNCHANGED <<family, kind, version>>
  PROVE  Callbacks' = Callbacks /\ Unambiguous' = Unambiguous
  BY Fixed DEF Callbacks

\* A document has been read: each field of its version is at its current name.
LEMMA UntouchedDocument ==
  ASSUME Inv, ReadDocument
  PROVE  Untouched'
<1> DEFINE WF == WireFields(version)
           names == {VersionName(f, version) : f \in WF}
           wire == [n \in names |-> meant'[CHOOSE f \in WF : VersionName(f, version) = n]]
           m == [f \in WF |-> wire[VersionName(f, version)]]
<1>1. UNCHANGED <<family, kind, version>> /\ kind = "validate"
  BY DEF ReadDocument
<1>2. payload' = ToCurrentNames(wire)
  BY DEF ReadDocument
<1>3. DOMAIN wire = {VersionName(f, version) : f \in WireFields(version)}
      /\ \A f \in WireFields(version) : wire[VersionName(f, version)] = m[f]
  OBVIOUS
<1> HIDE DEF wire, m
<1>4. DOMAIN payload' = WF
  BY <1>2, <1>3, RenamedBack DEF Inv
<1>5. \A f \in WF : f \in Fields /\ f \in Places(f)
  BY OtherName DEF Places
<1>6. WireFields(version)' = WF /\ \A f \in WF : Places(f)' = Places(f)
  BY <1>1, <1>5, Fixed
<1> HIDE DEF WF
<1>7. \A f \in WF : Places(f)' \cap DOMAIN payload' # {}
  BY <1>4, <1>5, <1>6
<1>8. \A n \in DOMAIN payload' : \E f \in WF : n \in Places(f)'
  BY <1>4, <1>5, <1>6
<1>9. QED
  BY <1>1, <1>6, <1>7, <1>8 DEF Untouched

\* A field is normalised: it stays among its names.
LEMMA UntouchedNormalise ==
  ASSUME Inv, Untouched, NEW f \in Fields, Normalise(f)
  PROVE  Untouched'
<1>1. /\ UNCHANGED <<family, kind, version, phase, meant, result>>
      /\ phase = "normalise" /\ f \in todo /\ payload' = Normalised(f, payload)
  BY DEF Normalise
<1>2. Shape /\ Mapped(f) # {} /\ (kind = "validate" => Usable(f))
  BY <1>1 DEF Inv, Shape, Planned, Usable
<1> SUFFICES ASSUME Unambiguous, Callbacks = {} PROVE Untouched'
  BY <1>1, SameCallbacks DEF Untouched
<1>3. Held(f)
  BY <1>1 DEF Inv
<1>4. WireFields(version)' = WireFields(version) /\ WireFields(version) \subseteq Fields
      /\ \A g \in Fields : Places(g)' = Places(g)
  BY <1>1, Fixed, OtherName
<1>5. ASSUME kind = "validate"
      PROVE  /\ \A g \in WireFields(version) : Places(g) \cap DOMAIN payload' # {}
             /\ \A n \in DOMAIN payload' : \E g \in WireFields(version) : n \in Places(g)
  <2>1. /\ \A g \in WireFields(version) : Places(g) \cap DOMAIN payload # {}
        /\ \A n \in DOMAIN payload : \E g \in WireFields(version) : n \in Places(g)
    BY <1>1, <1>5 DEF Untouched
  <2>2. /\ Held(f)'
        /\ DOMAIN payload' \subseteq DOMAIN payload \cup Places(f)
        /\ DOMAIN payload \ Places(f) \subseteq DOMAIN payload'
        /\ \A n \in DOMAIN payload' \cap Places(f) : DOMAIN payload \cap Places(f) # {}
    <3>1. UNCHANGED <<family, kind, version, meant>>
      BY <1>1
    <3>2. /\ Held(f)'
          /\ DOMAIN payload' \subseteq DOMAIN payload \cup Places(f)
          /\ DOMAIN payload \ Places(f) \subseteq DOMAIN payload'
          /\ \A n \in DOMAIN payload' \cap Places(f) : \E i \in DOMAIN payload \cap Places(f) :
               payload'[n] = payload[i] /\ (n \in Mapped(f) => kind = "validate" \/ n = i)
                                       /\ (n = f => i = f \/ i \in Mapped(f))
      BY <1>1, <1>2, <1>3, <3>1, NormalisedField
    <3>3. QED
      BY <3>2
  <2>3. \A g \in Fields : g # f => Places(f) \cap Places(g) = {}
    BY DEF Unambiguous
  <2>4. ASSUME NEW g \in WireFields(version) PROVE Places(g) \cap DOMAIN payload' # {}
    <3>1. CASE g = f
      <4>1. PICK n \in Places(f) \cap DOMAIN payload : TRUE
        BY <2>1, <3>1
      <4>2. PICK i \in DOMAIN payload : payload[i] = meant[f]
        <5>1. Places(f) = {f} \cup Mapped(f)
          BY DEF Places, Mapped
        <5>2. QED
          BY <1>3, <4>1, <5>1 DEF Held
      <4>3. meant[f] # Unset
        BY <1>2, <4>2, NamesAssumption DEF Shape, TypeOK, Values, Unset
      <4>4. meant' = meant /\ Places(f)' = Places(f)
        BY <1>1, <1>4
      <4>5. QED
        BY <2>2, <3>1, <4>3, <4>4 DEF Held
    <3>2. CASE g # f
      BY <1>4, <2>1, <2>2, <2>3, <3>2
    <3>3. QED
      BY <3>1, <3>2
  <2>5. ASSUME NEW n \in DOMAIN payload'
        PROVE  \E g \in WireFields(version) : n \in Places(g)
    <3>1. CASE n \notin Places(f)
      BY <2>1, <2>2, <3>1
    <3>2. CASE n \in Places(f)
      <4>1. PICK i \in DOMAIN payload \cap Places(f) : TRUE
        BY <2>2, <3>2
      <4>2. PICK g \in WireFields(version) : i \in Places(g)
        BY <2>1, <4>1
      <4>3. g = f
        BY <1>4, <2>3, <4>1, <4>2
      <4>4. QED
        BY <3>2, <4>2, <4>3
    <3>3. QED
      BY <3>1, <3>2
  <2>6. QED
    BY <2>4, <2>5
<1>6. ASSUME kind = "dump"
      PROVE  DOMAIN payload' = DOMAIN payload /\ DOMAIN payload = Fields \ family.excluded
  <2>1. DOMAIN payload = Fields \ family.excluded
    BY <1>1, <1>6 DEF Untouched
  <2>2. Mapped(f) \cap Fields = {}
    <3>1. ASSUME NEW g \in Fields, g \in Mapped(f) PROVE FALSE
      BY <3>1, Apart DEF Mapped, Places
    <3>2. QED
      BY <3>1
  <2>3. CASE f \in DOMAIN payload
    <3>1. payload' = Without(payload, Mapped(f))
      BY <1>1, <1>6, <2>3 DEF Normalised
    <3>2. QED
      BY <2>1, <2>2, <3>1 DEF Without
  <2>4. CASE f \notin DOMAIN payload
    <3>1. family.aliases[f][1] \notin DOMAIN payload
      <4>1. 1 \in DOMAIN family.aliases[f]
        BY <1>2, FamilyShape DEF Mapped, Elements
      <4>2. family.aliases[f][1] \in Elements(family.aliases[f])
        BY <4>1 DEF Elements
      <4>3. QED
        BY <2>1, <2>2, <2>4, <4>2 DEF Mapped
    <3>2. payload' = payload
      BY <1>1, <2>4, <3>1 DEF Normalised
    <3>3. QED
      BY <2>1, <3>2
  <2>5. QED
    BY <2>3, <2>4
<1>7. kind' = kind /\ family' = family
  BY <1>1
<1>8. QED
  BY <1>4, <1>5, <1>6, <1>7 DEF Untouched

\* Without callbacks the current model finds every field that it requires, and nothing else.
LEMMA Accepted ==
  ASSUME Inv, Untouched, FinishValidate, Unambiguous, Callbacks = {},
         family.excluded \cap family.required = {}
  PROVE  phase' = "done"
<1> DEFINE key == [f \in Fields |-> CurrentKey(f, payload)]
<1>1. phase = "normalise" /\ kind = "validate" /\ todo = {}
  BY DEF FinishValidate
<1>2. Refused(payload, key, family.required) \/ phase' = "done"
  BY DEF FinishValidate
<1>3. Shape /\ (\A f \in Fields : Held(f) /\ OneWay(f)) /\ family.required \subseteq Fields
  BY <1>1, NamesAssumption DEF Inv, Shape, TypeOK, Family
<1>4. ASSUME NEW f \in Fields
      PROVE  Places(f) \cap DOMAIN payload \subseteq {key[f]}
  <2>1. HoldsOneWay(payload, family.aliases[f], f, Given(f, "default"), "default")
    BY <1>1, <1>3, CurrentHeld
  <2>2. family.aliases[f] \in Seq(Names) /\ Distinct(family.aliases[f]) /\ DOMAIN payload \subseteq Names
        /\ f \in Names
    BY <1>3, FamilyShape DEF Shape, TypeOK
  <2>3. ({f} \cup Elements(family.aliases[f])) \cap DOMAIN payload
          \subseteq {PayloadKey(payload, family.aliases[f], f)}
    BY <2>1, <2>2, ReadsHeld
  <2>4. QED
    BY <2>3 DEF CurrentKey, Places
<1>5. ASSUME NEW f \in family.required PROVE key[f] \in DOMAIN payload
  <2>1. f \in Fields /\ f \in WireFields(version)
    BY <1>1, <1>3, RequiredRead
  <2>2. Places(f) \cap DOMAIN payload # {}
    BY <1>1, <2>1 DEF Untouched
  <2>3. QED
    BY <1>4, <2>1, <2>2
<1>6. ASSUME NEW n \in DOMAIN payload PROVE n \in {key[f] : f \in DOMAIN key}
  <2>1. PICK f \in WireFields(version) : n \in Places(f)
    BY <1>1 DEF Untouched
  <2>2. f \in Fields
    BY OtherName
  <2>3. QED
    BY <1>4, <2>1, <2>2
<1>7. Unused(payload, {key[f] : f \in DOMAIN key}) = {}
  BY <1>6 DEF Unused
<1> HIDE DEF key
<1>8. QED
  BY <1>2, <1>5, <1>7 DEF Refused

\* Without callbacks the wire model finds every field of the version at its name, and
\* nothing else.
LEMMA AcceptedWire ==
  ASSUME Inv, Untouched, FinishRender, Unambiguous, Callbacks = {}
  PROVE  phase' = "done"
<1> DEFINE WF == WireFields(version)
           p == ToVersionNames(payload)
           key == [f \in WF |-> WireKey(f, p)]
           unused == Unused(p, {key[f] : f \in DOMAIN key})
           extras == IF family.extra = "allow" THEN unused ELSE {}
<1>1. phase = "normalise" /\ kind = "dump" /\ todo = {}
  BY DEF FinishRender
<1>2. Refused(p, key, WireRequired(version)) \/ Collides(extras) \/ phase' = "done"
  BY DEF FinishRender
<1>3. Shape /\ Foreign /\ \A f \in Fields : Held(f) /\ OneWay(f)
  BY <1>1 DEF Inv
<1> HIDE DEF p
<1>4. DOMAIN p = {VersionName(f, version) : f \in WF}
  <2>1. DOMAIN payload = Fields \ family.excluded
    BY <1>1 DEF Untouched
  <2>2. DOMAIN p = (DOMAIN payload \ (Renamed(version) \cup Removed(version)))
                    \cup {VersionName(f, version) : f \in Renamed(version) \cap DOMAIN payload}
    BY <1>3, VersionNames DEF p
  <2>3. WF = (DOMAIN payload \ (Renamed(version) \cup Removed(version)))
               \cup (Renamed(version) \cap DOMAIN payload)
    BY <2>1, OtherName DEF WireFields
  <2>4. \A f \in DOMAIN payload \ (Renamed(version) \cup Removed(version)) :
          VersionName(f, version) = f
    BY <2>1, OtherName
  <2> HIDE DEF WF
  <2>5. QED
    BY <2>2, <2>3, <2>4
<1>5. ASSUME NEW f \in WF PROVE key[f] = VersionName(f, version)
  <2>1. HoldsOneWay(p, WireAliases(f, version), VersionName(f, version),
                    Given(f, WireDefault(f, version)), WireDefault(f, version))
    BY <1>1, <1>3, WireHeld DEF p
  <2>2. f \in Fields /\ VersionName(f, version) \in Names /\ DOMAIN p \subseteq Names
    BY <1>3, NameOfField, OtherName, VersionType DEF p
  <2>3. WireAliases(f, version) \in Seq(Names) /\ Distinct(WireAliases(f, version))
    BY <1>3, <2>2, WireAliasesType
  <2>4. ({VersionName(f, version)} \cup Elements(WireAliases(f, version))) \cap DOMAIN p
          \subseteq {WireKey(f, p)}
    BY <2>1, <2>2, <2>3, ReadsHeld DEF WireKey
  <2>5. VersionName(f, version) \in DOMAIN p
    BY <1>4
  <2>6. QED
    BY <2>4, <2>5
<1>6. \A f \in WireRequired(version) : key[f] \in DOMAIN p
  BY <1>4, <1>5 DEF WireRequired
<1>7. unused = {} /\ extras = {}
  BY <1>4, <1>5 DEF Unused
<1> HIDE DEF key
<1>8. ~Refused(p, key, WireRequired(version))
  BY <1>6, <1>7 DEF Refused
<1>9. ~Collides(extras)
  BY <1>7 DEF Collides
<1>10. QED
  BY <1>2, <1>8, <1>9

\* Nothing has been read in the initial state.
LEMMA UntouchedInit == Init => Untouched /\ RefusedOnlyAfterCallbacks
  BY DEF Init, Untouched, RefusedOnlyAfterCallbacks

\* Every step leaves the payload untouched by others, and refuses nothing then.
LEMMA UntouchedStep ==
  Inv /\ Untouched /\ RefusedOnlyAfterCallbacks /\ [Next]_vars
    => Untouched' /\ RefusedOnlyAfterCallbacks'
<1> SUFFICES ASSUME Inv, Untouched, RefusedOnlyAfterCallbacks, [Next]_vars
             PROVE  Untouched' /\ RefusedOnlyAfterCallbacks'
  OBVIOUS
<1>1. UNCHANGED <<family, kind, version>>
  BY DEF Next, vars, ReadDocument, ReadModel, Callback, Settle, Normalise, FinishValidate,
         FinishRender, Return
<1>2. /\ Callbacks' = Callbacks /\ Unambiguous' = Unambiguous
      /\ WireFields(version)' = WireFields(version) /\ WireFields(version) \subseteq Fields
      /\ \A f \in Fields : Places(f)' = Places(f)
  BY <1>1, SameCallbacks, Fixed, OtherName
<1>3. CASE ReadDocument
  BY <1>3, UntouchedDocument DEF ReadDocument, RefusedOnlyAfterCallbacks
<1>4. CASE ReadModel
  <2>1. DOMAIN payload' = Fields \ family.excluded /\ kind = "dump" /\ phase' = "canonical"
    BY <1>4 DEF ReadModel
  <2>2. QED
    BY <1>1, <2>1 DEF Untouched, RefusedOnlyAfterCallbacks
<1>5. CASE Callback
  BY <1>2, <1>5 DEF Callback, Untouched, RefusedOnlyAfterCallbacks
<1>6. CASE Settle
  <2>1. payload' = payload /\ phase = "canonical" /\ phase' = "normalise"
    BY <1>6 DEF Settle
  <2>2. QED
    BY <1>1, <1>2, <2>1 DEF Untouched, RefusedOnlyAfterCallbacks
<1>7. ASSUME NEW f \in Fields, Normalise(f)
      PROVE  Untouched' /\ RefusedOnlyAfterCallbacks'
  BY <1>7, UntouchedNormalise DEF Normalise, RefusedOnlyAfterCallbacks
<1>8. CASE FinishValidate
  <2>1. phase' \in {"done", "refused"}
    BY <1>8 DEF FinishValidate
  <2>2. QED
    BY <1>1, <1>2, <1>8, <2>1, Accepted DEF Untouched, RefusedOnlyAfterCallbacks
<1>9. CASE FinishRender
  <2>1. phase' \in {"done", "refused"}
    BY <1>9 DEF FinishRender
  <2>2. QED
    BY <1>1, <1>2, <1>9, <2>1, AcceptedWire DEF Untouched, RefusedOnlyAfterCallbacks
<1>10. CASE Return
  BY <1>10 DEF Return, Untouched, RefusedOnlyAfterCallbacks
<1>11. CASE UNCHANGED vars
  BY <1>1, <1>2, <1>11 DEF vars, Untouched, RefusedOnlyAfterCallbacks
<1>12. QED
  BY <1>3, <1>4, <1>5, <1>6, <1>7, <1>8, <1>9, <1>10, <1>11 DEF Next

-----------------------------------------------------------------------------
(* The specification. *)

\* Nothing is held before a conversion.
LEMMA InitInv == Init => Inv
<1> SUFFICES ASSUME Init PROVE Inv
  OBVIOUS
<1>1. Shape
  BY DEF Init, Shape, TypeOK, Empty
<1>2. QED
  BY <1>1 DEF Init, Inv, ValidatedAsMeant, RenderedAsMeant

\* Every step preserves the invariant.
LEMMA NextInv == Inv /\ [Next]_vars => Inv'
<1> SUFFICES ASSUME Inv, [Next]_vars PROVE Inv'
  OBVIOUS
<1>1. CASE ReadDocument
  BY <1>1, ReadDocumentStep
<1>2. CASE ReadModel
  BY <1>2, ReadModelStep
<1>3. CASE Callback
  BY <1>3, CallbackStep
<1>4. CASE Settle
  BY <1>4, SettleStep
<1>5. CASE \E f \in Fields : Normalise(f)
  BY <1>5, NormaliseStep
<1>6. CASE FinishValidate
  BY <1>6, FinishValidateStep
<1>7. CASE FinishRender
  BY <1>7, FinishRenderStep
<1>8. CASE Return
  BY <1>8, ReturnStep
<1>9. CASE UNCHANGED vars
  <2>1. UNCHANGED <<family, kind, version, phase, payload, todo, meant, result>>
    BY <1>9 DEF vars
  <2>2. Shape'
    BY <2>1, Fixed DEF Inv, Shape, TypeOK
  <2>3. (Unambiguous /\ phase \in {"canonical", "normalise"} =>
          /\ \A f \in Fields : Held(f) /\ OneWay(f)
          /\ Foreign /\ Tagged)'
    <3>1. SUFFICES ASSUME Unambiguous, phase \in {"canonical", "normalise"}
                   PROVE  (\A f \in Fields : Held(f)' /\ OneWay(f)') /\ Foreign' /\ Tagged'
      BY <2>1, Fixed
    <3>2. (\A f \in Fields : Held(f) /\ OneWay(f)) /\ Foreign /\ Tagged
      BY <3>1 DEF Inv
    <3>3. ASSUME NEW f \in Fields PROVE Held(f)' /\ OneWay(f)'
      BY <2>1, <3>2, Fixed DEF Held, OneWay
    <3>4. Foreign' /\ Tagged'
      BY <2>1, <3>2, Fixed, OtherName DEF Foreign, Tagged
    <3>5. QED
      BY <3>3, <3>4
  <2>4. ValidatedAsMeant' /\ RenderedAsMeant'
    BY <2>1, Fixed, OtherName DEF Inv, ValidatedAsMeant, RenderedAsMeant, Given
  <2>5. QED
    BY <2>2, <2>3, <2>4 DEF Inv
<1>10. QED
  BY <1>1, <1>2, <1>3, <1>4, <1>5, <1>6, <1>7, <1>8, <1>9 DEF Next

LEMMA SpecInv == Spec => []Inv
  BY InitInv, NextInv, PTL DEF Spec

\* The type invariant.
THEOREM NamesTypeCorrect == Spec => []TypeOK
<1>1. Inv => TypeOK
  BY DEF Inv, Shape
<1>2. QED
  BY <1>1, SpecInv, PTL

\* Every field of the current model gets the value that is meant for it, for every history of
\* renames and removals, every aliases and every callbacks.
THEOREM ValidatedCorrect == Spec => []ValidatedAsMeant
<1>1. Inv => ValidatedAsMeant
  BY DEF Inv
<1>2. QED
  BY <1>1, SpecInv, PTL

\* Every field of the version gets the value that is meant for it, and no other field is
\* rendered.
THEOREM RenderedCorrect == Spec => []RenderedAsMeant
<1>1. Inv => RenderedAsMeant
  BY DEF Inv
<1>2. QED
  BY <1>1, SpecInv, PTL

\* What compile() checks of names and of fields that come in is enough: as long as no two
\* fields share a place, a conversion that no callback takes part in is never refused half
\* way, for every history of patches and all settings of the model (_compiler.py:583-613).
THEOREM RefusedCorrectly == Spec => []RefusedOnlyAfterCallbacks
<1>1. Spec => [](Inv /\ Untouched /\ RefusedOnlyAfterCallbacks)
  BY InitInv, NextInv, UntouchedInit, UntouchedStep, PTL DEF Spec
<1>2. QED
  BY <1>1, PTL
================================================================================
