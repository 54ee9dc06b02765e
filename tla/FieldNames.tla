------------------------------ MODULE FieldNames ------------------------------
(***************************************************************************)
(* Which value ends up in which field: names and aliases in a conversion   *)
(* of a family without embedded families (_compiler.py:583-775,            *)
(* _wire.py:196-311, _runtime_versioning.py:333-465 and 619-649).          *)
(*                                                                         *)
(* A value is represented by where it was put first: a value of a document *)
(* by its key, a value of a model by its field.  "new", "alias" and        *)
(* "stray" are what a callback puts at a field, at one of its aliases and  *)
(* elsewhere; "old" and "default" are the default patch of a version and   *)
(* the default of a field.                                                 *)
(*                                                                         *)
(* Aliases are names: paths into nested mappings are left out, and so are  *)
(* alias generators, explicit wire models, version metadata (see           *)
(* VersionMetadata) and what is in the values (see PayloadExtraction).     *)
(***************************************************************************)
EXTENDS Naturals, Sequences

CONSTANTS
  Fields,    \* the fields of the current model
  Names,     \* names of fields, aliases, and other keys of mappings
  Families   \* declarations of families

\* `patches[v]` are the patches of version v, at most one for each field; the last version
\* is the current one.  Edge v leads from version v to v + 1, and has callbacks or not.
\* `aliases[f]` are the choices of f's validation alias, `out[f]` is the name that f is
\* serialized to; `byAlias` and `byName` say how the model may be populated.
Patch == [kind : {"none", "removed", "default"}] \cup [kind : {"renamed"}, name : Names]
Distinct(s) == \A i, j \in DOMAIN s : s[i] = s[j] => i = j
Family(fam) ==
  /\ fam.patches \in Seq([Fields -> Patch]) /\ Len(fam.patches) > 0
  /\ \A f \in Fields : fam.patches[Len(fam.patches)][f].kind = "none"
  /\ fam.upgrades \subseteq 1 .. Len(fam.patches) - 1
  /\ fam.downgrades \subseteq 1 .. Len(fam.patches) - 1
  /\ fam.aliases \in [Fields -> Seq(Names)] /\ \A f \in Fields : Distinct(fam.aliases[f])
  /\ fam.out \in [Fields -> Names]
  /\ fam.required \subseteq Fields /\ fam.excluded \subseteq Fields
  /\ fam.byAlias \in BOOLEAN /\ fam.byName \in BOOLEAN
  /\ fam.extra \in {"ignore", "allow", "forbid"}
ASSUME NamesAssumption ==
  /\ Fields \subseteq Names
  /\ {"new", "alias", "stray", "old", "default", "unset", "absent"} \cap Names = {}
  /\ \A fam \in Families : Family(fam)

VARIABLES
  family,    \* the family
  kind,      \* "validate" or "dump"
  version,   \* the version that a document has, or that is asked for
  phase,     \* how far the conversion is
  payload,   \* a mapping: a function from some of the names
  todo,      \* the fields whose aliases are still to be normalised
  meant,     \* what each field should come to hold (ghost)
  result     \* the current model, or the mapping that is rendered
vars == <<family, kind, version, phase, payload, todo, meant, result>>

Values == Names \cup {"new", "alias", "stray", "old", "default"}
Unset == "unset"   \* no value
Absent == "absent" \* no key

Empty == [n \in {} |-> Unset]
Without(p, N) == [n \in DOMAIN p \ N |-> p[n]]
With(p, n, v) == [m \in DOMAIN p \cup {n} |-> IF m = n THEN v ELSE p[m]]
Elements(s) == {s[i] : i \in DOMAIN s}

-----------------------------------------------------------------------------
(* What is compiled for a version. *)

Current == Len(family.patches)
PatchOf(f, v) == family.patches[v][f]
Removed(v) == {f \in Fields : PatchOf(f, v).kind = "removed"}
VersionName(f, v) == IF PatchOf(f, v).kind = "renamed" THEN PatchOf(f, v).name ELSE f
Renamed(v) == {f \in Fields \ Removed(v) : VersionName(f, v) # f}

\* The fields of the wire model, and what it keeps of their declarations.
WireFields(v) == Fields \ (Removed(v) \cup family.excluded)
WireAliases(f, v) == IF f \in Renamed(v) THEN <<>> ELSE family.aliases[f]
WireOut(f, v) == IF f \in Renamed(v) THEN VersionName(f, v) ELSE family.out[f]
WireRequired(v) == {f \in WireFields(v) : f \in family.required /\ PatchOf(f, v).kind # "default"}
WireDefault(f, v) == IF PatchOf(f, v).kind = "default" THEN "old" ELSE "default"

\* Mutant of IntroducedAt: only the transition to the current version is examined.
IntroducedLast(v) ==
  {f \in Fields : v + 1 = Current /\ f \in Removed(v) \ Removed(v + 1)}

\* The fields that version v does not have and the next one has.
IntroducedAt(v) == Removed(v) \ Removed(v + 1)

\* compile() refuses two fields of one name, two fields with one place in the output, and a
\* required field that comes in without an upgrade that could supply it.
OwnNames ==
  \A v \in 1 .. Current : \A f, g \in Fields \ Removed(v) :
    VersionName(f, v) = VersionName(g, v) => f = g
OwnOutputs ==
  \A v \in 1 .. Current : \A f, g \in WireFields(v) : WireOut(f, v) = WireOut(g, v) => f = g
Introducible ==
  \A v \in 1 .. Current - 1 : IntroducedAt(v) \cap family.required # {} => v \in family.upgrades
Compiles == OwnNames /\ OwnOutputs /\ Introducible

\* Edges with a callback on the way, and whether there is a way.
Callbacks ==
  {v \in IF kind = "validate" THEN family.upgrades ELSE family.downgrades : version <= v}
Route == kind = "dump" =>
  \A v \in version .. Current - 1 : v \in family.upgrades => v \in family.downgrades

\* Places of a field in payloads of the current model and in documents of a version.
Places(f) == {f} \cup Elements(family.aliases[f])
WirePlaces(f, v) == {VersionName(f, v)} \cup Elements(WireAliases(f, v))

\* No place belongs to two fields.
Unambiguous ==
  /\ \A f, g \in Fields : f # g => Places(f) \cap Places(g) = {}
  /\ \A v \in 1 .. Current : \A f, g \in Fields \ Removed(v) :
       f # g => WirePlaces(f, v) \cap WirePlaces(g, v) = {}

-----------------------------------------------------------------------------
(* Where Pydantic looks for the value of a field. *)

Present(aliases, p) == {i \in DOMAIN aliases : aliases[i] \in DOMAIN p}
First(I) == CHOOSE i \in I : \A j \in I : i <= j

\* The key of p that a field is taken from: the first alias, or else the name, if they count.
Key(p, byAlias, aliases, byName, name) ==
  IF byAlias /\ Present(aliases, p) # {} THEN aliases[First(Present(aliases, p))]
  ELSE IF byName /\ name \in DOMAIN p THEN name
  ELSE Absent

\* A document is read as the model declares, a payload also by the names of fields.
NameCounts(f) ==
  family.byName \/ ~family.byAlias \/ WireAliases(f, version) = <<>>
DocumentKey(f, p) ==
  Key(p, family.byAlias, WireAliases(f, version), NameCounts(f), VersionName(f, version))
PayloadKey(p, aliases, name) == Key(p, family.byAlias, aliases, TRUE, name)
WireKey(f, p) == PayloadKey(p, WireAliases(f, version), VersionName(f, version))
CurrentKey(f, p) == PayloadKey(p, family.aliases[f], f)

Taken(p, key, default) == IF key \in DOMAIN p THEN p[key] ELSE default
Unused(p, keys) == DOMAIN p \ keys
Refused(p, key, required) ==
  \/ \E f \in required : key[f] \notin DOMAIN p
  \/ family.extra = "forbid" /\ Unused(p, {key[f] : f \in DOMAIN key}) # {}

-----------------------------------------------------------------------------
(* Between the names of a version and the current ones. *)

\* Mutant of ToCurrentNames: values are renamed one after the other in the same mapping.
ToCurrentNamesInPlace(p) ==
  LET R == Renamed(version)
      first == IF R = {} THEN R ELSE {CHOOSE f \in R : TRUE}
      \* the mapping once the first of the fields is renamed
      q == [n \in (DOMAIN p \ {VersionName(f, version) : f \in first}) \cup
                  {f \in first : VersionName(f, version) \in DOMAIN p} |->
              IF n \in first THEN p[VersionName(n, version)] ELSE p[n]]
      rest == R \ first
  IN [n \in (DOMAIN q \ {VersionName(f, version) : f \in rest}) \cup
            {f \in rest : VersionName(f, version) \in DOMAIN q} |->
        IF n \in rest THEN q[VersionName(n, version)] ELSE q[n]]

ToCurrentNames(p) ==
  LET R == Renamed(version)
      moved == {f \in R : VersionName(f, version) \in DOMAIN p}
  IN [n \in (DOMAIN p \ {VersionName(f, version) : f \in R}) \cup moved |->
        IF n \in moved THEN p[VersionName(n, version)] ELSE p[n]]

\* Mutant of ToVersionNames: removed fields are dropped after the others were renamed.
ToVersionNamesRemovedLast(p) ==
  LET moved == Renamed(version) \cap DOMAIN p
      kept == DOMAIN p \ Renamed(version)
      target == {VersionName(f, version) : f \in moved}
  IN [n \in (kept \cup target) \ Removed(version) |->
        IF n \in target THEN p[CHOOSE f \in moved : VersionName(f, version) = n] ELSE p[n]]

ToVersionNames(p) ==
  LET moved == Renamed(version) \cap DOMAIN p
      kept == DOMAIN p \ (Renamed(version) \cup Removed(version))
      target == {VersionName(f, version) : f \in moved}
  IN [n \in kept \cup target |->
        IF n \in target THEN p[CHOOSE f \in moved : VersionName(f, version) = n] ELSE p[n]]

(* Aliases that a callback used are normalised field by field. *)

Mapped(f) == Elements(family.aliases[f]) \ {f}
FirstMapped(f) == family.aliases[f][IF family.aliases[f][1] = f THEN 2 ELSE 1]
Planned ==
  IF kind = "validate"
  THEN {f \in Fields : family.byAlias /\ Mapped(f) # {}}
  ELSE {f \in WireFields(version) \ Renamed(version) : Mapped(f) # {}}

\* The name prevails.  Validation hands it over under the first alias.
Normalised(f, p) ==
  CASE f \in DOMAIN p /\ kind = "validate" ->
         With(Without(p, Mapped(f) \cup {f}), FirstMapped(f), p[f])
    [] f \in DOMAIN p /\ kind = "dump" -> Without(p, Mapped(f))
    [] f \notin DOMAIN p /\ family.aliases[f][1] \in DOMAIN p ->
         With(Without(p, {family.aliases[f][1]}), f, p[family.aliases[f][1]])
    [] OTHER -> p

-----------------------------------------------------------------------------
Init ==
  /\ family \in Families /\ Compiles
  /\ kind \in {"validate", "dump"} /\ version \in 1 .. Current /\ Route
  /\ phase = "begin" /\ payload = Empty /\ todo = {}
  /\ meant = [f \in Fields |-> Unset] /\ result = Empty

\* A document is validated as its version says, and its declared fields are extracted.
ReadDocument ==
  /\ phase = "begin" /\ kind = "validate"
  /\ \E D \in SUBSET Names : \E p \in {[n \in D |-> n]} :
     \E key \in {[f \in WireFields(version) |-> DocumentKey(f, p)]} :
       /\ ~Refused(p, key, WireRequired(version))
       /\ meant' = [f \in Fields |-> IF f \in WireFields(version)
                                     THEN Taken(p, key[f], WireDefault(f, version)) ELSE Unset]
       /\ \E wire \in {[n \in {VersionName(f, version) : f \in WireFields(version)} |->
                          meant'[CHOOSE f \in WireFields(version) : VersionName(f, version) = n]]} :
            payload' = ToCurrentNames(wire)
  /\ phase' = "canonical"
  /\ UNCHANGED <<family, kind, version, todo, result>>

\* The declared fields of a current model are extracted.
ReadModel ==
  /\ phase = "begin" /\ kind = "dump"
  /\ payload' = [f \in Fields \ family.excluded |-> f]
  /\ meant' = [f \in Fields |-> IF f \in family.excluded THEN Unset ELSE f]
  /\ phase' = "canonical"
  /\ UNCHANGED <<family, kind, version, todo, result>>

(* What callbacks do, one thing after the other. *)

\* A callback supplies a field.
Supply(f) ==
  /\ payload' = With(payload, f, "new") /\ meant' = [meant EXCEPT ![f] = "new"]

\* A callback drops a field.
Drop(f) ==
  /\ payload' = Without(payload, Places(f)) /\ meant' = [meant EXCEPT ![f] = Unset]

\* A callback supplies a field that is not there under one of its aliases.
SupplyAlias(f, n) ==
  /\ family.byAlias /\ Places(f) \cap DOMAIN payload = {} /\ n \in Elements(family.aliases[f])
  /\ kind = "dump" => f \in WireFields(version) \ Renamed(version)
  /\ payload' = With(payload, n, "alias") /\ meant' = [meant EXCEPT ![f] = "alias"]

\* A callback adds something that belongs to no field.
Add(n) ==
  /\ \A f \in Fields : n \notin Places(f)
  /\ \A f \in WireFields(version) : n \notin WirePlaces(f, version)
  /\ payload' = With(payload, n, "stray") /\ UNCHANGED meant

Callback ==
  /\ phase = "canonical" /\ Callbacks # {}
  /\ \/ \E f \in Fields : Supply(f) \/ Drop(f) \/ \E n \in Names : SupplyAlias(f, n)
     \/ \E n \in Names : Add(n)
  /\ UNCHANGED <<family, kind, version, phase, todo, result>>

\* The callbacks are done.
Settle ==
  /\ phase = "canonical"
  /\ phase' = "normalise" /\ todo' = Planned
  /\ UNCHANGED <<family, kind, version, payload, meant, result>>

Normalise(f) ==
  /\ phase = "normalise" /\ f \in todo
  /\ payload' = Normalised(f, payload) /\ todo' = todo \ {f}
  /\ UNCHANGED <<family, kind, version, phase, meant, result>>

\* The current model is validated.
FinishValidate ==
  /\ phase = "normalise" /\ kind = "validate" /\ todo = {}
  /\ \E key \in {[f \in Fields |-> CurrentKey(f, payload)]} :
       \/ /\ ~Refused(payload, key, family.required) /\ phase' = "done"
          /\ result' = [f \in Fields |-> Taken(payload, key[f], "default")]
       \/ /\ Refused(payload, key, family.required) /\ phase' = "refused"
          /\ UNCHANGED result
  /\ UNCHANGED <<family, kind, version, payload, todo, meant>>

\* Extras that a model allows may not be written to the place of a field.
Collides(extras) == extras \cap {WireOut(f, version) : f \in WireFields(version)} # {}

\* The fields of the wire model are serialized, and extras stay where they are.
Rendered(p, key, extras) ==
  [n \in {WireOut(f, version) : f \in WireFields(version)} \cup extras |->
     IF n \in extras THEN p[n]
     ELSE LET f == CHOOSE f \in WireFields(version) : WireOut(f, version) = n
          IN Taken(p, key[f], WireDefault(f, version))]

\* The wire model is validated and serialized.
FinishRender ==
  /\ phase = "normalise" /\ kind = "dump" /\ todo = {}
  /\ \E p \in {ToVersionNames(payload)} :
     \E key \in {[f \in WireFields(version) |-> WireKey(f, p)]} :
     \E extras \in {IF family.extra = "allow" THEN Unused(p, {key[f] : f \in DOMAIN key}) ELSE {}} :
       \/ /\ ~Refused(p, key, WireRequired(version)) /\ ~Collides(extras) /\ phase' = "done"
          /\ result' = Rendered(p, key, extras)
       \/ /\ Refused(p, key, WireRequired(version)) \/ Collides(extras)
          /\ phase' = "refused" /\ UNCHANGED result
  /\ UNCHANGED <<family, kind, version, payload, todo, meant>>

\* The caller calls again.
Return ==
  /\ phase \in {"done", "refused"}
  /\ phase' = "begin" /\ payload' = Empty /\ result' = Empty
  /\ meant' = [f \in Fields |-> Unset]
  /\ UNCHANGED <<family, kind, version, todo>>

Next ==
  \/ ReadDocument \/ ReadModel \/ Callback \/ Settle
  \/ \E f \in Fields : Normalise(f)
  \/ FinishValidate \/ FinishRender \/ Return

Spec == Init /\ [][Next]_vars
-----------------------------------------------------------------------------
TypeOK ==
  /\ family \in Families
  /\ kind \in {"validate", "dump"} /\ version \in 1 .. Current
  /\ phase \in {"begin", "canonical", "normalise", "done", "refused"}
  /\ DOMAIN payload \subseteq Names /\ \A n \in DOMAIN payload : payload[n] \in Values
  /\ todo \subseteq Fields
  /\ meant \in [Fields -> Values \cup {Unset}]
  /\ \A n \in DOMAIN result : n \in Names /\ result[n] \in Values

Given(f, default) == IF meant[f] = Unset THEN default ELSE meant[f]

\* Whatever is renamed, swapped or removed and whatever aliases callbacks use, every field of
\* the current model gets the value that the document has for it or that a callback gave it
\* last; what the document's version does not have cannot enter from the document
\* (docs/guide/generated-wire-contracts.md:238-247).
ValidatedAsMeant ==
  Unambiguous /\ phase = "done" /\ kind = "validate" => \A f \in Fields : result[f] = Given(f, "default")

\* The keys under which a document may have a field.
DocumentPlaces(f) ==
  (IF family.byAlias THEN Elements(WireAliases(f, version)) ELSE {})
    \cup (IF NameCounts(f) THEN {VersionName(f, version)} ELSE {})

\* The same if only the places in documents are told apart: "Unrenamed fields keep supported
\* validation and serialization aliases." (docs/guide/generated-wire-contracts.md:21)
ValidatedIfClear ==
  /\ \A f, g \in WireFields(version) : f # g => DocumentPlaces(f) \cap DocumentPlaces(g) = {}
  /\ phase = "done" /\ kind = "validate"
  => \A f \in Fields : result[f] = Given(f, "default")

\* Rendering writes the value of every field of the target version to its place, and no
\* value of any other field (docs/guide/generated-wire-contracts.md:18-21, 196).
RenderedAsMeant ==
  Unambiguous /\ phase = "done" /\ kind = "dump" =>
    /\ \A f \in WireFields(version) :
         result[WireOut(f, version)] = Given(f, WireDefault(f, version))
    /\ \A n \in DOMAIN result : result[n] \notin Fields \ WireFields(version)

\* What compile() refuses is enough: without callbacks no valid document and no model is
\* refused half way (_compiler.py:583-613).
RefusedOnlyAfterCallbacks ==
  Unambiguous /\ phase = "refused" /\ family.excluded \cap family.required = {} => Callbacks # {}
================================================================================
