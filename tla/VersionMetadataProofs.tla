----------------------- MODULE VersionMetadataProofs -----------------------
(***************************************************************************)
(* Proofs about VersionMetadata, for any threads and documents, any number *)
(* of versions and any map between them, whoever owns the labels.          *)
(***************************************************************************)
EXTENDS VersionMetadata, TLAPS

\* What callbacks left alone contains no label that a family owns.  An embedded value with
\* the names of its explicit source model has the label of that model, until its first edge.
Hidden(o) ==
  /\ o.pc = "called" => o.canonical
  /\ o.pc = "walking" /\ ~o.canonical => o.child = ChildMap[o.pos]
  /\ o.pc \in {"walking", "called"} =>
       /\ Owner = "family" /\ "own" \notin o.meddled => o.own = 0
       /\ ChildOwner = "family" /\ o.canonical /\ "child" \notin o.meddled => o.child = 0

\* The embedded value's label in a document of the version that was asked for.
DueChild(o) == IF ChildOwner = "family" THEN 0 ELSE ChildMap[o.given]

\* What each place that handles labels may rely on.  The model refuses no label that the
\* payload has (labelled), unless a callback wrote the family's own one and dump leaves it
\* to an explicit target model; what is serialized is as requested, unless a serializer
\* wrote labels (dumped); what the last place finds is already right for the embedded
\* value (pruned).
Requested(o) ==
  /\ o.pc \in {"projected", "labelled", "dumped", "pruned", "rendered"} => o.kind = "render"
  /\ o.pc \in {"projected", "labelled"} => o.child \in {0, ChildMap[o.given]}
  /\ o.pc = "projected" /\ Owner = "family" /\ "own" \notin o.meddled => o.own = 0
  /\ o.pc = "labelled" =>
       \/ o.own = o.given
       \/ /\ Owner = "family" /\ o.given \in Explicit \cup {Size}
          /\ "own" \notin o.meddled => o.own = 0
  /\ o.pc \in {"dumped", "pruned"} /\ (Owner = "family" \/ "serialized" \notin o.meddled) =>
       o.own = o.given
  /\ o.pc = "dumped" /\ "serialized" \notin o.meddled => o.child = ChildMap[o.given]
  /\ o.pc \in {"pruned", "rendered"} => o.child = DueChild(o)
  /\ o.pc = "rendered" => o.own = IF o.body THEN 0 ELSE o.given
  /\ o.pc = "mislabelled" => Standing(o)

\* A validation starts where its source is.  A rendering goes back from the current version
\* to the one that was asked for, calls nobody when these are the same, and has output
\* without a label only where the family owns it.
OnRoute(o) ==
  /\ o.kind = "validate" /\ o.pc \in {"begun", "checked"} => o.pos = o.source
  /\ o.kind = "render" =>
       /\ o.given \in 1 .. o.pos
       /\ o.given = Size => o.pc # "called" /\ "own" \notin o.meddled
       /\ o.body /\ o.pc # "refused" => Owner = "family"

\* The inductive invariant.
Good(o) == OnRoute(o) /\ Hidden(o) /\ Requested(o)
OpsInv == TypeOK /\ \A t \in Threads : Good(op[t])

\* The label that the caller wrote is the one that a validation works with, for as long as
\* the document is in use.
Written(o) == wrote[MappingOf[o.doc]]
Read(o) ==
  o.kind = "validate" =>
    /\ o.pc = "begun" => o.source = Detected(o.doc, o.given)
    /\ o.pc = "checked" =>
         o.source = IF Written(o) # 0 THEN Written(o)
                    ELSE IF o.given # 0 THEN o.given ELSE MissingVersion
ReadInv == TypeOK /\ RemovedPrivately /\ \A t \in Threads : Read(op[t])

-----------------------------------------------------------------------------
(* What a step does to operations. *)

LEMMA IdleOp ==
  NoOp \in Op /\ NoOp.pc = "idle" /\ NoOp.kind = "validate" /\ NoOp.pos = Size /\ ~NoOp.body
    /\ NoOp.meddled = {}
<1>1. (CHOOSE d \in Docs : TRUE) \in Docs
  BY MetadataAssumption
<1> QED
  BY <1>1, VersionsAssumption DEF NoOp, Op, Labels, ChildLabels

\* A thread performs the operation o next.
Performs(t, o) == o \in Op /\ Step(t, o) /\ UNCHANGED metadata

LEMMA Performed ==
  ASSUME TypeOK, NEW t \in Threads, NEW o, Performs(t, o), UNCHANGED <<wrote, embedded>>,
         declared' \in [Mappings -> Labels \cup {0}]
  PROVE  TypeOK' /\ op'[t] = o /\ \A s \in Threads \ {t} : op'[s] = op[s]
  BY DEF TypeOK, Performs, Step

LEMMA WriteType ==
  ASSUME TypeOK, NEW d \in Docs, NEW label \in Labels \cup {0},
         NEW child \in ChildLabels \cup {0}, Write(d, label, child)
  PROVE  TypeOK' /\ op' = op /\ metadata' = metadata
  BY MetadataAssumption DEF TypeOK, Write

LEMMA KeepType ==
  ASSUME TypeOK, NEW t \in Threads, NEW d \in Docs, Keep(t, d)
  PROVE  TypeOK' /\ op'[t] = NoOp /\ \A s \in Threads \ {t} : op'[s] = op[s]
<1>1. op[t].own \in Labels \cup {0} /\ op[t].child \in ChildLabels \cup {0}
  BY DEF TypeOK, Op
<1> QED
  BY <1>1, IdleOp, MetadataAssumption DEF TypeOK, Keep, Step

\* Validations that end at once, and validations that begin.
LEMMA Ended ==
  ASSUME NEW b \in Op, NEW pc \in {"missing", "refused"}
  PROVE  LET n == [b EXCEPT !.pc = pc]
         IN n \in Op /\ n.pc = pc /\ n.kind = b.kind /\ n.doc = b.doc /\ n.given = b.given
  BY DEF Op

LEMMA Sourced ==
  ASSUME NEW b \in Op, NEW source \in Labels
  PROVE  LET n == [b EXCEPT !.pc = "begun", !.source = source, !.pos = source]
         IN n \in Op /\ n.pc = "begun" /\ n.kind = b.kind /\ n.doc = b.doc /\ n.given = b.given
              /\ n.source = source /\ n.pos = source
  BY DEF Op

LEMMA BeginValidateType ==
  ASSUME TypeOK, NEW t \in Threads, NEW d \in Docs, NEW explicit \in Labels \cup {0},
         BeginValidate(t, d, explicit)
  PROVE  TypeOK' /\ \E o :
           /\ Performs(t, o)
           /\ o.kind = "validate" /\ o.doc = d /\ o.given = explicit
           /\ o.pc \in {"missing", "refused", "begun"}
           /\ o.pc = "missing" => Detected(d, explicit) = 0
           /\ o.pc = "begun" => o.source = Detected(d, explicit) /\ o.pos = o.source
<1> DEFINE source == Detected(d, explicit)
           b == [NoOp EXCEPT !.doc = d, !.given = explicit]
<1>1. source \in Labels \cup {0}
  BY VersionsAssumption, MetadataAssumption DEF Detected, TypeOK
<1>2. b \in Op /\ b.kind = "validate" /\ b.doc = d /\ b.given = explicit
  <2>1. NoOp \in Op /\ NoOp.kind = "validate"
    BY IdleOp
  <2>2. ASSUME NEW o \in Op
        PROVE  LET n == [o EXCEPT !.doc = d, !.given = explicit]
               IN n \in Op /\ n.kind = o.kind /\ n.doc = d /\ n.given = explicit
    BY DEF Op
  <2> QED
    BY <2>1, <2>2, Zenon
<1>3. \/ source = 0 /\ Step(t, [b EXCEPT !.pc = "missing"])
      \/ source # 0 /\ Step(t, [b EXCEPT !.pc = "refused"])
      \/ source # 0 /\ Step(t, [b EXCEPT !.pc = "begun", !.source = source, !.pos = source])
  BY DEF BeginValidate
<1> HIDE DEF source, b
<1>4. PICK o \in Op :
        /\ Step(t, o) /\ o.kind = "validate" /\ o.doc = d /\ o.given = explicit
        /\ o.pc \in {"missing", "refused", "begun"}
        /\ o.pc = "missing" => source = 0
        /\ o.pc = "begun" => o.source = source /\ o.pos = source
  <2>1. CASE source = 0 /\ Step(t, [b EXCEPT !.pc = "missing"])
    <3> DEFINE o == [b EXCEPT !.pc = "missing"]
    <3>1. o \in Op /\ o.pc = "missing" /\ o.kind = "validate" /\ o.doc = d /\ o.given = explicit
      BY <1>2, Ended
    <3> HIDE DEF o
    <3> QED
      BY <2>1, <3>1 DEF o
  <2>2. CASE source # 0 /\ Step(t, [b EXCEPT !.pc = "refused"])
    <3> DEFINE o == [b EXCEPT !.pc = "refused"]
    <3>1. o \in Op /\ o.pc = "refused" /\ o.kind = "validate" /\ o.doc = d /\ o.given = explicit
      BY <1>2, Ended
    <3> HIDE DEF o
    <3> QED
      BY <2>2, <3>1 DEF o
  <2>3. CASE source # 0 /\ Step(t, [b EXCEPT !.pc = "begun", !.source = source, !.pos = source])
    <3> DEFINE o == [b EXCEPT !.pc = "begun", !.source = source, !.pos = source]
    <3>1. o \in Op /\ o.pc = "begun" /\ o.kind = "validate" /\ o.doc = d /\ o.given = explicit
            /\ o.source = source /\ o.pos = source
      BY <1>1, <1>2, <2>3, Sourced
    <3> HIDE DEF o
    <3> QED
      BY <2>3, <3>1 DEF o
  <2> QED
    BY <1>3, <2>1, <2>2, <2>3
<1>5. UNCHANGED <<metadata, declared, wrote, embedded>>
  BY DEF BeginValidate
<1> QED
  BY <1>4, <1>5 DEF Performs, Step, TypeOK, source

LEMMA BeginRenderType ==
  ASSUME TypeOK, NEW t \in Threads, NEW d \in Docs, NEW label \in Labels, NEW body \in BOOLEAN,
         BeginRender(t, d, label, body)
  PROVE  LET n == op'[t]
         IN /\ Performs(t, n) /\ Good(n)
            /\ n.kind = "render" /\ n.pc \in {"checked", "refused"}
<1> DEFINE b == [NoOp EXCEPT !.kind = "render", !.doc = d, !.given = label, !.body = body]
<1>1. b \in Op /\ b.kind = "render" /\ b.given = label /\ b.pos = Size /\ b.body = body
        /\ b.meddled = {}
  <2>1. NoOp \in Op /\ NoOp.pos = Size /\ NoOp.meddled = {}
    BY IdleOp
  <2>2. ASSUME NEW o \in Op
        PROVE  LET n == [o EXCEPT !.kind = "render", !.doc = d, !.given = label, !.body = body]
               IN n \in Op /\ n.kind = "render" /\ n.given = label /\ n.pos = o.pos
                    /\ n.body = body /\ n.meddled = o.meddled
    BY DEF Op
  <2> QED
    BY <2>1, <2>2, Zenon
<1>2. \E pc \in {"checked", "refused"} :
        Step(t, [b EXCEPT !.pc = pc]) /\ (pc = "checked" /\ body => Owner = "family")
  BY DEF BeginRender
<1>3. UNCHANGED metadata
  BY DEF BeginRender
<1> HIDE DEF b
<1>4. PICK pc \in {"checked", "refused"} :
        Step(t, [b EXCEPT !.pc = pc]) /\ (pc = "checked" /\ body => Owner = "family")
  BY <1>2
<1> DEFINE n == [b EXCEPT !.pc = pc]
<1>5. n \in Op /\ n.kind = "render" /\ n.given = label /\ n.pos = Size /\ n.pc = pc
        /\ n.body = body /\ n.meddled = {}
  BY <1>1, <1>4 DEF Op
<1>6. Step(t, n)
  BY <1>4
<1> HIDE DEF n
<1>7. label \in 1 .. Size
  BY DEF Labels
<1>8. Good(n)
  BY <1>4, <1>5, <1>7 DEF Good, OnRoute, Hidden, Requested
<1> QED
  BY <1>3, <1>5, <1>6, <1>8 DEF Performs, Step, TypeOK

LEMMA CheckSourceType ==
  ASSUME TypeOK, NEW t \in Threads, Good(op[t]), CheckSource(t)
  PROVE  LET o == op[t]
             n == op'[t]
         IN /\ Performs(t, n) /\ Good(n)
            /\ n.kind = o.kind /\ n.given = o.given /\ n.doc = o.doc /\ n.source = o.source
            /\ n.pc \in {"checked", "refused"}
            /\ n.pc = "checked" => LabelIn(t) \in {0, o.source}
<1> DEFINE o == op[t]
           pc == IF LabelIn(t) \in {0, o.source} /\ ChildAgrees(o.doc, o.source)
                 THEN "checked" ELSE "refused"
           n == [o EXCEPT !.pc = pc]
<1>1. pc \in {"checked", "refused"} /\ (pc = "checked" => LabelIn(t) \in {0, o.source})
  OBVIOUS
<1>2. Step(t, n) /\ UNCHANGED metadata /\ o.pc = "begun"
  BY DEF CheckSource
<1> HIDE DEF pc
<1>3. o \in Op
  BY DEF TypeOK
<1>4. n \in Op /\ n.kind = o.kind /\ n.given = o.given /\ n.pos = o.pos /\ n.body = o.body
        /\ n.doc = o.doc /\ n.source = o.source /\ n.pc = pc /\ n.meddled = o.meddled
  BY <1>1, <1>3 DEF Op
<1> HIDE DEF n
<1>5. Good(n)
  BY <1>1, <1>2, <1>4 DEF Good, OnRoute, Hidden, Requested
<1> QED
  BY <1>1, <1>2, <1>4, <1>5 DEF Performs, Step, TypeOK

LEMMA ExtractType ==
  ASSUME TypeOK, NEW t \in Threads, Good(op[t]), Extract(t)
  PROVE  LET n == op'[t]
         IN TypeOK' /\ Performs(t, n) /\ Good(n) /\ n.pc = "walking"
<1> DEFINE o == op[t]
           wire == o.kind = "validate" /\ o.source \in Explicit /\ ~Discovered
           own == CurrentName(Owner, Size)
           child == IF wire THEN ChildMap[o.source] ELSE CurrentChild
           n == [o EXCEPT !.pc = "walking", !.own = own, !.child = child, !.canonical = ~wire]
<1>1. Step(t, n) /\ UNCHANGED <<metadata, wrote, embedded>> /\ o.pc = "checked"
  BY DEF Extract
<1>2. o \in Op
  BY DEF TypeOK
<1>3. o.source \in Labels /\ MappingOf[o.doc] \in Mappings
  BY <1>2, MetadataAssumption DEF Op
<1>4. declared' \in [Mappings -> Labels \cup {0}]
  BY <1>3 DEF TypeOK, Extract
<1>5. own \in Labels \cup {0} /\ child \in ChildLabels \cup {0}
  BY <1>3, VersionsAssumption DEF CurrentName, CurrentChild, Labels, ChildLabels
<1>6. wire \in BOOLEAN /\ (~wire => child = CurrentChild)
      /\ (wire => o.kind = "validate" /\ child = ChildMap[o.source])
  OBVIOUS
<1>7. (Owner = "family" => own = 0) /\ (ChildOwner = "family" => CurrentChild = 0)
  BY DEF CurrentName, CurrentChild
<1> HIDE DEF own, child, wire
<1>8. n \in Op /\ n.kind = o.kind /\ n.given = o.given /\ n.pos = o.pos /\ n.pc = "walking"
        /\ n.own = own /\ n.child = child /\ n.canonical = ~wire /\ n.body = o.body
        /\ n.meddled = o.meddled
  BY <1>2, <1>5, <1>6 DEF Op
<1> HIDE DEF n
<1>9. Performs(t, n)
  BY <1>1, <1>8 DEF Performs
<1>10. TypeOK' /\ op'[t] = n
  BY <1>1, <1>4, <1>9, Performed
<1>11. OnRoute(n)
  BY <1>1, <1>8 DEF Good, OnRoute
<1>12. Hidden(n)
  BY <1>1, <1>6, <1>7, <1>8 DEF Good, OnRoute, Hidden
<1>13. Requested(n)
  BY <1>8 DEF Requested
<1> QED
  BY <1>8, <1>9, <1>10, <1>11, <1>12, <1>13 DEF Good

\* Whether the embedded value is converted or has canonical names already, it hides the
\* label of its family from the callback.
LEMMA EdgeType ==
  ASSUME TypeOK, NEW t \in Threads, Good(op[t]), Edge(t)
  PROVE  LET n == op'[t]
         IN Performs(t, n) /\ Good(n) /\ n.pc = "called"
<1> DEFINE o == op[t]
           child == IF Converted(o) THEN Rebased(ChildOwner, o.child, ChildMap[Ahead(o)]) ELSE o.child
           n == [o EXCEPT !.pc = "called", !.pos = Ahead(o), !.child = child, !.canonical = TRUE]
<1>1. Step(t, n) /\ UNCHANGED metadata /\ o.pc = "walking"
  BY DEF Edge
<1>2. o \in Op /\ o.pos # Target(o) /\ OnRoute(o) /\ Hidden(o)
  BY DEF TypeOK, Edge, Good
<1>3. /\ Ahead(o) \in Labels
      /\ o.kind = "render" => o.given \in 1 .. Ahead(o) /\ o.given # Size
  BY <1>2, VersionsAssumption DEF Op, OnRoute, Ahead, Target, Labels
<1>4. /\ child \in ChildLabels \cup {0}
      /\ ChildOwner = "family" => child = 0 \/ (o.canonical /\ child = o.child)
  <2>1. ChildMap[Ahead(o)] \in ChildLabels /\ o.child \in ChildLabels \cup {0}
    BY <1>2, <1>3, VersionsAssumption DEF Op
  <2>2. CASE Converted(o)
    <3>1. child = Rebased(ChildOwner, o.child, ChildMap[Ahead(o)])
      BY <2>2, Zenon
    <3> HIDE DEF child
    <3> QED
      BY <2>1, <3>1 DEF Rebased
  <2>3. CASE ~Converted(o)
    <3>1. child = o.child
      BY <2>3, Zenon
    <3>2. o.canonical
      BY <2>3, Zenon DEF Converted
    <3> HIDE DEF child
    <3> QED
      BY <2>1, <3>1, <3>2
  <2> QED
    BY <2>2, <2>3
<1> HIDE DEF child
<1>5. n \in Op /\ n.pc = "called" /\ n.pos = Ahead(o) /\ n.child = child /\ n.canonical
        /\ n.own = o.own /\ n.meddled = o.meddled /\ n.kind = o.kind /\ n.given = o.given
        /\ n.body = o.body
  BY <1>2, <1>3, <1>4 DEF Op
<1> HIDE DEF n
<1>6. OnRoute(n)
  BY <1>1, <1>2, <1>3, <1>5 DEF OnRoute
<1>7. Hidden(n)
  BY <1>1, <1>2, <1>4, <1>5 DEF Hidden
<1>8. Requested(n)
  BY <1>5 DEF Requested
<1> QED
  BY <1>1, <1>5, <1>6, <1>7, <1>8 DEF Good, Performs, Step, TypeOK

LEMMA CallbackType ==
  ASSUME TypeOK, NEW t \in Threads, Good(op[t]), NEW own \in Labels \cup {0},
         NEW child \in ChildLabels \cup {0}, Callback(t, own, child)
  PROVE  LET n == op'[t]
         IN Performs(t, n) /\ Good(n) /\ n.pc = "walking"
<1> DEFINE o == op[t]
           meddled == o.meddled \cup (IF own # o.own THEN {"own"} ELSE {})
                                \cup (IF child # o.child THEN {"child"} ELSE {})
           n == [o EXCEPT !.pc = "walking", !.own = own, !.child = child, !.meddled = meddled]
<1>1. Step(t, n) /\ UNCHANGED metadata /\ o.pc = "called"
  BY DEF Callback
<1>2. o \in Op /\ OnRoute(o) /\ Hidden(o)
  BY DEF TypeOK, Good
<1>3. /\ meddled \in SUBSET {"own", "child", "serialized"}
      /\ "own" \notin meddled => "own" \notin o.meddled /\ own = o.own
      /\ "child" \notin meddled => "child" \notin o.meddled /\ child = o.child
  BY <1>2 DEF Op
<1> HIDE DEF meddled
<1>4. n \in Op /\ n.pc = "walking" /\ n.own = own /\ n.child = child /\ n.meddled = meddled
        /\ n.canonical = o.canonical /\ n.kind = o.kind /\ n.given = o.given /\ n.pos = o.pos
        /\ n.body = o.body
  BY <1>2, <1>3 DEF Op
<1> HIDE DEF n
<1>5. OnRoute(n)
  BY <1>1, <1>2, <1>4 DEF OnRoute
<1>6. Hidden(n)
  BY <1>1, <1>2, <1>3, <1>4 DEF Hidden
<1>7. Requested(n)
  BY <1>4 DEF Requested
<1> QED
  BY <1>1, <1>4, <1>5, <1>6, <1>7 DEF Good, Performs, Step, TypeOK

\* A refusal for a label that stands is a good one.
LEMMA MislabelledType ==
  ASSUME TypeOK, NEW t \in Threads, Good(op[t]), Standing(op[t]), Step(t, Mislabelled(op[t])),
         UNCHANGED metadata
  PROVE  LET n == op'[t]
         IN Performs(t, n) /\ Good(n) /\ n.pc = "mislabelled"
<1> DEFINE o == op[t]
           n == Mislabelled(o)
<1>1. o \in Op /\ o.given \in Labels \cup {0} /\ o.meddled \in SUBSET {"own", "child", "serialized"}
        /\ o.kind \in {"validate", "render"} /\ o.pos \in 1 .. Size
  BY DEF TypeOK, Op, Labels
<1>2. /\ n \in Op /\ n.pc = "mislabelled" /\ n.kind = o.kind /\ n.given = o.given
      /\ n.meddled = o.meddled /\ n.pos = Size /\ ~n.body
  <2>1. NoOp \in Op /\ NoOp.pos = Size /\ ~NoOp.body
    BY IdleOp
  <2>2. ASSUME NEW m \in Op
        PROVE  LET r == [m EXCEPT !.pc = "mislabelled", !.kind = o.kind, !.given = o.given,
                                  !.meddled = o.meddled]
               IN /\ r \in Op /\ r.pc = "mislabelled" /\ r.kind = o.kind /\ r.given = o.given
                  /\ r.meddled = o.meddled /\ r.pos = m.pos /\ r.body = m.body
    BY <1>1 DEF Op
  <2> QED
    BY <2>1, <2>2, Zenon DEF Mislabelled
<1> HIDE DEF n
<1>3. o.kind = "render" => o.given \in 1 .. Size /\ (o.given = Size => "own" \notin o.meddled)
  BY <1>1, VersionsAssumption DEF Good, OnRoute
<1>4. Standing(n)
  BY <1>2 DEF Standing
<1>5. Good(n)
  BY <1>2, <1>3, <1>4 DEF Good, OnRoute, Hidden, Requested
<1> QED
  BY <1>2, <1>5 DEF Performs, Step, TypeOK, n

\* Projection finds a label it does not accept only if a callback wrote it.
LEMMA ProjectType ==
  ASSUME TypeOK, NEW t \in Threads, Good(op[t]), Project(t)
  PROVE  LET n == op'[t]
         IN /\ Performs(t, n) /\ Good(n)
            /\ n.pc \in {"projected", "validated", "mislabelled"}
<1> DEFINE o == op[t]
           pc == IF o.kind = "render" THEN "projected" ELSE "validated"
           child == ProjectedChild(o)
           n == [o EXCEPT !.pc = pc, !.child = child]
<1>1. o \in Op /\ o.pc = "walking" /\ o.pos = Target(o) /\ UNCHANGED metadata
        /\ OnRoute(o) /\ Hidden(o)
  BY DEF TypeOK, Project, Good
<1>2. \/ ChildProjectable(o) /\ Step(t, n)
      \/ ~ChildProjectable(o) /\ Step(t, Mislabelled(o))
  BY DEF Project
<1>3. CASE Step(t, n)
  <2>1. pc \in {"projected", "validated"} /\ (pc = "projected" => o.kind = "render")
    OBVIOUS
  <2>2. o.kind = "render" => o.given \in Labels /\ Target(o) = o.given
    BY <1>1 DEF OnRoute, Op, Labels, Target
  <2>3. Target(o) \in Labels
    BY <1>1 DEF Op
  <2>4. child \in ChildLabels \cup {0} /\ (o.kind = "render" => child \in {0, ChildMap[o.given]})
    BY <2>2, <2>3, VersionsAssumption DEF ProjectedChild, Rebased
  <2> HIDE DEF pc, child
  <2>5. n \in Op /\ n.pc = pc /\ n.child = child /\ n.own = o.own /\ n.kind = o.kind
          /\ n.given = o.given /\ n.pos = o.pos /\ n.body = o.body /\ n.meddled = o.meddled
    BY <1>1, <2>1, <2>4 DEF Op
  <2> HIDE DEF n
  <2>6. OnRoute(n)
    BY <1>1, <2>1, <2>5 DEF OnRoute
  <2>7. Hidden(n)
    BY <2>1, <2>5 DEF Hidden
  <2>8. Requested(n)
    BY <1>1, <2>1, <2>4, <2>5 DEF Requested, Hidden
  <2> QED
    BY <1>1, <1>3, <2>1, <2>5, <2>6, <2>7, <2>8 DEF Good, Performs, Step, TypeOK
<1>4. CASE ~ChildProjectable(o) /\ Step(t, Mislabelled(o))
  <2>1. ChildOwner = "family" /\ o.child \notin {0, ChildMap[o.pos]}
    BY <1>1, <1>4 DEF ChildProjectable
  <2>2. "child" \in o.meddled
    BY <1>1, <2>1 DEF Hidden
  <2>3. Standing(o)
    BY <2>1, <2>2 DEF Standing
  <2> QED
    BY <1>1, <1>4, <2>3, MislabelledType
<1> QED
  BY <1>2, <1>3, <1>4

LEMMA SetOwnType ==
  ASSUME TypeOK, NEW t \in Threads, Good(op[t]), SetOwn(t)
  PROVE  LET n == op'[t]
         IN Performs(t, n) /\ Good(n) /\ n.pc = "labelled"
<1> DEFINE o == op[t]
           own == IF Owner = "model" \/ o.given \notin Explicit \cup {Size} THEN o.given ELSE o.own
           n == [o EXCEPT !.pc = "labelled", !.own = own]
<1>1. Step(t, n) /\ UNCHANGED metadata /\ o \in Op /\ o.pc = "projected" /\ o.kind = "render"
        /\ OnRoute(o) /\ Requested(o)
  BY DEF SetOwn, TypeOK, Good, Requested
<1>2. Owner \in {"family", "model"}
  BY MetadataAssumption DEF TypeOK, Owner
<1>3. /\ own \in Labels \cup {0}
      /\ \/ own = o.given
         \/ /\ Owner = "family" /\ o.given \in Explicit \cup {Size}
            /\ "own" \notin o.meddled => own = 0
  BY <1>1, <1>2 DEF Op, Requested
<1> HIDE DEF own
<1>4. n \in Op /\ n.pc = "labelled" /\ n.own = own /\ n.child = o.child /\ n.kind = o.kind
        /\ n.given = o.given /\ n.pos = o.pos /\ n.body = o.body /\ n.meddled = o.meddled
  BY <1>1, <1>3 DEF Op
<1> HIDE DEF n
<1>5. OnRoute(n)
  BY <1>1, <1>4 DEF OnRoute
<1>6. Hidden(n)
  BY <1>4 DEF Hidden
<1>7. Requested(n)
  BY <1>1, <1>3, <1>4 DEF Requested
<1> QED
  BY <1>1, <1>4, <1>5, <1>6, <1>7 DEF Good, Performs, Step, TypeOK

\* The target model finds another label than its own only if a callback wrote it.
LEMMA SerializeType ==
  ASSUME TypeOK, NEW t \in Threads, Good(op[t]), NEW own \in Labels \cup {0},
         NEW child \in ChildLabels \cup {0}, Serialize(t, own, child)
  PROVE  LET n == op'[t]
         IN Performs(t, n) /\ Good(n) /\ n.pc \in {"dumped", "mislabelled"}
<1> DEFINE o == op[t]
           kept == own = o.given /\ child = ChildMap[o.given]
           meddled == IF kept THEN o.meddled ELSE o.meddled \cup {"serialized"}
           n == [o EXCEPT !.pc = "dumped", !.own = own, !.child = child, !.meddled = meddled]
           accepted == Literal(o.own, o.given) /\ Literal(o.child, ChildMap[o.given])
<1>1. /\ o \in Op /\ o.pc = "labelled" /\ o.kind = "render" /\ OnRoute(o) /\ Requested(o)
      /\ UNCHANGED metadata
  BY DEF Serialize, TypeOK, Good, Requested
<1>2. /\ Owner = "family" => own = o.given
      /\ \/ accepted /\ Step(t, n)
         \/ ~accepted /\ Step(t, Mislabelled(o))
  BY DEF Serialize
<1>3. CASE Step(t, n)
  <2>1. /\ meddled \in SUBSET {"own", "child", "serialized"}
        /\ "own" \in meddled => "own" \in o.meddled
        /\ "serialized" \notin meddled => kept
    BY <1>1 DEF Op
  <2> HIDE DEF meddled
  <2>2. n \in Op /\ n.pc = "dumped" /\ n.own = own /\ n.child = child /\ n.meddled = meddled
          /\ n.kind = o.kind /\ n.given = o.given /\ n.pos = o.pos /\ n.body = o.body
    BY <1>1, <2>1 DEF Op
  <2> HIDE DEF n
  <2>3. OnRoute(n)
    BY <1>1, <2>1, <2>2 DEF OnRoute
  <2>4. Hidden(n)
    BY <2>2 DEF Hidden
  <2>5. Requested(n)
    BY <1>1, <1>2, <2>1, <2>2 DEF Requested
  <2> QED
    BY <1>1, <1>3, <2>2, <2>3, <2>4, <2>5 DEF Good, Performs, Step, TypeOK
<1>4. CASE ~accepted /\ Step(t, Mislabelled(o))
  <2>1. o.own \notin {0, o.given}
    BY <1>1, <1>4 DEF Literal, Requested
  <2>2. Owner = "family" /\ o.given \in Explicit \cup {Size} /\ "own" \in o.meddled
    BY <1>1, <2>1 DEF Requested
  <2>3. o.given \in Explicit
    BY <1>1, <2>2 DEF OnRoute
  <2>4. Standing(o)
    BY <2>2, <2>3 DEF Standing
  <2> QED
    BY <1>1, <1>4, <2>4, MislabelledType
<1> QED
  BY <1>2, <1>3, <1>4

\* What is serialized for the embedded value is refused only if a serializer wrote it.
LEMMA PruneType ==
  ASSUME TypeOK, NEW t \in Threads, Good(op[t]), PruneChild(t)
  PROVE  LET n == op'[t]
         IN Performs(t, n) /\ Good(n) /\ n.pc \in {"pruned", "mislabelled"}
<1> DEFINE o == op[t]
           n == [o EXCEPT !.pc = "pruned", !.child = DueChild(o)]
<1>1. /\ o \in Op /\ o.pc = "dumped" /\ o.kind = "render" /\ OnRoute(o) /\ Requested(o)
      /\ UNCHANGED metadata
  BY DEF PruneChild, TypeOK, Good, Requested
<1>2. ChildOwner \in {"family", "model"}
  BY MetadataAssumption DEF TypeOK, ChildOwner
<1>3. o.given \in Labels /\ ChildMap[o.given] \in ChildLabels
  BY <1>1, VersionsAssumption DEF OnRoute, Op, Labels
<1>4. \/ Step(t, n)
      \/ o.child # ChildMap[o.given] /\ Step(t, Mislabelled(o))
  <2>1. CASE ChildOwner = "family" /\ o.child \in {0, ChildMap[o.given]}
    BY <2>1 DEF PruneChild, DueChild
  <2>2. CASE ChildOwner = "model" /\ o.child = ChildMap[o.given]
    <3>1. Step(t, [o EXCEPT !.pc = "pruned"])
      BY <2>2 DEF PruneChild
    <3>2. [o EXCEPT !.pc = "pruned"] = n
      BY <1>1, <2>2 DEF DueChild, Op
    <3> QED
      BY <3>1, <3>2
  <2>3. CASE ~(ChildOwner = "family" /\ o.child \in {0, ChildMap[o.given]})
             /\ ~(ChildOwner = "model" /\ o.child = ChildMap[o.given])
    BY <1>2, <2>3 DEF PruneChild
  <2> QED
    BY <2>1, <2>2, <2>3
<1>5. CASE Step(t, n)
  <2>1. DueChild(o) \in ChildLabels \cup {0}
    BY <1>3 DEF DueChild
  <2>2. n \in Op /\ n.pc = "pruned" /\ n.own = o.own /\ n.child = DueChild(o)
          /\ n.meddled = o.meddled /\ n.kind = o.kind /\ n.given = o.given /\ n.pos = o.pos
          /\ n.body = o.body
    BY <1>1, <2>1 DEF Op
  <2> HIDE DEF n
  <2>3. OnRoute(n)
    BY <1>1, <2>2 DEF OnRoute
  <2>4. Hidden(n)
    BY <2>2 DEF Hidden
  <2>5. Requested(n)
    BY <1>1, <2>2 DEF Requested, DueChild
  <2> QED
    BY <1>1, <1>5, <2>2, <2>3, <2>4, <2>5 DEF Good, Performs, Step, TypeOK
<1>6. CASE o.child # ChildMap[o.given] /\ Step(t, Mislabelled(o))
  <2>1. Standing(o)
    BY <1>1, <1>6 DEF Requested, Standing
  <2> QED
    BY <1>1, <1>6, <2>1, MislabelledType
<1> QED
  BY <1>4, <1>5, <1>6

LEMMA ApplyType ==
  ASSUME TypeOK, NEW t \in Threads, Good(op[t]), ApplyOwn(t)
  PROVE  LET n == op'[t]
         IN Performs(t, n) /\ Good(n) /\ n.pc \in {"rendered", "mislabelled"}
<1> DEFINE o == op[t]
           own == IF o.body THEN 0 ELSE o.given
           n == [o EXCEPT !.pc = "rendered", !.own = own]
<1>1. /\ o \in Op /\ o.pc = "pruned" /\ o.kind = "render" /\ OnRoute(o) /\ Requested(o)
      /\ UNCHANGED metadata
  BY DEF ApplyOwn, TypeOK, Good, Requested
<1>2. Owner \in {"family", "model"} /\ (o.body => Owner = "family") /\ o.body \in BOOLEAN
  BY <1>1, MetadataAssumption DEF TypeOK, Owner, OnRoute, Op
<1>3. \/ Step(t, n)
      \/ Owner = "model" /\ o.own # o.given /\ Step(t, Mislabelled(o))
  <2>1. CASE Owner = "family" /\ o.body
    BY <2>1 DEF ApplyOwn
  <2>2. CASE Owner = "family" /\ ~o.body
    <3>1. o.own = o.given
      BY <1>1, <2>2 DEF Requested
    <3> QED
      BY <2>2, <3>1 DEF ApplyOwn
  <2>3. CASE Owner = "model" /\ o.own = o.given
    <3>1. Step(t, [o EXCEPT !.pc = "rendered"])
      BY <2>3 DEF ApplyOwn
    <3>2. [o EXCEPT !.pc = "rendered"] = n
      BY <1>1, <1>2, <2>3 DEF Op
    <3> QED
      BY <3>1, <3>2
  <2>4. CASE Owner = "model" /\ o.own # o.given
    BY <2>4 DEF ApplyOwn
  <2> QED
    BY <1>2, <2>1, <2>2, <2>3, <2>4
<1>4. CASE Step(t, n)
  <2>1. own \in Labels \cup {0}
    BY <1>1 DEF Op
  <2> HIDE DEF own
  <2>2. n \in Op /\ n.pc = "rendered" /\ n.own = own /\ n.child = o.child
          /\ n.meddled = o.meddled /\ n.kind = o.kind /\ n.given = o.given /\ n.pos = o.pos
          /\ n.body = o.body
    BY <1>1, <2>1 DEF Op
  <2> HIDE DEF n
  <2>3. OnRoute(n)
    BY <1>1, <2>2 DEF OnRoute
  <2>4. Hidden(n)
    BY <2>2 DEF Hidden
  <2>5. Requested(n)
    BY <1>1, <2>2 DEF Requested, DueChild, own
  <2> QED
    BY <1>1, <1>4, <2>2, <2>3, <2>4, <2>5 DEF Good, Performs, Step, TypeOK
<1>5. CASE Owner = "model" /\ o.own # o.given /\ Step(t, Mislabelled(o))
  <2>1. Standing(o)
    BY <1>1, <1>5 DEF Requested, Standing
  <2> QED
    BY <1>1, <1>5, <2>1, MislabelledType
<1> QED
  BY <1>3, <1>4, <1>5

LEMMA RejectType ==
  ASSUME TypeOK, NEW t \in Threads, Reject(t)
  PROVE  LET n == op'[t]
         IN Performs(t, n) /\ Good(n) /\ n.pc = "refused"
<1> DEFINE n == [NoOp EXCEPT !.pc = "refused"]
<1>1. Step(t, n) /\ UNCHANGED metadata
  BY DEF Reject
<1>2. n \in Op /\ n.pc = "refused" /\ n.kind = "validate"
  BY IdleOp, Ended
<1> HIDE DEF n
<1>3. Good(n)
  BY <1>2 DEF Good, OnRoute, Hidden, Requested
<1> QED
  BY <1>1, <1>2, <1>3 DEF Performs, Step, TypeOK

-----------------------------------------------------------------------------
(* What callbacks and renderings find. *)

\* Owners do not change, and what is good of operations stays so.
LEMMA GoodAfter ==
  ASSUME metadata' = metadata, \A s \in Threads : Good(op'[s])
  PROVE  \A s \in Threads : Good(op[s])'
<1>1. Owner' = Owner /\ ChildOwner' = ChildOwner
  BY DEF Owner, ChildOwner
<1> QED
  BY <1>1 DEF Good, OnRoute, Hidden, Requested, DueChild, Standing

LEMMA IdleGood == Good(NoOp)
  BY IdleOp DEF Good, OnRoute, Hidden, Requested

\* The other threads keep what they have.
LEMMA OpsStep ==
  ASSUME OpsInv, NEW t \in Threads, NEW o, Performs(t, o), UNCHANGED <<wrote, embedded>>,
         declared' \in [Mappings -> Labels \cup {0}], Good(o)
  PROVE  OpsInv'
<1>1. TypeOK' /\ op'[t] = o /\ \A s \in Threads \ {t} : op'[s] = op[s]
  BY Performed DEF OpsInv
<1>2. metadata' = metadata
  BY DEF Performs
<1>3. \A s \in Threads : Good(op'[s])
  BY <1>1 DEF OpsInv
<1> QED
  BY <1>1, <1>2, <1>3, GoodAfter DEF OpsInv

LEMMA InitOps == Init => OpsInv
<1> SUFFICES ASSUME Init PROVE OpsInv
  OBVIOUS
<1>1. TypeOK
  BY IdleOp DEF Init, TypeOK
<1>2. \A t \in Threads : op[t] = NoOp
  BY DEF Init
<1> QED
  BY <1>1, <1>2, IdleGood DEF OpsInv

LEMMA NextOps == OpsInv /\ [Next]_vars => OpsInv'
<1> SUFFICES ASSUME OpsInv, [Next]_vars PROVE OpsInv'
  OBVIOUS
<1> USE DEF OpsInv
<1>1. CASE UNCHANGED vars
  <2>1. TypeOK' /\ op' = op /\ metadata' = metadata
    BY <1>1 DEF vars, TypeOK
  <2> QED
    BY <2>1, GoodAfter
<1>2. ASSUME NEW d \in Docs, NEW label \in Labels \cup {0}, NEW child \in ChildLabels \cup {0},
             Write(d, label, child)
      PROVE  OpsInv'
  <2>1. TypeOK' /\ op' = op /\ metadata' = metadata
    BY <1>2, WriteType
  <2> QED
    BY <2>1, GoodAfter
<1>3. ASSUME NEW t \in Threads, NEW d \in Docs, Keep(t, d) PROVE OpsInv'
  <2>1. TypeOK' /\ op'[t] = NoOp /\ \A s \in Threads \ {t} : op'[s] = op[s]
    BY <1>3, KeepType
  <2>2. metadata' = metadata
    BY <1>3 DEF Keep
  <2>3. \A s \in Threads : Good(op'[s])
    BY <2>1, IdleGood
  <2> QED
    BY <2>1, <2>2, <2>3, GoodAfter
<1>4. ASSUME NEW t \in Threads, NEW d \in Docs, NEW explicit \in Labels \cup {0},
             BeginValidate(t, d, explicit)
      PROVE  OpsInv'
  <2>1. PICK o : /\ Performs(t, o) /\ o.kind = "validate" /\ o.pc \in {"missing", "refused", "begun"}
                 /\ o.pc = "begun" => o.pos = o.source
    BY <1>4, BeginValidateType
  <2>2. Good(o)
    BY <2>1 DEF Good, OnRoute, Hidden, Requested
  <2>3. declared' = declared /\ UNCHANGED <<wrote, embedded>>
    BY <1>4 DEF BeginValidate
  <2> QED
    BY <2>1, <2>2, <2>3, OpsStep DEF TypeOK
<1>5. ASSUME NEW t \in Threads, NEW d \in Docs, NEW label \in Labels, NEW body \in BOOLEAN,
             BeginRender(t, d, label, body)
      PROVE  OpsInv'
  <2>1. Performs(t, op'[t]) /\ Good(op'[t])
    BY <1>5, BeginRenderType
  <2>2. declared' = declared /\ UNCHANGED <<wrote, embedded>>
    BY <1>5 DEF BeginRender
  <2> QED
    BY <2>1, <2>2, OpsStep DEF TypeOK
<1>6. ASSUME NEW t \in Threads, CheckSource(t) \/ Reject(t) PROVE OpsInv'
  <2>1. Performs(t, op'[t]) /\ Good(op'[t])
    BY <1>6, CheckSourceType, RejectType
  <2>2. declared' = declared /\ UNCHANGED <<wrote, embedded>>
    BY <1>6 DEF CheckSource, Reject
  <2> QED
    BY <2>1, <2>2, OpsStep DEF TypeOK
<1>7. ASSUME NEW t \in Threads, Extract(t) PROVE OpsInv'
  <2>1. TypeOK' /\ Performs(t, op'[t]) /\ Good(op'[t])
    BY <1>7, ExtractType
  <2>2. UNCHANGED <<wrote, embedded>>
    BY <1>7 DEF Extract
  <2>3. declared' \in [Mappings -> Labels \cup {0}]
    BY <2>1 DEF TypeOK
  <2> QED
    BY <2>1, <2>2, <2>3, OpsStep
<1>8. ASSUME NEW t \in Threads,
             Edge(t) \/ Project(t) \/ SetOwn(t) \/ PruneChild(t) \/ ApplyOwn(t)
      PROVE  OpsInv'
  <2>1. Performs(t, op'[t]) /\ Good(op'[t])
    BY <1>8, EdgeType, ProjectType, SetOwnType, PruneType, ApplyType
  <2>2. declared' = declared /\ UNCHANGED <<wrote, embedded>>
    BY <1>8 DEF Edge, Project, SetOwn, PruneChild, ApplyOwn
  <2> QED
    BY <2>1, <2>2, OpsStep DEF TypeOK
<1>9. ASSUME NEW t \in Threads, NEW own \in Labels \cup {0}, NEW child \in ChildLabels \cup {0},
             Callback(t, own, child) \/ Serialize(t, own, child)
      PROVE  OpsInv'
  <2>1. Performs(t, op'[t]) /\ Good(op'[t])
    BY <1>9, CallbackType, SerializeType
  <2>2. declared' = declared /\ UNCHANGED <<wrote, embedded>>
    BY <1>9 DEF Callback, Serialize
  <2> QED
    BY <2>1, <2>2, OpsStep DEF TypeOK
<1> QED
  BY <1>1, <1>2, <1>3, <1>4, <1>5, <1>6, <1>7, <1>8, <1>9 DEF Next

LEMMA OpsAlways == Spec => []OpsInv
  BY InitOps, NextOps, PTL DEF Spec

\* Labels of documents, payloads and embedded values are labels of their family, or none.
THEOREM MetadataTypeCorrect == Spec => []TypeOK
<1>1. OpsInv => TypeOK
  BY DEF OpsInv
<1> QED
  BY <1>1, OpsAlways, PTL

\* A callback finds no label that a family owns, unless a callback wrote it, wherever the
\* embedded family keeps its version and whatever the source model is
\* (_runtime_nested.py:1598-1610).
THEOREM HiddenFromCallbacks == Spec => []NoFamilyMetadataInCallbacks
<1>1. OpsInv => NoFamilyMetadataInCallbacks
  BY DEF OpsInv, Good, Hidden, NoFamilyMetadataInCallbacks
<1> QED
  BY <1>1, OpsAlways, PTL

\* A rendered document carries the labels that were asked for, whatever callbacks and
\* serializers wrote, and none of the places that check labels refuses one that another
\* place wrote or left (_runtime.py:412-419, 484-548, _runtime_nested.py:1739-1779).
THEOREM RenderedCorrectly == Spec => []RenderedAsRequested
<1>1. OpsInv => RenderedAsRequested
  BY DEF OpsInv, Good, Requested, DueChild, RenderedAsRequested
<1> QED
  BY <1>1, OpsAlways, PTL

-----------------------------------------------------------------------------
(* What validations read. *)

\* No family has both discovered children and a label inside a wrapper mapping.
NothingShared == Discovered => \A m \in Declarations : ~m.wrapped

\* What ReadAsWritten says of a thread.
ReadsAsWritten(t) ==
  /\ op'[t].pc = "missing" /\ op'[t] # op[t] => Written(op'[t]) = 0
  /\ op'[t].pc = "checked" /\ op'[t].kind = "validate" =>
       op'[t].source = IF Written(op'[t]) # 0 THEN Written(op'[t])
                       ELSE IF op'[t].given # 0 THEN op'[t].given ELSE MissingVersion

\* Who does nothing goes on reading what was written.
LEMMA ReadIdle ==
  ASSUME ReadInv, NEW s \in Threads, op'[s] = op[s]
  PROVE  ReadsAsWritten(s)
  BY DEF ReadInv, Read, ReadsAsWritten

\* A thread does something else than writing documents.
LEMMA ReadStep ==
  ASSUME ReadInv, NEW t \in Threads, NEW o, Performs(t, o), UNCHANGED <<declared, wrote, embedded>>,
         Read(o), o.pc = "missing" => Written(o) = 0
  PROVE  ReadInv' /\ \A s \in Threads : ReadsAsWritten(s)
<1>1. TypeOK' /\ op'[t] = o /\ \A s \in Threads \ {t} : op'[s] = op[s]
  BY Performed DEF ReadInv, TypeOK
<1>2. ReadInv'
  BY <1>1 DEF ReadInv, Read, RemovedPrivately, Written, Detected
<1>3. ReadsAsWritten(t)
  BY <1>1 DEF Read, ReadsAsWritten
<1>4. \A s \in Threads \ {t} : ReadsAsWritten(s)
  BY <1>1, ReadIdle
<1> QED
  BY <1>2, <1>3, <1>4

\* Whoever writes a mapping does not disturb the validations that read it.
LEMMA ReadWritten ==
  ASSUME ReadInv, TypeOK', NEW d \in Docs, NEW label, ~InUse(d),
         declared' = [declared EXCEPT ![MappingOf[d]] = label],
         wrote' = [wrote EXCEPT ![MappingOf[d]] = label],
         \A s \in Threads : op'[s] = op[s] \/ op'[s] = NoOp
  PROVE  ReadInv' /\ \A s \in Threads : ReadsAsWritten(s)
<1>1. RemovedPrivately'
  BY MetadataAssumption DEF ReadInv, TypeOK, RemovedPrivately
<1>2. ASSUME NEW s \in Threads, op'[s] = op[s], op[s].pc \in {"begun", "checked"}
      PROVE  /\ declared'[MappingOf[op[s].doc]] = declared[MappingOf[op[s].doc]]
             /\ wrote'[MappingOf[op[s].doc]] = wrote[MappingOf[op[s].doc]]
  <2>1. MappingOf[op[s].doc] # MappingOf[d]
    BY <1>2 DEF InUse, Active
  <2>2. op[s].doc \in Docs
    BY DEF ReadInv, TypeOK, Op
  <2> QED
    BY <2>1, <2>2, MetadataAssumption DEF ReadInv, TypeOK
<1>3. ASSUME NEW s \in Threads PROVE Read(op[s])' /\ ReadsAsWritten(s)
  <2>1. CASE op'[s] = NoOp
    BY <2>1, IdleOp DEF Read, ReadsAsWritten
  <2>2. CASE op'[s] = op[s]
    BY <1>2, <2>2, ReadIdle DEF ReadInv, Read, Written, Detected
  <2> QED
    BY <2>1, <2>2
<1> QED
  BY <1>1, <1>3 DEF ReadInv

LEMMA NextRead ==
  ASSUME NothingShared, ReadInv, OpsInv, [Next]_vars
  PROVE  ReadInv' /\ \A s \in Threads : ReadsAsWritten(s)
<1>0. TypeOK
  BY DEF ReadInv
<1>1. CASE UNCHANGED vars
  <2>1. op' = op
    BY <1>1 DEF vars
  <2> QED
    BY <1>1, <2>1, ReadIdle DEF vars, ReadInv, TypeOK, RemovedPrivately, Read, Written, Detected
<1>2. ASSUME NEW d \in Docs, NEW label \in Labels \cup {0}, NEW child \in ChildLabels \cup {0},
             Write(d, label, child)
      PROVE  ReadInv' /\ \A s \in Threads : ReadsAsWritten(s)
  <2>1. TypeOK' /\ op' = op
    BY <1>0, <1>2, WriteType
  <2> QED
    BY <1>2, <2>1, ReadWritten DEF Write
<1>3. ASSUME NEW t \in Threads, NEW d \in Docs, Keep(t, d)
      PROVE  ReadInv' /\ \A s \in Threads : ReadsAsWritten(s)
  <2>1. TypeOK' /\ op'[t] = NoOp /\ \A s \in Threads \ {t} : op'[s] = op[s]
    BY <1>0, <1>3, KeepType
  <2>2. \A s \in Threads : op'[s] = op[s] \/ op'[s] = NoOp
    BY <2>1
  <2> QED
    BY <1>3, <2>1, <2>2, ReadWritten DEF Keep
<1>4. ASSUME NEW t \in Threads, NEW d \in Docs, NEW explicit \in Labels \cup {0},
             BeginValidate(t, d, explicit)
      PROVE  ReadInv' /\ \A s \in Threads : ReadsAsWritten(s)
  <2>1. PICK o :
          /\ Performs(t, o) /\ o.kind = "validate" /\ o.doc = d /\ o.given = explicit
          /\ o.pc \in {"missing", "refused", "begun"}
          /\ o.pc = "missing" => Detected(d, explicit) = 0
          /\ o.pc = "begun" => o.source = Detected(d, explicit)
    BY <1>0, <1>4, BeginValidateType
  <2>2. o.pc = "missing" => Written(o) = 0
    BY <2>1, MetadataAssumption DEF Written, Detected, ReadInv, RemovedPrivately
  <2>3. UNCHANGED <<declared, wrote, embedded>>
    BY <1>4 DEF BeginValidate
  <2>4. Read(o)
    BY <2>1 DEF Read
  <2> QED
    BY <2>1, <2>2, <2>3, <2>4, ReadStep
<1>5. ASSUME NEW t \in Threads, CheckSource(t)
      PROVE  ReadInv' /\ \A s \in Threads : ReadsAsWritten(s)
  <2>1. /\ Performs(t, op'[t]) /\ op'[t].kind = op[t].kind /\ op'[t].given = op[t].given
        /\ op'[t].doc = op[t].doc /\ op'[t].source = op[t].source
        /\ op'[t].pc \in {"checked", "refused"}
        /\ op'[t].pc = "checked" => LabelIn(t) \in {0, op[t].source}
    BY <1>0, <1>5, CheckSourceType DEF OpsInv
  <2>2. op[t].pc = "begun" /\ op[t].doc \in Docs /\ UNCHANGED <<declared, wrote, embedded>>
    BY <1>0, <1>5 DEF CheckSource, TypeOK, Op
  <2>3. Written(op'[t]) = LabelIn(t)
    BY <2>1, <2>2, MetadataAssumption DEF Written, LabelIn, ReadInv, RemovedPrivately
  <2>4. op[t].kind = "validate" => op[t].source = Detected(op[t].doc, op[t].given)
    BY <2>2 DEF ReadInv, Read
  <2>5. Read(op'[t])
    BY <2>1, <2>3, <2>4 DEF Read, Detected, LabelIn
  <2> QED
    BY <2>1, <2>2, <2>5, ReadStep
<1>6. ASSUME NEW t \in Threads, Extract(t)
      PROVE  ReadInv' /\ \A s \in Threads : ReadsAsWritten(s)
  <2>1. Performs(t, op'[t]) /\ op'[t].pc = "walking"
    BY <1>0, <1>6, ExtractType DEF OpsInv
  <2>2. ~RemovedFromDocument(t)
    BY <1>0 DEF TypeOK, NothingShared, RemovedFromDocument, WrappedPath
  <2>3. UNCHANGED <<declared, wrote, embedded>>
    BY <1>0, <1>6, <2>2 DEF Extract, TypeOK
  <2> QED
    BY <2>1, <2>3, ReadStep DEF Read
<1>7. ASSUME NEW t \in Threads,
             \/ \E d \in Docs, label \in Labels, body \in BOOLEAN : BeginRender(t, d, label, body)
             \/ Edge(t) \/ Project(t) \/ SetOwn(t) \/ PruneChild(t) \/ ApplyOwn(t) \/ Reject(t)
             \/ \E own \in Labels \cup {0}, child \in ChildLabels \cup {0} :
                  Callback(t, own, child) \/ Serialize(t, own, child)
      PROVE  ReadInv' /\ \A s \in Threads : ReadsAsWritten(s)
  <2>1. /\ Performs(t, op'[t])
        /\ \/ op'[t].kind = "render"
           \/ op'[t].pc \in {"called", "walking", "projected", "labelled", "dumped", "pruned",
                             "validated", "rendered", "refused", "mislabelled"}
        /\ op'[t].pc # "missing"
    BY <1>0, <1>7, BeginRenderType, EdgeType, ProjectType, SetOwnType, PruneType, ApplyType, RejectType,
       CallbackType, SerializeType DEF OpsInv
  <2>2. UNCHANGED <<declared, wrote, embedded>>
    BY <1>7 DEF BeginRender, Edge, Project, SetOwn, PruneChild, ApplyOwn, Reject, Callback, Serialize
  <2> QED
    BY <2>1, <2>2, ReadStep DEF Read
<1> QED
  BY <1>1, <1>2, <1>3, <1>4, <1>5, <1>6, <1>7 DEF Next

LEMMA InitRead == Init => ReadInv
<1> SUFFICES ASSUME Init PROVE ReadInv
  OBVIOUS
<1>1. TypeOK
  BY IdleOp DEF Init, TypeOK
<1>2. \A t \in Threads : op[t] = NoOp
  BY DEF Init
<1> QED
  BY <1>1, <1>2, IdleOp DEF Init, ReadInv, RemovedPrivately, Read

\* Where no label is in a wrapper that a family with discovered children shares with the
\* caller, every document keeps the label that its caller wrote
\* (docs/guide/version-discovery.md:82-84).
THEOREM RemovedOnlyPrivately == ASSUME NothingShared PROVE Spec => []RemovedPrivately
<1>1. ReadInv /\ OpsInv /\ [Next]_vars => ReadInv'
  BY NextRead
<1>2. ReadInv => RemovedPrivately
  BY DEF ReadInv
<1> QED
  BY <1>1, <1>2, InitRead, OpsAlways, PTL DEF Spec

\* There, a document is always read as the version that its caller wrote into it
\* (_runtime_versioning.py:251-278).
THEOREM ReadCorrectly == ASSUME NothingShared PROVE Spec => ReadAsWritten
<1>1. ReadInv /\ OpsInv /\ [Next]_vars => ReadInv'
  BY NextRead
<1>2. ReadInv /\ OpsInv /\ [Next]_vars =>
        [\A t \in Threads :
           LET o == op'[t]
               written == wrote[MappingOf[o.doc]]
           IN
           /\ o.pc = "missing" /\ o # op[t] => written = 0
           /\ o.pc = "checked" /\ o.kind = "validate"
                => o.source = IF written # 0 THEN written
                              ELSE IF o.given # 0 THEN o.given ELSE MissingVersion]_vars
  BY NextRead DEF ReadsAsWritten, Written
<1> QED
  BY <1>1, <1>2, InitRead, OpsAlways, PTL DEF Spec, ReadAsWritten
=============================================================================
