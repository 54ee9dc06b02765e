------------------------ MODULE FamilyLifecycleProofs ------------------------
(***************************************************************************)
(* Theorems about FamilyLifecycle, for any threads, models, families,      *)
(* nested declarations, discovered models and migrations.                  *)
(***************************************************************************)
EXTENDS FamilyLifecycle, SequenceTheorems, TLAPS

\* Children a compile() call has resolved or built against are compiled.
ChildrenPublished ==
  \A f \in Families : \A k \in frame[f].kids \cup frame[f].touched : Published(k)

Typing == TypeOK /\ ChildrenPublished

\* The top of a non-empty stack and the stack below it.
LEMMA TopOfStack ==
  ASSUME stack \in Seq(Families), stack # <<>>
  PROVE  /\ Len(stack) \in Nat \ {0}
         /\ Top \in Families
         /\ Below \in Seq(Families)
         /\ Len(Below) = Len(stack) - 1
         /\ \A i \in 1 .. Len(stack) - 1 : Below[i] = stack[i]
<1>1. Len(stack) \in Nat \ {0}
  BY EmptySeq, LenProperties
<1>2. Top \in Families
  BY <1>1, ElementOfSeq DEF Top
<1>3. \A i \in 1 .. Len(stack) - 1 : stack[i] \in Families
  BY <1>1, ElementOfSeq
<1>4. /\ Below \in Seq(Families)
      /\ Len(Below) = Len(stack) - 1
      /\ \A i \in 1 .. Len(stack) - 1 : Below[i] = stack[i]
  <2> DEFINE n == Len(stack) - 1
  <2>1. /\ 1 \in Int /\ n \in Int /\ 0 <= n
        /\ \A i \in 1 .. n : stack[i] \in Families
    BY <1>1, <1>3
  <2> HIDE DEF n
  <2>2. /\ SubSeq(stack, 1, n) \in Seq(Families)
        /\ Len(SubSeq(stack, 1, n)) = IF 1 <= n THEN n - 1 + 1 ELSE 0
        /\ \A i \in 1 .. n - 1 + 1 : SubSeq(stack, 1, n)[i] = stack[1 + i - 1]
    BY <2>1, SubSeqProperties
  <2>3. /\ Len(SubSeq(stack, 1, n)) = n
        /\ \A i \in 1 .. n : SubSeq(stack, 1, n)[i] = stack[i]
    BY <2>1, <2>2
  <2>4. QED
    BY <2>2, <2>3 DEF Below, n
<1>5. QED
  BY <1>1, <1>2, <1>4

\* A cleared frame is a frame.
LEMMA NoFrameType == NoFrame \in Frame
<1>1. <<>> \in Seq(Edges)
  BY EmptySeq
<1>2. 0 \in Schemas
  BY ConstantsAssumption DEF Schemas
<1>3. QED
  BY <1>1, <1>2 DEF NoFrame, Frame

\* Beginning a compile() call keeps the types.
LEMMA PushType ==
  ASSUME TypeOK, NEW g \in Families,
         NEW via \in {"root", "route", "build", "provider"}, Push(g, via)
  PROVE  /\ stack' \in Seq(Families)
         /\ compiling' \subseteq Families
         /\ frame' \in [Families -> Frame]
<1>1. stack' \in Seq(Families)
  BY AppendProperties DEF TypeOK, Push
<1>2. compiling' \subseteq Families
  BY DEF TypeOK, Push
<1>3. /\ schema[ModelOf[g]] \in Schemas
      /\ transitions[g] \in Seq(Edges)
  BY ConstantsAssumption DEF TypeOK
<1>4. frame' \in [Families -> Frame]
  BY <1>3, NoFrameType DEF TypeOK, Push, Frame
<1>5. QED
  BY <1>1, <1>2, <1>4

\* Recording a child resolved at a declared route keeps the type of frames.
LEMMA AddKidType ==
  ASSUME NEW fr \in [Families -> Frame], NEW p, NEW c \in Families
  PROVE  AddKid(fr, p, c) \in [Families -> Frame]
<1> SUFFICES ASSUME p \in Families
             PROVE  [fr[p] EXCEPT !.kids = @ \cup {c}, !.next = @ + 1,
                                  !.called = FALSE] \in Frame
  BY DEF AddKid
<1>2. fr[p] \in Frame
  OBVIOUS
<1>3. /\ fr[p].kids \cup {c} \in SUBSET Families
      /\ fr[p].next + 1 \in Nat \ {0}
  BY <1>2 DEF Frame
<1>4. QED
  BY <1>2, <1>3 DEF Frame

\* Recording a child whose wire model was used keeps the type of frames.
LEMMA TouchKidType ==
  ASSUME TypeOK, NEW fr \in [Families -> Frame], NEW p, NEW c \in Families
  PROVE  TouchKid(fr, p, c) \in [Families -> Frame]
<1> SUFFICES ASSUME p \in Families
             PROVE  [fr[p] EXCEPT !.touched = @ \cup {c},
                                  !.builtFrom = @ \cup {schema[ModelOf[p]]}] \in Frame
  BY DEF TouchKid
<1>2. schema[ModelOf[p]] \in Schemas
  BY ConstantsAssumption DEF TypeOK
<1>3. fr[p] \in Frame
  OBVIOUS
<1>4. /\ fr[p].touched \cup {c} \in SUBSET Families
      /\ fr[p].builtFrom \cup {schema[ModelOf[p]]} \in SUBSET Schemas
  BY <1>2, <1>3 DEF Frame
<1>5. QED
  BY <1>3, <1>4 DEF Frame

\* A compile() call leaves the stack: its frame is cleared and its caller's frame
\* gets the child, if the caller asked for one.
LEMMA ResumeType ==
  ASSUME TypeOK, NEW p \in Families
  PROVE  Resume(p) \in [Families -> Frame]
<1> DEFINE cleared == [frame EXCEPT ![p] = NoFrame]
<1>1. cleared \in [Families -> Frame]
  BY NoFrameType DEF TypeOK
<1> HIDE DEF cleared
<1>2. /\ AddKid(cleared, Caller, p) \in [Families -> Frame]
      /\ TouchKid(cleared, Caller, p) \in [Families -> Frame]
  BY <1>1, AddKidType, TouchKidType
<1>3. Resume(p) \in {AddKid(cleared, Caller, p), TouchKid(cleared, Caller, p), cleared}
  BY DEF Resume, cleared
<1>4. QED
  BY <1>1, <1>2, <1>3

\* What a finished compile() call publishes.
LEMMA NewArtifactType ==
  ASSUME TypeOK, ChildrenPublished, NEW p \in Families, frame[p].touched = Children(p)
  PROVE  NewArtifact(p) \in Artifact
<1>1. frame[p] \in Frame
  BY DEF TypeOK
<1>2. \A k \in Children(p) : compiled[k] \in Artifact
  BY <1>1 DEF ChildrenPublished, Children, Published, TypeOK, Frame
<1>3. Dependencies(p) \in SUBSET Dependency
  <2>1. [family |-> p, schema |-> frame[p].own] \in Dependency
    BY <1>1 DEF Frame, Dependency
  <2>2. \A k \in Children(p) : compiled[k].deps \subseteq Dependency
    BY <1>2 DEF Artifact
  <2>3. QED
    BY <2>1, <2>2 DEF Dependencies
<1>4. /\ frame[p].own \in Schemas
      /\ frame[p].kids \in SUBSET Families
      /\ frame[p].found \in SUBSET Families
      /\ frame[p].builtFrom \in SUBSET Schemas
  BY <1>1 DEF Frame
<1>5. transitions[p] \in Seq(Edges)
  BY DEF TypeOK
<1>6. QED
  BY <1>3, <1>4, <1>5 DEF NewArtifact, Artifact

\* A short critical section of a thread, or of a provider inside compile().
LEMMA AnswerType ==
  ASSUME TypeOK, ChildrenPublished, NEW t \in Threads, CanCall(t),
         NEW result \in {"done", "error"}, Answer(t, result)
  PROVE  /\ frame' \in [Families -> Frame]
         /\ raising' \in BOOLEAN
         /\ call' \in [Threads -> Call]
         /\ \A f \in Families : /\ frame'[f].kids = frame[f].kids
                                /\ frame'[f].touched = frame[f].touched
<1>1. CASE holder = t
  <2>1. /\ frame' = [frame EXCEPT ![Top].called = TRUE]
        /\ raising' \in {FALSE, (result = "error")}
        /\ call' = call
    BY <1>1 DEF Answer
  <2>2. \A f \in Families : frame[f] \in Frame
    BY DEF TypeOK
  <2>3. \A f \in Families : [frame[f] EXCEPT !.called = TRUE] \in Frame
    <3> TAKE f \in Families
    <3>1. frame[f] \in Frame
      BY <2>2
    <3>2. QED
      BY <3>1 DEF Frame
  <2>4. frame' \in [Families -> Frame]
    BY <2>1, <2>2, <2>3 DEF TypeOK
  <2>5. \A f \in Families : /\ frame'[f].kids = frame[f].kids
                            /\ frame'[f].touched = frame[f].touched
    BY <2>1, <2>2 DEF TypeOK, Frame
  <2>6. QED
    BY <2>1, <2>4, <2>5 DEF TypeOK
<1>2. CASE holder # t
  <2>1. Idle(result) \in Call
    BY DEF Idle, Call, Results
  <2>2. QED
    BY <1>2, <2>1 DEF Answer, Return, TypeOK
<1>3. QED
  BY <1>1, <1>2

\* No family is compiled in the initial state, and every variable has its type.
LEMMA TypingInit == Init => Typing
<1> SUFFICES ASSUME Init PROVE Typing
  OBVIOUS
<1>1. ChildrenPublished
  BY DEF Init, ChildrenPublished, NoFrame
<1>2. <<>> \in Seq(Edges) /\ <<>> \in Seq(Families)
  BY EmptySeq
<1>3. 0 \in Schemas
  BY ConstantsAssumption DEF Schemas
<1>4. Idle("none") \in Call
  BY DEF Idle, Call, Results
<1>5. QED
  BY <1>1, <1>2, <1>3, <1>4, NoFrameType DEF Init, Typing, TypeOK

\* Beginning a compile() call adds no resolved child.
LEMMA PushChildren ==
  ASSUME Typing, NEW g \in Families,
         NEW via \in {"root", "route", "build", "provider"}, Push(g, via),
         compiled' = compiled
  PROVE  ChildrenPublished'
<1>1. \A f \in Families : /\ frame'[f].kids \in {frame[f].kids, {}}
                          /\ frame'[f].touched \in {frame[f].touched, {}}
  BY DEF Push, NoFrame, Typing, TypeOK
<1>2. QED
  BY <1>1 DEF Typing, ChildrenPublished, Published

\* Recording a resolved child adds that child and no other.
LEMMA AddKidChildren ==
  ASSUME NEW fr \in [Families -> Frame], NEW p, NEW c \in Families, NEW f \in Families
  PROVE  /\ AddKid(fr, p, c)[f].kids \subseteq fr[f].kids \cup {c}
         /\ AddKid(fr, p, c)[f].touched = fr[f].touched
<1>1. fr[f] \in Frame
  OBVIOUS
<1>2. QED
  BY <1>1 DEF AddKid, Frame

\* Using the wire model of a child adds at most that child.
LEMMA TouchKidChildren ==
  ASSUME NEW fr \in [Families -> Frame], NEW p, NEW c \in Families, NEW f \in Families
  PROVE  /\ TouchKid(fr, p, c)[f].kids = fr[f].kids
         /\ TouchKid(fr, p, c)[f].touched \subseteq fr[f].touched \cup {c}
<1>1. fr[f] \in Frame
  OBVIOUS
<1>2. QED
  BY <1>1 DEF TouchKid, Frame

\* A returning compile() call adds at most itself to its caller's children.
LEMMA ResumeChildren ==
  ASSUME TypeOK, NEW p \in Families, NEW f \in Families
  PROVE  /\ Resume(p)[f].kids \subseteq frame[f].kids \cup {p}
         /\ Resume(p)[f].touched \subseteq frame[f].touched \cup {p}
<1> DEFINE cleared == [frame EXCEPT ![p] = NoFrame]
<1>1. cleared \in [Families -> Frame]
  BY NoFrameType DEF TypeOK
<1>2. /\ cleared[f].kids \subseteq frame[f].kids
      /\ cleared[f].touched \subseteq frame[f].touched
  BY DEF TypeOK, NoFrame
<1> HIDE DEF cleared
<1>3. Resume(p) \in {AddKid(cleared, Caller, p), TouchKid(cleared, Caller, p), cleared}
  BY DEF Resume, cleared
<1>4. QED
  BY <1>1, <1>2, <1>3, AddKidChildren, TouchKidChildren

\* A compile() call in some phase is the top of a non-empty stack.
LEMMA TopActive ==
  ASSUME TypeOK, NEW phase, Active(phase)
  PROVE  Top \in Families /\ stack # <<>>
  BY TopOfStack DEF TypeOK, Active

\* The route that a compile() call looks at names a family.
LEMMA RouteType ==
  ASSUME TypeOK, NEW p \in Families, frame[p].next <= Len(Routes[p])
  PROVE  Route1(p).family \in Families
<1>1. frame[p].next \in Nat \ {0}
  BY DEF TypeOK, Frame
<1>2. Routes[p] \in Seq(Route)
  BY ConstantsAssumption
<1>3. Route1(p) \in Route
  BY <1>1, <1>2, ElementOfSeq, LenProperties DEF Route1
<1>4. QED
  BY <1>3 DEF Route

\* Every step keeps the types, and resolved children stay published.
LEMMA TypingStep == Typing /\ [Next]_vars => Typing'
<1> SUFFICES ASSUME Typing, [Next]_vars PROVE Typing'
  OBVIOUS
<1> USE DEF Typing
<1>1. ASSUME NEW t \in Threads, NEW f \in Families, Begin(t, f)
      PROVE  Typing'
  <2>1. [pc |-> "read", family |-> f, result |-> "none"] \in Call
    BY DEF Call, Results
  <2>2. QED
    BY <1>1, <2>1 DEF Begin, TypeOK, ChildrenPublished, Published
<1>2. ASSUME NEW t \in Threads, NEW f \in Families, BeginCompile(t, f)
      PROVE  Typing'
  <2>1. [pc |-> "enter", family |-> f, result |-> "none"] \in Call
    BY DEF Call, Results
  <2>2. QED
    BY <1>2, <2>1 DEF BeginCompile, TypeOK, ChildrenPublished, Published
<1>3. ASSUME NEW t \in Threads, NEW f \in Families, AsDefault(t, f)
      PROVE  Typing'
  <2>1. PICK result \in {"done", "error"} : CanCall(t) /\ Answer(t, result)
    BY <1>3 DEF AsDefault
  <2>2. default' \in [Models -> Families \cup {NoFamily}]
    BY <1>3, ConstantsAssumption DEF AsDefault, TypeOK
  <2>3. TypeOK'
    BY <1>3, <2>1, <2>2, AnswerType DEF AsDefault, TypeOK
  <2>4. ChildrenPublished'
    BY <1>3, <2>1, AnswerType DEF AsDefault, ChildrenPublished, Published
  <2>5. QED
    BY <2>3, <2>4
<1>4. ASSUME NEW t \in Threads, NEW m \in Models, BeginModelCall(t, m)
      PROVE  Typing'
  <2>1. /\ Idle("error") \in Call
        /\ default[m] # NoFamily =>
             [pc |-> "read", family |-> default[m], result |-> "none"] \in Call
    BY DEF Call, Results, Idle, TypeOK
  <2>2. call' \in [Threads -> Call]
    BY <1>4, <2>1 DEF BeginModelCall, TypeOK
  <2>3. QED
    BY <1>4, <2>2 DEF BeginModelCall, TypeOK, ChildrenPublished, Published
<1>5. ASSUME NEW t \in Threads, Read(t)
      PROVE  Typing'
  <2>1. /\ Idle("served") \in Call /\ Idle("error") \in Call
        /\ [call[t] EXCEPT !.pc = "enter"] \in Call
    <3>1. call[t] \in Call
      BY DEF TypeOK
    <3>2. QED
      BY <1>5, <3>1 DEF Call, Results, Idle, Read
  <2>2. call' \in [Threads -> Call]
    BY <1>5, <2>1 DEF Read, Return, TypeOK
  <2>3. QED
    BY <1>5, <2>2 DEF Read, TypeOK, ChildrenPublished, Published
<1>6. ASSUME NEW t \in Threads, EnterAnswered(t)
      PROVE  Typing'
  <2>1. Idle("served") \in Call /\ Idle("error") \in Call
    BY DEF Call, Results, Idle
  <2>2. call' \in [Threads -> Call]
    BY <1>6, <2>1 DEF EnterAnswered, Return, TypeOK
  <2>3. QED
    BY <1>6, <2>2 DEF EnterAnswered, TypeOK, ChildrenPublished, Published
<1>7. ASSUME NEW t \in Threads, Enter(t)
      PROVE  Typing'
  <2>1. call[t].family \in Families
    <3>1. call[t] \in Call
      BY DEF TypeOK
    <3>2. call[t].pc = "enter"
      BY <1>7 DEF Enter
    <3>3. QED
      BY <3>1, <3>2 DEF Call, Idle
  <2>2. /\ stack' \in Seq(Families)
        /\ compiling' \subseteq Families
        /\ frame' \in [Families -> Frame]
    BY <1>7, <2>1, PushType DEF Enter
  <2>3. call' \in [Threads -> Call]
    <3>1. call[t] \in Call
      BY DEF TypeOK
    <3>2. [call[t] EXCEPT !.pc = "inside"] \in Call
      BY <1>7, <3>1 DEF Call, Idle, Enter
    <3>3. QED
      BY <1>7, <3>2 DEF Enter, TypeOK
  <2>4. ChildrenPublished'
    BY <1>7, <2>1, PushChildren DEF Enter
  <2>5. QED
    BY <1>7, <2>2, <2>3, <2>4 DEF Enter, TypeOK
<1>8. ASSUME NEW t \in Threads, NEW r \in Migrations, MigrationFactory(t, r[1], r[2])
      PROVE  Typing'
  <2>1. PICK result \in {"done", "error"} : CanCall(t) /\ Answer(t, result)
    BY <1>8 DEF MigrationFactory
  <2>2. factories' \subseteq Migrations
    <3>1. <<r[1], r[2]>> = r
      BY ConstantsAssumption
    <3>2. QED
      BY <1>8, <3>1 DEF MigrationFactory, TypeOK
  <2>3. TypeOK'
    BY <1>8, <2>1, <2>2, AnswerType DEF MigrationFactory, TypeOK
  <2>4. ChildrenPublished'
    BY <1>8, <2>1, AnswerType DEF MigrationFactory, ChildrenPublished, Published
  <2>5. QED
    BY <2>3, <2>4
<1>9. ASSUME NEW t \in Threads, NEW r \in Migrations, ApplyMigration(t, r[1], r[2])
      PROVE  Typing'
  <2>1. PICK result \in {"done", "error"} : CanCall(t) /\ Answer(t, result)
    BY <1>9 DEF ApplyMigration
  <2>2. transitions' \in [Families -> Seq(Edges)]
    <3>1. r[1] \in Families /\ r[2] \in Edges
      BY ConstantsAssumption
    <3>2. Append(transitions[r[1]], r[2]) \in Seq(Edges)
      BY <3>1, AppendProperties DEF TypeOK
    <3>3. QED
      BY <1>9, <3>2 DEF ApplyMigration, TypeOK
  <2>3. TypeOK'
    BY <1>9, <2>1, <2>2, AnswerType DEF ApplyMigration, TypeOK
  <2>4. ChildrenPublished'
    BY <1>9, <2>1, AnswerType DEF ApplyMigration, ChildrenPublished, Published
  <2>5. QED
    BY <2>3, <2>4
<1>10. ASSUME NEW m \in Models, Rebuild(m)
       PROVE  Typing'
  <2>1. schema[m] + 1 \in Schemas
    BY <1>10, ConstantsAssumption DEF Rebuild, Schemas, TypeOK
  <2>2. QED
    BY <1>10, <2>1 DEF Rebuild, TypeOK, ChildrenPublished, Published
<1>11. ASSUME NEW g \in Families, ProviderCompile(g)
       PROVE  Typing'
  <2>1. Top \in Families
    BY <1>11, TopActive DEF ProviderCompile, InProvider
  <2> DEFINE called == [frame EXCEPT ![Top].called = TRUE]
  <2>2. called \in [Families -> Frame]
    <3>1. frame[Top] \in Frame
      BY <2>1 DEF TypeOK
    <3>2. [frame[Top] EXCEPT !.called = TRUE] \in Frame
      BY <3>1 DEF Frame
    <3>3. QED
      BY <3>2 DEF TypeOK
  <2>3. \A f \in Families : /\ called[f].kids = frame[f].kids
                            /\ called[f].touched = frame[f].touched
    BY DEF TypeOK, Frame
  <2> DEFINE fresh == [NoFrame EXCEPT !.via = "provider", !.own = schema[ModelOf[g]],
                                      !.validated = transitions[g]]
  <2>4. fresh \in Frame /\ fresh.kids = {} /\ fresh.touched = {}
    <3>1. /\ schema[ModelOf[g]] \in Schemas
          /\ transitions[g] \in Seq(Edges)
      BY ConstantsAssumption DEF TypeOK
    <3>2. QED
      BY <3>1, NoFrameType DEF Frame, NoFrame
  <2>5. Append(stack, g) \in Seq(Families)
    BY AppendProperties DEF TypeOK
  <2>6. frame' \in {called, [called EXCEPT ![g] = fresh]}
    BY <1>11 DEF ProviderCompile
  <2> HIDE DEF called, fresh
  <2>7. /\ frame' \in [Families -> Frame]
        /\ \A f \in Families : /\ frame'[f].kids \subseteq frame[f].kids
                               /\ frame'[f].touched \subseteq frame[f].touched
    BY <2>2, <2>3, <2>4, <2>6
  <2>8. ChildrenPublished'
    BY <1>11, <2>7 DEF ProviderCompile, ChildrenPublished, Published
  <2>9. raising' \in BOOLEAN
    BY <1>11 DEF ProviderCompile, ChildRaises, TypeOK, Unchanged
  <2>10. QED
    BY <1>11, <2>5, <2>7, <2>8, <2>9 DEF ProviderCompile, TypeOK
<1>12. CASE ResolveRoute
  <2> DEFINE p == Top
             c == Route1(p).family
  <2>1. p \in Families /\ c \in Families
    BY <1>12, TopActive, RouteType DEF ResolveRoute
  <2> HIDE DEF p, c
  <2>2. CASE Raise
    BY <1>12, <2>2 DEF ResolveRoute, Raise, TypeOK, ChildrenPublished, Published
  <2>3. CASE /\ Published(c) /\ UNCHANGED <<raising, stack, compiling>>
             /\ frame' = AddKid(frame, p, c)
    <3>1. frame' \in [Families -> Frame]
      BY <2>1, <2>3, AddKidType DEF TypeOK
    <3>2. \A f \in Families : /\ frame'[f].kids \subseteq frame[f].kids \cup {c}
                              /\ frame'[f].touched = frame[f].touched
      <4>1. frame \in [Families -> Frame]
        BY DEF TypeOK
      <4> TAKE f \in Families
      <4>2. QED
        BY <2>1, <2>3, <4>1, AddKidChildren
    <3>3. ChildrenPublished'
      BY <1>12, <2>3, <3>2 DEF ResolveRoute, ChildrenPublished, Published
    <3>4. QED
      BY <1>12, <2>3, <3>1, <3>3 DEF ResolveRoute, TypeOK
  <2>4. CASE Push(c, "route") /\ UNCHANGED raising
    BY <1>12, <2>1, <2>4, PushType, PushChildren DEF ResolveRoute, TypeOK
  <2>5. QED
    BY <1>12, <2>2, <2>3, <2>4 DEF ResolveRoute, p, c
<1>13. CASE Discover
  <2>1. Top \in Families
    BY <1>13, TopActive DEF Discover
  <2>2. frame[Top] \in Frame /\ schema[ModelOf[Top]] \in Schemas
    BY <2>1, ConstantsAssumption DEF TypeOK
  <2>3. Discovered(Top) \subseteq Families
    BY ConstantsAssumption DEF Discovered
  <2>4. [frame[Top] EXCEPT !.phase = "build", !.found = Discovered(Top),
                           !.builtFrom = {schema[ModelOf[Top]]}] \in Frame
    BY <2>2, <2>3 DEF Frame
  <2>5. frame' = [frame EXCEPT ![Top] =
                    [frame[Top] EXCEPT !.phase = "build", !.found = Discovered(Top),
                                       !.builtFrom = {schema[ModelOf[Top]]}]]
    BY <1>13, <2>2 DEF Discover, TypeOK
  <2>6. frame' \in [Families -> Frame]
    BY <2>4, <2>5 DEF TypeOK
  <2>7. \A f \in Families : /\ frame'[f].kids = frame[f].kids
                            /\ frame'[f].touched = frame[f].touched
    BY <2>2, <2>5 DEF TypeOK, Frame
  <2>8. QED
    BY <1>13, <2>6, <2>7 DEF Discover, TypeOK, ChildrenPublished, Published
<1>14. ASSUME NEW c \in Families, Touch(c)
       PROVE  Typing'
  <2>1. Top \in Families
    BY <1>14, TopActive DEF Touch
  <2>2. CASE Raise
    BY <1>14, <2>2 DEF Touch, Raise, TypeOK, ChildrenPublished, Published
  <2>3. CASE /\ Published(c) /\ UNCHANGED <<raising, stack, compiling>>
             /\ frame' = TouchKid(frame, Top, c)
    <3>1. frame' \in [Families -> Frame]
      BY <2>1, <2>3, TouchKidType DEF TypeOK
    <3>2. \A f \in Families : /\ frame'[f].kids = frame[f].kids
                              /\ frame'[f].touched \subseteq frame[f].touched \cup {c}
      <4>1. frame \in [Families -> Frame]
        BY DEF TypeOK
      <4> TAKE f \in Families
      <4>2. QED
        BY <2>1, <2>3, <4>1, TouchKidChildren
    <3>3. ChildrenPublished'
      BY <1>14, <2>3, <3>2 DEF Touch, ChildrenPublished, Published
    <3>4. QED
      BY <1>14, <2>3, <3>1, <3>3 DEF Touch, TypeOK
  <2>4. CASE Push(c, "build") /\ UNCHANGED raising
    BY <1>14, <2>4, PushType, PushChildren DEF Touch, TypeOK
  <2>5. QED
    BY <1>14, <2>2, <2>3, <2>4 DEF Touch
<1>15. CASE Reject \/ RejectRebuilt
  BY <1>15 DEF Reject, RejectRebuilt, Raise, TypeOK, ChildrenPublished, Published
<1>16. CASE Publish
  <2> DEFINE p == Top
  <2>1. p \in Families /\ stack # <<>>
    BY <1>16, TopActive DEF Publish
  <2>2. NewArtifact(p) \in Artifact
    BY <1>16, <2>1, NewArtifactType DEF Publish
  <2>3. frame' \in [Families -> Frame]
    BY <1>16, <2>1, ResumeType DEF Publish
  <2>4. stack' \in Seq(Families)
    BY <1>16, <2>1, TopOfStack DEF Publish, TypeOK
  <2>5. holder' \in Threads \cup {NoThread} /\ call' \in [Threads -> Call]
    <3>1. Idle("served") \in Call
      BY DEF Idle, Call, Results
    <3>2. QED
      BY <1>16, <3>1 DEF Publish, Leave, Return, TypeOK
  <2>6. ChildrenPublished'
    <3>1. \A f \in Families : /\ frame'[f].kids \subseteq frame[f].kids \cup {p}
                              /\ frame'[f].touched \subseteq frame[f].touched \cup {p}
      BY <1>16, <2>1, ResumeChildren DEF Publish
    <3>2. \A k \in Families : Published(k) \/ k = p => Published(k)'
      BY <1>16, <2>1, <2>2, NoArtifactAssumption DEF Publish, Published, TypeOK
    <3>3. \A f \in Families : frame[f].kids \cup frame[f].touched \subseteq Families
      BY DEF TypeOK, Frame
    <3>4. QED
      BY <2>1, <3>1, <3>2, <3>3 DEF ChildrenPublished
  <2>7. compiled' \in [Families -> Artifact \cup {NoArtifact}]
    BY <1>16, <2>2 DEF Publish, TypeOK
  <2>8. raising' \in BOOLEAN /\ compiling' \subseteq Families
    BY <1>16 DEF Publish, Finally, TypeOK
  <2>9. QED
    BY <1>16, <2>3, <2>4, <2>5, <2>6, <2>7, <2>8 DEF Publish, TypeOK
<1>17. CASE Unwind
  <2>1. stack' \in Seq(Families)
    <3>1. CASE stack = <<>>
      <4>1. Len(stack) - 1 \in Int /\ Len(stack) - 1 < 1
        BY <3>1, EmptySeq
      <4>2. Below = <<>>
        BY <4>1, SubSeqEmpty DEF Below
      <4>3. QED
        BY <1>17, <4>2, EmptySeq DEF Unwind
    <3>2. CASE stack # <<>>
      BY <1>17, <3>2, TopOfStack DEF Unwind, TypeOK
    <3>3. QED
      BY <3>1, <3>2
  <2>2. holder' \in Threads \cup {NoThread} /\ call' \in [Threads -> Call]
    <3>1. Idle("error") \in Call
      BY DEF Idle, Call, Results
    <3>2. QED
      BY <1>17, <3>1 DEF Unwind, Leave, Return, TypeOK
  <2>3. frame' \in [Families -> Frame]
    BY <1>17, NoFrameType DEF Unwind, TypeOK
  <2>4. ChildrenPublished'
    <3>1. \A f \in Families : /\ frame'[f].kids \in {frame[f].kids, {}}
                              /\ frame'[f].touched \in {frame[f].touched, {}}
      BY <1>17 DEF Unwind, NoFrame, TypeOK
    <3>2. QED
      BY <1>17, <3>1 DEF Unwind, ChildrenPublished, Published
  <2>5. raising' \in BOOLEAN /\ compiling' \subseteq Families
    <3>1. raising' \in {TRUE, FALSE}
      BY <1>17 DEF Unwind
    <3>2. QED
      BY <1>17, <3>1 DEF Unwind, Finally, TypeOK
  <2>6. QED
    BY <1>17, <2>1, <2>2, <2>3, <2>4, <2>5 DEF Unwind, TypeOK
<1>18. CASE UNCHANGED vars
  BY <1>18 DEF vars, TypeOK, ChildrenPublished, Published
<1>19. QED
  BY <1>1, <1>2, <1>3, <1>4, <1>5, <1>6, <1>7, <1>8, <1>9, <1>10, <1>11, <1>12,
     <1>13, <1>14, <1>15, <1>16, <1>17, <1>18 DEF Next, CompileStep

\* Type correctness: every variable keeps to its type, what compile() publishes is a
\* well-formed artifact, and a discovered family is a family (family.py:74-104, 217).
THEOREM TypeCorrect == Spec => []TypeOK
<1>1. Typing => TypeOK
  BY DEF Typing
<1>2. QED
  BY <1>1, TypingInit, TypingStep, PTL DEF Spec

-----------------------------------------------------------------------------
(* The stack of compile() calls. *)

Elements(s) == {s[i] : i \in DOMAIN s}
Distinct(s) == \A i, j \in DOMAIN s : s[i] = s[j] => i = j

\* Appending a new element to a sequence without repetitions.
LEMMA DistinctAppend ==
  ASSUME NEW S, NEW s \in Seq(S), NEW e \in S, Distinct(s), e \notin Elements(s)
  PROVE  /\ Distinct(Append(s, e))
         /\ Elements(Append(s, e)) = Elements(s) \cup {e}
         /\ DOMAIN Append(s, e) = 1 .. Len(s) + 1
         /\ DOMAIN s = 1 .. Len(s)
         /\ Append(s, e)[Len(s) + 1] = e
         /\ \A i \in 1 .. Len(s) : Append(s, e)[i] = s[i]
         /\ Append(s, e) # <<>>
<1> DEFINE n == Len(s)
           a == Append(s, e)
<1>1. /\ n \in Nat /\ DOMAIN s = 1 .. n
      /\ a \in Seq(S) /\ Len(a) = n + 1 /\ a # <<>>
      /\ \A i \in 1 .. n : a[i] = s[i]
      /\ a[n + 1] = e
  BY AppendProperties, LenProperties
<1>2. DOMAIN a = 1 .. n + 1
  BY <1>1, LenProperties
<1> HIDE DEF n, a
<1>3. \A i \in 1 .. n : s[i] # e
  BY <1>1 DEF Elements
<1>4. Distinct(a)
  BY <1>1, <1>2, <1>3 DEF Distinct
<1>5. Elements(a) = Elements(s) \cup {e}
  BY <1>1, <1>2 DEF Elements
<1>6. QED
  BY <1>1, <1>2, <1>4, <1>5 DEF n, a

\* Dropping the last element of a sequence without repetitions.
LEMMA DistinctFront ==
  ASSUME NEW S, NEW s \in Seq(S), NEW b \in Seq(S), Len(s) \in Nat \ {0},
         Len(b) = Len(s) - 1, \A i \in 1 .. Len(s) - 1 : b[i] = s[i], Distinct(s)
  PROVE  /\ Distinct(b)
         /\ Elements(b) = Elements(s) \ {s[Len(s)]}
         /\ DOMAIN b \subseteq DOMAIN s
         /\ \A i \in DOMAIN b : b[i] = s[i]
         /\ b = <<>> <=> Len(s) = 1
<1> DEFINE n == Len(s)
<1>1. DOMAIN s = 1 .. n /\ DOMAIN b = 1 .. n - 1
  BY LenProperties
<1>2. n \in Nat \ {0} /\ \A i \in 1 .. n - 1 : b[i] = s[i]
  OBVIOUS
<1>3. b = <<>> <=> n = 1
  BY <1>2, EmptySeq
<1> HIDE DEF n
<1>4. \A i \in 1 .. n - 1 : s[i] # s[n]
  BY <1>1, <1>2 DEF Distinct
<1>5. Distinct(b)
  BY <1>1, <1>2 DEF Distinct
<1>6. Elements(b) = Elements(s) \ {s[n]}
  BY <1>1, <1>2, <1>4 DEF Elements
<1>7. QED
  BY <1>1, <1>2, <1>3, <1>5, <1>6 DEF n

\* The outermost compile() call is the one a thread made, every other one was made
\* by a compile() call below it.
RootFirst == \A i \in DOMAIN stack : frame[stack[i]].via = "root" <=> i = 1

\* CompilationStack in the terms of these proofs.
StackInv ==
  /\ holder = NoThread <=> stack = <<>>
  /\ raising => stack # <<>>
  /\ Distinct(stack)
  /\ compiling = Elements(stack)
  /\ \A f \in compiling : ~Published(f)
  /\ \A t \in Threads : call[t].pc = "inside" <=> holder = t
  /\ RootFirst

\* A compile() call of g begins.
LEMMA PushStack ==
  ASSUME TypeOK, StackInv, NEW g \in Families, g \notin compiling, ~Published(g),
         stack' = Append(stack, g), compiling' = compiling \cup {g}, compiled' = compiled,
         frame'[g].via = "root" <=> stack = <<>>,
         \A f \in Families \ {g} : frame'[f].via = frame[f].via
  PROVE  /\ stack' # <<>>
         /\ Distinct(stack')
         /\ compiling' = Elements(stack')
         /\ \A f \in compiling' : ~Published(f)'
         /\ RootFirst'
<1>1. /\ stack \in Seq(Families) /\ Distinct(stack) /\ compiling = Elements(stack)
      /\ RootFirst
  BY DEF TypeOK, StackInv
<1>2. /\ Distinct(stack')
      /\ Elements(stack') = Elements(stack) \cup {g}
      /\ DOMAIN stack' = 1 .. Len(stack) + 1
      /\ DOMAIN stack = 1 .. Len(stack)
      /\ stack'[Len(stack) + 1] = g
      /\ \A i \in 1 .. Len(stack) : stack'[i] = stack[i]
      /\ stack' # <<>>
  BY <1>1, DistinctAppend
<1>3. \A f \in compiling' : ~Published(f)'
  BY DEF StackInv, Published
<1>4. Len(stack) \in Nat /\ (stack = <<>> <=> Len(stack) = 0)
  BY <1>1, EmptySeq, LenProperties
<1>5. \A i \in 1 .. Len(stack) : stack[i] \in Families \ {g}
  BY <1>1, <1>2, ElementOfSeq DEF Elements
<1>6. ASSUME NEW i \in DOMAIN stack'
      PROVE  frame'[stack'[i]].via = "root" <=> i = 1
  <2>1. CASE i = Len(stack) + 1
    BY <1>2, <1>4, <2>1
  <2>2. CASE i \in 1 .. Len(stack)
    BY <1>1, <1>2, <1>5, <2>2 DEF RootFirst
  <2>3. QED
    BY <1>2, <1>4, <1>6, <2>1, <2>2
<1>7. QED
  BY <1>1, <1>2, <1>3, <1>6 DEF RootFirst

\* The top compile() call ends, with a result or an exception.
LEMMA PopStack ==
  ASSUME TypeOK, StackInv, stack # <<>>,
         stack' = Below, compiling' = compiling \ {Top},
         \A f \in Families \ {Top} : frame'[f].via = frame[f].via,
         NEW result \in Results, Leave(result)
  PROVE  /\ Len(stack) = 1 <=> stack' = <<>>
         /\ holder' = NoThread <=> stack' = <<>>
         /\ Distinct(stack')
         /\ compiling' = Elements(stack')
         /\ \A t \in Threads : call'[t].pc = "inside" <=> holder' = t
         /\ RootFirst'
<1>1. /\ stack \in Seq(Families) /\ Len(stack) \in Nat \ {0}
      /\ Below \in Seq(Families) /\ Len(Below) = Len(stack) - 1
      /\ \A i \in 1 .. Len(stack) - 1 : Below[i] = stack[i]
      /\ Top = stack[Len(stack)] /\ Distinct(stack)
  BY TopOfStack DEF TypeOK, StackInv, Top
<1>2. /\ Distinct(stack')
      /\ Elements(stack') = Elements(stack) \ {Top}
      /\ DOMAIN stack' \subseteq DOMAIN stack
      /\ \A i \in DOMAIN stack' : stack'[i] = stack[i]
      /\ stack' = <<>> <=> Len(stack) = 1
  BY <1>1, DistinctFront
<1>3. compiling' = Elements(stack')
  BY <1>2 DEF StackInv
<1>4. RootFirst'
  <2>1. \A i \in DOMAIN stack' : stack[i] \in Families \ {Top}
    <3>1. \A i \in DOMAIN stack : stack[i] \in Families
      BY <1>1, ElementOfSeq, LenProperties
    <3>2. \A i \in DOMAIN stack' : stack'[i] \in Elements(stack')
      BY DEF Elements
    <3>3. QED
      BY <1>2, <3>1, <3>2
  <2>2. QED
    BY <1>2, <2>1 DEF StackInv, RootFirst
<1>5. holder \in Threads /\ call \in [Threads -> Call]
  BY DEF TypeOK, StackInv
<1>6. /\ holder' = NoThread <=> stack' = <<>>
      /\ \A t \in Threads : call'[t].pc = "inside" <=> holder' = t
  <2>1. CASE Len(stack) = 1
    <3>1. holder' = NoThread /\ call' = [call EXCEPT ![holder] = Idle(result)]
      BY <2>1 DEF Leave, Return
    <3>2. \A t \in Threads : call'[t].pc # "inside"
      BY <1>5, <3>1 DEF Idle, StackInv
    <3>3. QED
      BY <1>2, <2>1, <3>1, <3>2, ConstantsAssumption
  <2>2. CASE Len(stack) # 1
    BY <1>2, <1>5, <2>2, ConstantsAssumption DEF Leave, StackInv
  <2>3. QED
    BY <2>1, <2>2
<1>7. QED
  BY <1>2, <1>3, <1>4, <1>6

\* A step that neither begins nor ends a compile() call.
LEMMA StackKept ==
  ASSUME TypeOK, StackInv,
         stack' = stack, compiling' = compiling, compiled' = compiled, holder' = holder,
         raising' => stack # <<>>,
         \A f \in Families : frame'[f].via = frame[f].via,
         \A t \in Threads : call'[t].pc = "inside" <=> call[t].pc = "inside"
  PROVE  StackInv'
<1>1. RootFirst'
  <2>1. \A i \in DOMAIN stack : stack[i] \in Families
    BY ElementOfSeq, LenProperties DEF TypeOK
  <2>2. QED
    BY <2>1 DEF StackInv, RootFirst
<1>2. QED
  BY <1>1 DEF StackInv, Distinct, Elements, Published

\* What AddKid, TouchKid and Answer leave alone in a frame.
SameCall(now, before) ==
  /\ now.via = before.via
  /\ now.own = before.own
  /\ now.validated = before.validated

\* Recording a resolved child leaves the identity of every compile() call alone.
LEMMA AddKidCall ==
  ASSUME NEW fr \in [Families -> Frame], NEW p, NEW c \in Families, NEW f \in Families
  PROVE  SameCall(AddKid(fr, p, c)[f], fr[f])
<1>1. fr[f] \in Frame
  OBVIOUS
<1>2. QED
  BY <1>1 DEF AddKid, Frame, SameCall

\* Using the wire model of a child leaves the identity of every call alone.
LEMMA TouchKidCall ==
  ASSUME NEW fr \in [Families -> Frame], NEW p, NEW c \in Families, NEW f \in Families
  PROVE  SameCall(TouchKid(fr, p, c)[f], fr[f])
<1>1. fr[f] \in Frame
  OBVIOUS
<1>2. QED
  BY <1>1 DEF TouchKid, Frame, SameCall

\* What a returning call hands over leaves the identity of the other calls alone.
LEMMA ResumeCall ==
  ASSUME TypeOK, NEW p \in Families, NEW f \in Families \ {p}
  PROVE  SameCall(Resume(p)[f], frame[f])
<1> DEFINE cleared == [frame EXCEPT ![p] = NoFrame]
<1>1. cleared \in [Families -> Frame] /\ cleared[f] = frame[f]
  BY NoFrameType DEF TypeOK
<1> HIDE DEF cleared
<1>2. Resume(p) \in {AddKid(cleared, Caller, p), TouchKid(cleared, Caller, p), cleared}
  BY DEF Resume, cleared
<1>3. SameCall(cleared[f], frame[f])
  BY <1>1 DEF SameCall
<1>4. QED
  BY <1>1, <1>2, <1>3, AddKidCall, TouchKidCall

\* An answered critical section leaves the identity of every call alone.
LEMMA AnswerCall ==
  ASSUME TypeOK, StackInv, NEW t \in Threads, CanCall(t),
         NEW result \in {"done", "error"}, Answer(t, result)
  PROVE  /\ \A f \in Families : SameCall(frame'[f], frame[f])
         /\ raising' => stack # <<>>
         /\ \A u \in Threads : call'[u].pc = "inside" <=> call[u].pc = "inside"
<1>1. CASE holder = t
  <2>1. frame' = [frame EXCEPT ![Top].called = TRUE] /\ call' = call /\ stack # <<>>
    BY <1>1, ConstantsAssumption DEF Answer, StackInv
  <2>2. \A f \in Families : SameCall(frame'[f], frame[f])
    <3> TAKE f \in Families
    <3>1. frame[f] \in Frame
      BY DEF TypeOK
    <3>2. QED
      BY <2>1, <3>1 DEF TypeOK, Frame, SameCall
  <2>3. QED
    BY <2>1, <2>2
<1>2. CASE holder # t
  <2>1. /\ frame' = frame /\ raising' = raising
        /\ call' = [call EXCEPT ![t] = Idle(result)] /\ call[t].pc = "idle"
    BY <1>2 DEF Answer, Return, CanCall
  <2>2. \A u \in Threads : call'[u].pc = "inside" <=> call[u].pc = "inside"
    BY <2>1 DEF Idle, TypeOK
  <2>3. QED
    BY <2>1, <2>2 DEF SameCall, StackInv
<1>3. QED
  BY <1>1, <1>2

\* A compile() call captures the schema and the migrations at its beginning.
LEMMA PushCall ==
  ASSUME TypeOK, NEW g \in Families, NEW via, Push(g, via)
  PROVE  /\ frame'[g].via = via /\ frame'[g].validated = transitions[g]
         /\ \A f \in Families \ {g} : frame'[f] = frame[f]
  BY DEF Push, TypeOK, NoFrame

\* A compile() call made inside another one begins.
LEMMA PushInside ==
  ASSUME TypeOK, StackInv, NEW g \in Families, g \notin compiling, ~Published(g),
         stack # <<>>, stack' = Append(stack, g), compiling' = compiling \cup {g},
         frame'[g].via # "root", \A f \in Families \ {g} : frame'[f].via = frame[f].via,
         UNCHANGED <<compiled, holder, call>>
  PROVE  StackInv'
<1>1. /\ stack' # <<>>
      /\ Distinct(stack')
      /\ compiling' = Elements(stack')
      /\ \A f \in compiling' : ~Published(f)'
      /\ RootFirst'
  BY PushStack
<1>2. QED
  BY <1>1 DEF StackInv

\* The lock is free and the stack empty in the initial state.
LEMMA StackInit == Init => StackInv
<1> SUFFICES ASSUME Init PROVE StackInv
  OBVIOUS
<1>1. DOMAIN stack = {}
  BY EmptySeq, LenProperties DEF Init
<1>2. Distinct(stack) /\ Elements(stack) = {} /\ RootFirst
  BY <1>1 DEF Distinct, Elements, RootFirst
<1>3. \A t \in Threads : call[t].pc = "idle" /\ holder # t
  BY ConstantsAssumption DEF Init, Idle
<1>4. QED
  BY <1>2, <1>3 DEF Init, StackInv

\* A provider runs only inside the top compile() call of the lock's owner.
LEMMA ProviderCall ==
  ASSUME TypeOK, NEW g \in Families, ProviderCompile(g)
  PROVE  \/ /\ UNCHANGED <<stack, compiling>>
            /\ \A f \in Families : SameCall(frame'[f], frame[f])
         \/ /\ ~Published(g) /\ g \notin compiling
            /\ stack' = Append(stack, g) /\ compiling' = compiling \cup {g}
            /\ frame'[g].via = "provider" /\ frame'[g].validated = transitions[g]
            /\ \A f \in Families \ {g} : SameCall(frame'[f], frame[f])
<1> DEFINE called == [frame EXCEPT ![Top].called = TRUE]
           fresh == [NoFrame EXCEPT !.via = "provider", !.own = schema[ModelOf[g]],
                                    !.validated = transitions[g]]
<1>1. \A f \in Families : SameCall(called[f], frame[f])
  <2> TAKE f \in Families
  <2>1. frame[f] \in Frame
    BY DEF TypeOK
  <2>2. QED
    BY <2>1 DEF TypeOK, Frame, SameCall
<1>2. fresh.via = "provider" /\ fresh.validated = transitions[g]
  BY DEF NoFrame
<1>3. \/ UNCHANGED <<stack, compiling>> /\ frame' = called
      \/ /\ ~Published(g) /\ g \notin compiling
         /\ stack' = Append(stack, g) /\ compiling' = compiling \cup {g}
         /\ frame' = [called EXCEPT ![g] = fresh]
  BY DEF ProviderCompile
<1>4. called \in [Families -> {called[f] : f \in Families}]
  BY DEF TypeOK
<1> HIDE DEF called, fresh
<1>5. QED
  BY <1>1, <1>2, <1>3, <1>4

\* Every step keeps the lock, the stack and the flags in agreement.
LEMMA StackStep == Typing /\ StackInv /\ [Next]_vars => StackInv'
<1> SUFFICES ASSUME TypeOK, StackInv, Typing, [Next]_vars PROVE StackInv'
  BY DEF Typing
<1>1. ASSUME NEW t \in Threads, NEW f \in Families, Begin(t, f) \/ BeginCompile(t, f)
      PROVE  StackInv'
  <2>1. \A u \in Threads : call'[u].pc = "inside" <=> call[u].pc = "inside"
    <3>1. call \in [Threads -> Call] /\ call[t].pc = "idle"
      BY <1>1 DEF Begin, BeginCompile, TypeOK
    <3>2. \/ call' = [call EXCEPT ![t] = [pc |-> "read", family |-> f, result |-> "none"]]
          \/ call' = [call EXCEPT ![t] = [pc |-> "enter", family |-> f, result |-> "none"]]
      BY <1>1 DEF Begin, BeginCompile
    <3>3. QED
      BY <3>1, <3>2
  <2>2. QED
    BY <1>1, <2>1, StackKept DEF Begin, BeginCompile, StackInv
<1>2. ASSUME NEW t \in Threads, NEW m \in Models, BeginModelCall(t, m)
      PROVE  StackInv'
  <2>1. \A u \in Threads : call'[u].pc = "inside" <=> call[u].pc = "inside"
    BY <1>2 DEF BeginModelCall, Idle, TypeOK
  <2>2. QED
    BY <1>2, <2>1, StackKept DEF BeginModelCall, StackInv
<1>3. ASSUME NEW t \in Threads, Read(t) \/ EnterAnswered(t)
      PROVE  StackInv'
  <2>1. \A u \in Threads : call'[u].pc = "inside" <=> call[u].pc = "inside"
    <3>1. call \in [Threads -> Call] /\ call[t].pc \in {"read", "enter"}
      BY <1>3 DEF Read, EnterAnswered, TypeOK
    <3>2. \/ call' = [call EXCEPT ![t].pc = "enter"]
          \/ call' = [call EXCEPT ![t] = Idle("served")]
          \/ call' = [call EXCEPT ![t] = Idle("error")]
      BY <1>3 DEF Read, EnterAnswered, Return
    <3>3. call[t] \in Call
      BY <3>1
    <3>4. QED
      BY <3>1, <3>2, <3>3 DEF Idle, Call
  <2>2. QED
    BY <1>3, <2>1, StackKept DEF Read, EnterAnswered, StackInv
<1>4. ASSUME NEW t \in Threads, Enter(t)
      PROVE  StackInv'
  <2> DEFINE g == call[t].family
  <2>1. g \in Families
    <3>1. call[t] \in Call /\ call[t].pc = "enter"
      BY <1>4 DEF Enter, TypeOK
    <3>2. QED
      BY <3>1 DEF Call, Idle
  <2>2. stack = <<>> /\ ~Published(g) /\ g \notin compiling
    BY <1>4 DEF Enter, MustCompile, StackInv
  <2>3. /\ stack' = Append(stack, g) /\ compiling' = compiling \cup {g}
        /\ Push(g, "root") /\ UNCHANGED <<compiled, raising>>
        /\ holder' = t
    BY <1>4 DEF Enter, Push
  <2> HIDE DEF g
  <2>4. /\ stack' # <<>>
        /\ Distinct(stack')
        /\ compiling' = Elements(stack')
        /\ \A f \in compiling' : ~Published(f)'
        /\ RootFirst'
    BY <2>1, <2>2, <2>3, PushCall, PushStack
  <2>5. \A u \in Threads : call'[u].pc = "inside" <=> holder' = u
    BY <1>4, ConstantsAssumption DEF Enter, TypeOK, StackInv
  <2>6. QED
    BY <2>3, <2>4, <2>5, ConstantsAssumption DEF StackInv
<1>5. ASSUME NEW t \in Threads, NEW f \in Families, AsDefault(t, f)
      PROVE  StackInv'
  <2>1. PICK result \in {"done", "error"} : CanCall(t) /\ Answer(t, result)
    BY <1>5 DEF AsDefault
  <2>2. QED
    BY <1>5, <2>1, AnswerCall, StackKept DEF AsDefault, SameCall
<1>6. ASSUME NEW t \in Threads, NEW r \in Migrations,
             MigrationFactory(t, r[1], r[2]) \/ ApplyMigration(t, r[1], r[2])
      PROVE  StackInv'
  <2>1. PICK result \in {"done", "error"} : CanCall(t) /\ Answer(t, result)
    BY <1>6 DEF MigrationFactory, ApplyMigration
  <2>2. /\ stack' = stack /\ compiling' = compiling /\ compiled' = compiled
        /\ holder' = holder
    BY <1>6 DEF MigrationFactory, ApplyMigration
  <2>3. QED
    BY <2>1, <2>2, AnswerCall, StackKept DEF SameCall
<1>7. ASSUME NEW m \in Models, Rebuild(m)
      PROVE  StackInv'
  BY <1>7, StackKept DEF Rebuild, StackInv
<1>8. ASSUME NEW g \in Families, ProviderCompile(g)
      PROVE  StackInv'
  <2>1. Top \in Families /\ stack # <<>>
    BY <1>8, TopActive DEF ProviderCompile, InProvider
  <2>2. CASE UNCHANGED <<stack, compiling>> /\ \A f \in Families : SameCall(frame'[f], frame[f])
    BY <1>8, <2>1, <2>2, StackKept DEF ProviderCompile, SameCall
  <2>3. CASE /\ ~Published(g) /\ g \notin compiling
             /\ stack' = Append(stack, g) /\ compiling' = compiling \cup {g}
             /\ frame'[g].via = "provider"
             /\ \A f \in Families \ {g} : SameCall(frame'[f], frame[f])
    <3>1. frame'[g].via # "root" /\ \A f \in Families \ {g} : frame'[f].via = frame[f].via
      BY <2>3 DEF SameCall
    <3>2. QED
      BY <1>8, <2>1, <2>3, <3>1, PushInside DEF ProviderCompile
  <2>4. QED
    BY <1>8, <2>2, <2>3, ProviderCall
<1>9. CASE ResolveRoute
  <2> DEFINE p == Top
             c == Route1(p).family
  <2>1. p \in Families /\ c \in Families /\ stack # <<>>
    BY <1>9, TopActive, RouteType DEF ResolveRoute
  <2>2. UNCHANGED <<compiled, holder, call>>
    BY <1>9 DEF ResolveRoute
  <2> HIDE DEF p, c
  <2>3. CASE Raise
    BY <2>1, <2>2, <2>3, StackKept DEF Raise
  <2>4. CASE /\ Published(c) /\ UNCHANGED <<raising, stack, compiling>>
             /\ frame' = AddKid(frame, p, c)
    <3>1. \A f \in Families : frame'[f].via = frame[f].via
      <4>1. frame \in [Families -> Frame]
        BY DEF TypeOK
      <4> TAKE f \in Families
      <4>2. QED
        BY <2>1, <2>4, <4>1, AddKidCall DEF SameCall
    <3>2. QED
      BY <2>1, <2>2, <2>4, <3>1, StackKept
  <2>5. CASE Push(c, "route") /\ ~Published(c) /\ ~ChildRaises(c)
    <3>1. /\ c \notin compiling /\ ~Published(c)
          /\ stack' = Append(stack, c) /\ compiling' = compiling \cup {c}
      BY <2>5 DEF Push, ChildRaises
    <3>2. frame'[c].via # "root" /\ \A f \in Families \ {c} : frame'[f].via = frame[f].via
      BY <2>1, <2>5, PushCall
    <3>3. QED
      BY <2>1, <2>2, <3>1, <3>2, PushInside
  <2>6. QED
    BY <1>9, <2>3, <2>4, <2>5 DEF ResolveRoute, p, c
<1>10. CASE Discover
  <2>1. Top \in Families /\ stack # <<>>
    BY <1>10, TopActive DEF Discover
  <2>2. \A f \in Families : frame'[f].via = frame[f].via
    BY <1>10 DEF Discover, TypeOK, Frame
  <2>3. QED
    BY <1>10, <2>1, <2>2, StackKept DEF Discover
<1>11. ASSUME NEW c \in Families, Touch(c)
       PROVE  StackInv'
  <2>1. Top \in Families /\ stack # <<>>
    BY <1>11, TopActive DEF Touch
  <2>2. UNCHANGED <<compiled, holder, call>>
    BY <1>11 DEF Touch
  <2>3. CASE Raise
    BY <2>1, <2>2, <2>3, StackKept DEF Raise
  <2>4. CASE /\ Published(c) /\ UNCHANGED <<raising, stack, compiling>>
             /\ frame' = TouchKid(frame, Top, c)
    <3>1. \A f \in Families : frame'[f].via = frame[f].via
      <4>1. frame \in [Families -> Frame]
        BY DEF TypeOK
      <4> TAKE f \in Families
      <4>2. QED
        BY <2>1, <2>4, <4>1, TouchKidCall DEF SameCall
    <3>2. QED
      BY <2>1, <2>2, <2>4, <3>1, StackKept
  <2>5. CASE Push(c, "build") /\ ~Published(c) /\ ~ChildRaises(c)
    <3>1. /\ c \notin compiling /\ ~Published(c)
          /\ stack' = Append(stack, c) /\ compiling' = compiling \cup {c}
      BY <2>5 DEF Push, ChildRaises
    <3>2. frame'[c].via # "root" /\ \A f \in Families \ {c} : frame'[f].via = frame[f].via
      BY <2>1, <2>5, PushCall
    <3>3. QED
      BY <2>1, <2>2, <3>1, <3>2, PushInside
  <2>6. QED
    BY <1>11, <2>3, <2>4, <2>5 DEF Touch
<1>12. CASE Reject \/ RejectRebuilt
  BY <1>12, StackKept DEF Reject, RejectRebuilt, Raise, Active
<1>13. CASE Publish
  <2> DEFINE p == Top
  <2>1. p \in Families /\ stack # <<>>
    BY <1>13, TopActive DEF Publish
  <2>2. \A f \in Families \ {p} : frame'[f].via = frame[f].via
    BY <1>13, <2>1, ResumeCall DEF Publish, SameCall
  <2>3. /\ Len(stack) = 1 <=> stack' = <<>>
        /\ holder' = NoThread <=> stack' = <<>>
        /\ Distinct(stack')
        /\ compiling' = Elements(stack')
        /\ \A t \in Threads : call'[t].pc = "inside" <=> holder' = t
        /\ RootFirst'
    BY <1>13, <2>1, <2>2, PopStack DEF Publish, Finally, Results
  <2>4. \A f \in compiling' : ~Published(f)'
    BY <1>13 DEF Publish, Finally, StackInv, Published, TypeOK
  <2>5. raising' => stack' # <<>>
    <3>1. CASE Len(stack) = 1
      <4>1. p = stack[1] /\ 1 \in DOMAIN stack
        BY <2>1, <3>1, LenProperties DEF Top, TypeOK
      <4>2. frame[p].via = "root"
        BY <4>1 DEF StackInv, RootFirst
      <4>3. QED
        BY <1>13, <4>2 DEF Publish
    <3>2. QED
      BY <2>3, <3>1
  <2>6. QED
    BY <2>3, <2>4, <2>5 DEF StackInv
<1>14. CASE Unwind
  <2> DEFINE p == Top
  <2>1. p \in Families /\ stack # <<>>
    BY <1>14, TopOfStack DEF Unwind, StackInv, TypeOK
  <2>2. \A f \in Families \ {p} : frame'[f].via = frame[f].via
    BY <1>14 DEF Unwind, TypeOK
  <2>3. /\ Len(stack) = 1 <=> stack' = <<>>
        /\ holder' = NoThread <=> stack' = <<>>
        /\ Distinct(stack')
        /\ compiling' = Elements(stack')
        /\ \A t \in Threads : call'[t].pc = "inside" <=> holder' = t
        /\ RootFirst'
    BY <1>14, <2>1, <2>2, PopStack DEF Unwind, Finally, Results
  <2>4. \A f \in compiling' : ~Published(f)'
    BY <1>14 DEF Unwind, Finally, StackInv, Published
  <2>5. raising' => stack' # <<>>
    BY <1>14, <2>3 DEF Unwind
  <2>6. QED
    BY <2>3, <2>4, <2>5 DEF StackInv
<1>15. CASE UNCHANGED vars
  BY <1>15, StackKept DEF vars, StackInv
<1>16. QED
  BY <1>1, <1>2, <1>3, <1>4, <1>5, <1>6, <1>7, <1>8, <1>9, <1>10, <1>11, <1>12,
     <1>13, <1>14, <1>15 DEF Next, CompileStep

\* The lock, the stack of compile() calls and the _compiling flags agree in every
\* state, for any family graph and any number of threads (family.py:138-147, 235-236).
THEOREM StackCorrect == Spec => []CompilationStack
<1>1. StackInv => CompilationStack
  BY DEF StackInv, CompilationStack, Distinct, Elements
<1>2. Init => Typing /\ StackInv
  BY TypingInit, StackInit
<1>3. Typing /\ StackInv /\ [Next]_vars => Typing' /\ StackInv'
  BY TypingStep, StackStep
<1>4. QED
  BY <1>1, <1>2, <1>3, PTL DEF Spec

-----------------------------------------------------------------------------
(* Migrations. *)

\* What one step does to the compile() calls in progress and to the artifacts.
LEMMA CompilingStep ==
  ASSUME Typing, StackInv, [Next]_vars
  PROVE  \/ /\ \E p \in compiling :
                 /\ frame[p].touched = Children(p)
                 /\ compiled' = [compiled EXCEPT ![p] = NewArtifact(p)]
                 /\ compiling' = compiling \ {p}
                 /\ \A f \in Families \ {p} : SameCall(frame'[f], frame[f])
            /\ UNCHANGED transitions
         \/ /\ UNCHANGED compiled
            /\ \A f \in compiling' :
                 \/ f \in compiling /\ SameCall(frame'[f], frame[f])
                 \/ f \notin compiling /\ frame'[f].validated = transitions[f]
            /\ \/ UNCHANGED transitions
               \/ \E f \in Families, e \in Edges :
                    /\ TransitionAllowed(f, e)
                    /\ transitions' = [transitions EXCEPT ![f] = Append(@, e)]
                    /\ UNCHANGED compiling
<1> DEFINE Goal == \A f \in compiling' :
                     \/ f \in compiling /\ SameCall(frame'[f], frame[f])
                     \/ f \notin compiling /\ frame'[f].validated = transitions[f]
<1> USE DEF Typing
<1>1. ASSUME \E t \in Threads, f \in Families : Begin(t, f) \/ BeginCompile(t, f)
      PROVE  Goal /\ UNCHANGED <<compiled, transitions>>
  BY <1>1 DEF Begin, BeginCompile, SameCall
<1>2. ASSUME \/ \E t \in Threads, m \in Models : BeginModelCall(t, m)
             \/ \E t \in Threads : Read(t) \/ EnterAnswered(t)
             \/ \E m \in Models : Rebuild(m)
      PROVE  Goal /\ UNCHANGED <<compiled, transitions>>
  BY <1>2 DEF BeginModelCall, Read, EnterAnswered, Rebuild, SameCall
<1>3. ASSUME NEW t \in Threads, Enter(t)
      PROVE  Goal /\ UNCHANGED <<compiled, transitions>>
  <2> DEFINE g == call[t].family
  <2>1. g \in Families
    <3>1. call[t] \in Call /\ call[t].pc = "enter"
      BY <1>3 DEF Enter, TypeOK
    <3>2. QED
      BY <3>1 DEF Call, Idle
  <2>2. /\ Push(g, "root") /\ compiling' = compiling \cup {g} /\ g \notin compiling
        /\ UNCHANGED <<compiled, transitions>>
    BY <1>3 DEF Enter, Push, MustCompile
  <2> HIDE DEF g
  <2>3. QED
    BY <2>1, <2>2, PushCall DEF SameCall, TypeOK
<1>4. ASSUME NEW t \in Threads, NEW f \in Families, AsDefault(t, f)
      PROVE  Goal /\ UNCHANGED <<compiled, transitions>>
  <2>1. PICK result \in {"done", "error"} : CanCall(t) /\ Answer(t, result)
    BY <1>4 DEF AsDefault
  <2>2. QED
    BY <1>4, <2>1, AnswerCall DEF AsDefault, TypeOK
<1>5. ASSUME NEW t \in Threads, NEW r \in Migrations, MigrationFactory(t, r[1], r[2])
      PROVE  Goal /\ UNCHANGED <<compiled, transitions>>
  <2>1. PICK result \in {"done", "error"} : CanCall(t) /\ Answer(t, result)
    BY <1>5 DEF MigrationFactory
  <2>2. QED
    BY <1>5, <2>1, AnswerCall DEF MigrationFactory, TypeOK
<1>6. ASSUME NEW t \in Threads, NEW r \in Migrations, ApplyMigration(t, r[1], r[2])
      PROVE  /\ Goal /\ UNCHANGED <<compiled, compiling>>
             /\ \/ UNCHANGED transitions
                \/ \E f \in Families, e \in Edges :
                     /\ TransitionAllowed(f, e)
                     /\ transitions' = [transitions EXCEPT ![f] = Append(@, e)]
  <2>1. PICK result \in {"done", "error"} : CanCall(t) /\ Answer(t, result)
    BY <1>6 DEF ApplyMigration
  <2>2. r[1] \in Families /\ r[2] \in Edges
    BY ConstantsAssumption
  <2>3. Goal /\ UNCHANGED <<compiled, compiling>>
    BY <1>6, <2>1, AnswerCall DEF ApplyMigration, TypeOK
  <2>4. QED
    BY <1>6, <2>2, <2>3 DEF ApplyMigration
<1>7. ASSUME NEW g \in Families, ProviderCompile(g)
      PROVE  Goal /\ UNCHANGED <<compiled, transitions>>
  BY <1>7, ProviderCall DEF ProviderCompile, TypeOK
<1>8. ASSUME ResolveRoute
      PROVE  Goal /\ UNCHANGED <<compiled, transitions>>
  <2> DEFINE p == Top
             c == Route1(p).family
  <2>1. p \in Families /\ c \in Families
    BY <1>8, TopActive, RouteType DEF ResolveRoute
  <2>2. UNCHANGED <<compiled, transitions>>
    BY <1>8 DEF ResolveRoute
  <2> HIDE DEF p, c
  <2>3. CASE Raise
    BY <2>2, <2>3 DEF Raise, SameCall
  <2>4. CASE compiling' = compiling /\ frame' = AddKid(frame, p, c)
    <3>1. frame \in [Families -> Frame] /\ compiling \subseteq Families
      BY DEF TypeOK
    <3>2. QED
      BY <2>1, <2>2, <2>4, <3>1, AddKidCall
  <2>5. CASE Push(c, "route") /\ c \notin compiling
    BY <2>1, <2>2, <2>5, PushCall DEF Push, TypeOK, SameCall
  <2>6. QED
    BY <1>8, <2>3, <2>4, <2>5 DEF ResolveRoute, p, c, ChildRaises
<1>9. ASSUME Discover
      PROVE  Goal /\ UNCHANGED <<compiled, transitions>>
  <2>1. \A f \in Families : SameCall(frame'[f], frame[f])
    BY <1>9 DEF Discover, TypeOK, Frame, SameCall
  <2>2. QED
    BY <1>9, <2>1 DEF Discover, TypeOK
<1>10. ASSUME NEW c \in Families, Touch(c)
       PROVE  Goal /\ UNCHANGED <<compiled, transitions>>
  <2>1. UNCHANGED <<compiled, transitions>>
    BY <1>10 DEF Touch
  <2>2. CASE Raise
    BY <2>1, <2>2 DEF Raise, SameCall
  <2>3. CASE compiling' = compiling /\ frame' = TouchKid(frame, Top, c)
    <3>1. frame \in [Families -> Frame] /\ compiling \subseteq Families
      BY DEF TypeOK
    <3>2. QED
      BY <2>1, <2>3, <3>1, TouchKidCall
  <2>4. CASE Push(c, "build") /\ c \notin compiling
    BY <2>1, <2>4, PushCall DEF Push, TypeOK, SameCall
  <2>5. QED
    BY <1>10, <2>2, <2>3, <2>4 DEF Touch, ChildRaises
<1>11. ASSUME Reject \/ RejectRebuilt \/ UNCHANGED vars
       PROVE  Goal /\ UNCHANGED <<compiled, transitions>>
  BY <1>11 DEF Reject, RejectRebuilt, Raise, vars, SameCall
<1>12. ASSUME Publish
       PROVE  /\ \E p \in compiling :
                   /\ frame[p].touched = Children(p)
                   /\ compiled' = [compiled EXCEPT ![p] = NewArtifact(p)]
                   /\ compiling' = compiling \ {p}
                   /\ \A f \in Families \ {p} : SameCall(frame'[f], frame[f])
              /\ UNCHANGED transitions
  <2>1. Top \in Families /\ stack # <<>>
    BY <1>12, TopActive DEF Publish
  <2>2. Top \in compiling
    BY <2>1, TopOfStack, LenProperties DEF StackInv, Elements, Top, TypeOK
  <2>3. \A f \in Families \ {Top} : SameCall(frame'[f], frame[f])
    BY <1>12, <2>1, ResumeCall DEF Publish
  <2>4. QED
    BY <1>12, <2>2, <2>3 DEF Publish, Finally
<1>13. ASSUME Unwind
       PROVE  Goal /\ UNCHANGED <<compiled, transitions>>
  BY <1>13 DEF Unwind, Finally, TypeOK, SameCall
<1>14. QED
  BY <1>1, <1>2, <1>3, <1>4, <1>5, <1>6, <1>7, <1>8, <1>9, <1>10, <1>11, <1>12,
     <1>13 DEF Next, CompileStep

MigrationsInv ==
  /\ \A f \in Families : Published(f) => compiled[f].transitions = transitions[f]
  /\ \A f \in compiling : frame[f].validated = transitions[f]
  /\ \A f \in Families : Distinct(transitions[f])

\* No migration is registered in the initial state.
LEMMA MigrationsInit == Init => MigrationsInv
<1> SUFFICES ASSUME Init PROVE MigrationsInv
  OBVIOUS
<1>1. \A f \in Families : transitions[f] = <<>> /\ ~Published(f)
  BY DEF Init, Published
<1>2. Distinct(<<>>)
  BY EmptySeq, LenProperties DEF Distinct
<1>3. QED
  BY <1>1, <1>2 DEF Init, MigrationsInv

\* A migration is appended only to a family that has not begun to compile; every
\* other step leaves the sequences alone.
LEMMA MigrationsStep ==
  Typing /\ StackInv /\ MigrationsInv /\ [Next]_vars => MigrationsInv'
<1> SUFFICES ASSUME Typing, StackInv, MigrationsInv, [Next]_vars
             PROVE  MigrationsInv'
  OBVIOUS
<1>1. /\ compiling \subseteq Families
      /\ compiled \in [Families -> Artifact \cup {NoArtifact}]
      /\ transitions \in [Families -> Seq(Edges)]
  BY DEF Typing, TypeOK
<1>2. ASSUME NEW p \in compiling, frame[p].touched = Children(p),
             compiled' = [compiled EXCEPT ![p] = NewArtifact(p)],
             compiling' = compiling \ {p},
             \A f \in Families \ {p} : SameCall(frame'[f], frame[f]),
             UNCHANGED transitions
      PROVE  MigrationsInv'
  <2>1. NewArtifact(p).transitions = transitions[p]
    BY DEF NewArtifact
  <2>2. \A f \in Families : Published(f)' => compiled'[f].transitions = transitions'[f]
    BY <1>1, <1>2, <2>1 DEF MigrationsInv, Published
  <2>3. \A f \in compiling' : frame'[f].validated = transitions'[f]
    BY <1>1, <1>2 DEF MigrationsInv, SameCall
  <2>4. QED
    BY <1>2, <2>2, <2>3 DEF MigrationsInv, Distinct
<1>3. ASSUME UNCHANGED <<compiled, transitions>>,
             \A f \in compiling' :
               \/ f \in compiling /\ SameCall(frame'[f], frame[f])
               \/ f \notin compiling /\ frame'[f].validated = transitions[f]
      PROVE  MigrationsInv'
  <2>1. \A f \in compiling' : frame'[f].validated = transitions'[f]
    BY <1>3 DEF MigrationsInv, SameCall
  <2>2. QED
    BY <1>3, <2>1 DEF MigrationsInv, Distinct, Published
<1>4. ASSUME UNCHANGED <<compiled, compiling>>,
             \A f \in compiling' :
               \/ f \in compiling /\ SameCall(frame'[f], frame[f])
               \/ f \notin compiling /\ frame'[f].validated = transitions[f],
             NEW f \in Families, NEW e \in Edges, TransitionAllowed(f, e),
             transitions' = [transitions EXCEPT ![f] = Append(@, e)]
      PROVE  MigrationsInv'
  <2>1. ~Published(f) /\ f \notin compiling
    BY <1>4 DEF TransitionAllowed
  <2>2. Distinct(Append(transitions[f], e))
    <3>1. /\ transitions[f] \in Seq(Edges) /\ Distinct(transitions[f])
          /\ e \notin Elements(transitions[f])
      BY <1>1, <1>4 DEF MigrationsInv, TransitionAllowed, Elements
    <3>2. QED
      BY <3>1, DistinctAppend
  <2>3. \A g \in Families :
          /\ g # f => transitions'[g] = transitions[g]
          /\ g = f => transitions'[g] = Append(transitions[f], e)
    BY <1>1, <1>4
  <2>4. \A g \in Families : Distinct(transitions'[g])
    BY <2>2, <2>3 DEF MigrationsInv, Distinct
  <2>5. \A g \in compiling' : frame'[g].validated = transitions'[g]
    BY <1>1, <1>4, <2>1, <2>3 DEF MigrationsInv, SameCall
  <2>6. \A g \in Families : Published(g)' => compiled'[g].transitions = transitions'[g]
    BY <1>4, <2>1, <2>3 DEF MigrationsInv, Published
  <2>7. QED
    BY <2>4, <2>5, <2>6 DEF MigrationsInv, Distinct
<1>5. QED
  BY <1>2, <1>3, <1>4, CompilingStep

\* A migration registered for a family is compiled into it, whenever its decorator
\* is applied and whatever compilation is in progress (family.py:391-430).
THEOREM MigrationsCorrect == Spec => []MigrationsFrozen
<1>1. StackInv /\ MigrationsInv /\ Typing => MigrationsFrozen
  BY DEF MigrationsInv, MigrationsFrozen, Distinct, Typing, TypeOK
<1>2. Init => Typing /\ StackInv /\ MigrationsInv
  BY TypingInit, StackInit, MigrationsInit
<1>3. Typing /\ StackInv /\ MigrationsInv /\ [Next]_vars
        => Typing' /\ StackInv' /\ MigrationsInv'
  BY TypingStep, StackStep, MigrationsStep
<1>4. QED
  BY <1>1, <1>2, <1>3, PTL DEF Spec

-----------------------------------------------------------------------------
(* Artifacts. *)

\* No step replaces or withdraws a published artifact.
LEMMA PublishedStep ==
  Typing /\ StackInv /\ [Next]_vars
    => \A f \in Families : Published(f) => compiled'[f] = compiled[f]
<1> SUFFICES ASSUME Typing, StackInv, [Next]_vars, NEW f \in Families, Published(f)
             PROVE  compiled'[f] = compiled[f]
  OBVIOUS
<1>1. f \notin compiling
  BY DEF StackInv
<1>2. QED
  BY <1>1, CompilingStep DEF Typing, TypeOK

\* A family's artifact is published once, by whichever thread compiles first, and is
\* never replaced or withdrawn (family.py:139-142, 217).
THEOREM PublishedOnceCorrect == Spec => PublishedOnce
<1>1. Init => Typing /\ StackInv
  BY TypingInit, StackInit
<1>2. Typing /\ StackInv /\ [Next]_vars => Typing' /\ StackInv'
  BY TypingStep, StackStep
<1>3. Typing /\ StackInv /\ [Next]_vars
        => [\A f \in Families : Published(f) => compiled'[f] = compiled[f]]_vars
  BY PublishedStep
<1>4. QED
  BY <1>1, <1>2, <1>3, PTL DEF Spec, PublishedOnce

\* The initial state has no artifact that could be incoherent.
LEMMA CoherentInit == Init => CoherentGraph
  BY DEF Init, CoherentGraph, Published

\* A published artifact is coherent, and later steps leave it so.
LEMMA CoherentStep ==
  Typing /\ StackInv /\ CoherentGraph /\ [Next]_vars => CoherentGraph'
<1> SUFFICES ASSUME Typing, StackInv, CoherentGraph, [Next]_vars
             PROVE  CoherentGraph'
  OBVIOUS
<1>1. CASE UNCHANGED compiled
  BY <1>1 DEF CoherentGraph, Published
<1>2. ASSUME NEW p \in compiling, frame[p].touched = Children(p),
             compiled' = [compiled EXCEPT ![p] = NewArtifact(p)]
      PROVE  CoherentGraph'
  <2> DEFINE new == NewArtifact(p)
  <2>1. p \in Families /\ ~Published(p)
    BY DEF StackInv, Typing, TypeOK
  <2>2. new \in Artifact
    BY <1>2, <2>1, NewArtifactType DEF Typing
  <2>3. /\ compiled'[p] = new /\ Published(p)'
        /\ \A f \in Families \ {p} : compiled'[f] = compiled[f]
        /\ \A f \in Families : Published(f) => f # p /\ Published(f)'
    BY <1>2, <2>1, <2>2, NoArtifactAssumption DEF Published, Typing, TypeOK
  <2>4. /\ new.own = frame[p].own /\ new.deps = Dependencies(p)
        /\ new.kids \cup new.found = Children(p)
    BY DEF NewArtifact, Children
  <2>5. \A k \in Children(p) : k \in Families /\ Published(k)
    BY <1>2, <2>1 DEF Typing, ChildrenPublished, TypeOK, Frame, Children
  <2>6. \A f \in Families : Published(f) =>
          \A d \in compiled[f].deps : d.family \in Families
    BY DEF Typing, TypeOK, Artifact, Dependency, Published
  <2>7. \A k \in Children(p) : \A d \in compiled[k].deps :
          /\ d.family \in Families \ {p} /\ Published(d.family)
          /\ compiled[d.family].own = d.schema
    BY <2>1, <2>5, <2>6 DEF CoherentGraph
  <2>8. /\ [family |-> p, schema |-> new.own] \in new.deps
        /\ \A k \in Children(p) : compiled[k].deps \subseteq new.deps
        /\ \A d \in new.deps :
             \/ d = [family |-> p, schema |-> new.own]
             \/ \E k \in Children(p) : d \in compiled[k].deps
    BY <2>4, <2>7 DEF Dependencies
  <2> HIDE DEF new
  <2>9. /\ [family |-> p, schema |-> compiled'[p].own] \in compiled'[p].deps
        /\ \A d \in compiled'[p].deps :
             Published(d.family)' /\ compiled'[d.family].own = d.schema
        /\ \A k \in compiled'[p].kids \cup compiled'[p].found :
             Published(k)' /\ compiled'[k].deps \subseteq compiled'[p].deps
    <3>1. \A d \in new.deps : Published(d.family)' /\ compiled'[d.family].own = d.schema
      BY <2>3, <2>7, <2>8
    <3>2. \A k \in Children(p) : Published(k)' /\ compiled'[k].deps \subseteq new.deps
      BY <2>3, <2>5, <2>8
    <3>3. QED
      BY <2>3, <2>4, <2>8, <3>1, <3>2
  <2>10. ASSUME NEW f \in Families \ {p}, Published(f)'
         PROVE  /\ [family |-> f, schema |-> compiled'[f].own] \in compiled'[f].deps
                /\ \A d \in compiled'[f].deps :
                     Published(d.family)' /\ compiled'[d.family].own = d.schema
                /\ \A k \in compiled'[f].kids \cup compiled'[f].found :
                     Published(k)' /\ compiled'[k].deps \subseteq compiled'[f].deps
    <3>1. Published(f) /\ compiled'[f] = compiled[f]
      BY <2>3, <2>10 DEF Published
    <3>2. \A d \in compiled[f].deps :
            /\ d.family \in Families \ {p} /\ Published(d.family)
            /\ compiled[d.family].own = d.schema
      BY <2>1, <2>6, <3>1 DEF CoherentGraph
    <3>3. \A k \in compiled[f].kids \cup compiled[f].found :
            /\ k \in Families \ {p} /\ Published(k)
            /\ compiled[k].deps \subseteq compiled[f].deps
      <4>1. compiled[f] \in Artifact
        BY <3>1 DEF Typing, TypeOK, Published
      <4>2. QED
        BY <2>1, <3>1, <4>1 DEF CoherentGraph, Artifact
    <3>4. QED
      BY <2>3, <3>1, <3>2, <3>3 DEF CoherentGraph
  <2>11. QED
    BY <2>9, <2>10 DEF CoherentGraph
<1>3. QED
  BY <1>1, <1>2, CompilingStep

\* What an artifact recorded covers its whole embedded graph consistently, however
\* the graph is shaped and in whatever order its families were compiled
\* (family.py:433-453).
THEOREM CoherentGraphCorrect == Spec => []CoherentGraph
<1>1. Init => Typing /\ StackInv /\ CoherentGraph
  BY TypingInit, StackInit, CoherentInit
<1>2. Typing /\ StackInv /\ CoherentGraph /\ [Next]_vars
        => Typing' /\ StackInv' /\ CoherentGraph'
  BY TypingStep, StackStep, CoherentStep
<1>3. QED
  BY <1>1, <1>2, PTL DEF Spec

-----------------------------------------------------------------------------
(* Refinement. *)

\* What the abstract specification sees of the artifacts.
Compiled ==
  [f \in Families |->
     IF Published(f)
     THEN [own |-> compiled[f].own, transitions |-> compiled[f].transitions]
     ELSE NoArtifact]

\* Initial states map to initial states of the atomic specification.
LEMMA AtomicInit == Init => Atomic!Init
<1> SUFFICES ASSUME Init PROVE Atomic!Init
  OBVIOUS
<1>1. Compiled = [f \in Families |-> NoArtifact]
  BY DEF Init, Compiled, Published
<1>2. QED
  BY <1>1 DEF Init, Atomic!Init, Compiled

\* A published family whose model was rebuilt is stale for the abstract
\* specification; a graph that as_default() finds rebuilt contains one.
LEMMA RebuiltIsStale ==
  ASSUME Typing, CoherentGraph, NEW f \in Families, GraphWasRebuilt(f)
  PROVE  \E g \in Families : Atomic!Stale(g)
<1>1. PICK g \in Families : Published(g) /\ ~Unchanged(compiled[g])
  BY DEF GraphWasRebuilt, Examined
<1>2. PICK d \in compiled[g].deps : schema[ModelOf[d.family]] # d.schema
  BY <1>1 DEF Unchanged
<1>3. compiled[g] \in Artifact
  BY <1>1 DEF Typing, TypeOK, Published
<1>4. d.family \in Families /\ Published(d.family) /\ compiled[d.family].own = d.schema
  BY <1>1, <1>2, <1>3 DEF CoherentGraph, Artifact, Dependency
<1>5. compiled[d.family] \in Artifact
  BY <1>4 DEF Typing, TypeOK, Published
<1>6. [own |-> compiled[d.family].own, transitions |-> compiled[d.family].transitions]
        # NoArtifact
  BY <1>5, NoArtifactAssumption DEF Artifact
<1>7. Atomic!Stale(d.family)
  BY <1>2, <1>4, <1>6 DEF Atomic!Stale
<1>8. QED
  BY <1>4, <1>7

\* Every step maps to a step of the atomic specification or to a stutter.
LEMMA AtomicStep ==
  Typing /\ StackInv /\ CoherentGraph /\ [Next]_vars => [Atomic!Next]_(Atomic!avars)
<1> SUFFICES ASSUME Typing, StackInv, CoherentGraph, [Next]_vars
             PROVE  Atomic!Next \/ UNCHANGED Atomic!avars
  OBVIOUS
<1>1. ASSUME UNCHANGED <<schema, compiled, transitions, default>>
      PROVE  UNCHANGED Atomic!avars
  BY <1>1 DEF Atomic!avars, Published
<1>2. ASSUME NEW t \in Threads, NEW f \in Families, AsDefault(t, f)
      PROVE  Atomic!Next \/ UNCHANGED Atomic!avars
  <2> DEFINE existing == default[ModelOf[f]]
  <2>1. UNCHANGED <<schema, compiled, transitions>>
    BY <1>2 DEF AsDefault
  <2>2. ModelOf[f] \in Models /\ default \in [Models -> Families \cup {NoFamily}]
    BY ConstantsAssumption DEF Typing, TypeOK
  <2>3. CASE default' = default
    BY <1>1, <2>1, <2>3
  <2>4. CASE /\ default' = [default EXCEPT ![ModelOf[f]] = f]
             /\ existing = NoFamily \/ (existing \in Families /\ GraphWasRebuilt(existing))
    <3>1. existing = NoFamily \/ \E g \in Families : Atomic!Stale(g)
      BY <2>4, RebuiltIsStale
    <3>2. Atomic!Select(f)
      BY <2>1, <2>4, <3>1 DEF Atomic!Select, Published
    <3>3. QED
      BY <3>2 DEF Atomic!Next
  <2>5. QED
    BY <1>2, <2>2, <2>3, <2>4 DEF AsDefault
<1>3. ASSUME NEW t \in Threads, NEW r \in Migrations, ApplyMigration(t, r[1], r[2])
      PROVE  Atomic!Next \/ UNCHANGED Atomic!avars
  <2>1. UNCHANGED <<schema, compiled, default>>
    BY <1>3 DEF ApplyMigration
  <2>2. CASE transitions' = transitions
    BY <1>1, <2>1, <2>2
  <2>3. CASE /\ TransitionAllowed(r[1], r[2])
             /\ transitions' = [transitions EXCEPT ![r[1]] = Append(@, r[2])]
    <3>1. r[1] \in Families
      BY ConstantsAssumption
    <3>2. Atomic!Register(r[1], r[2])
      BY <2>1, <2>3, <3>1 DEF TransitionAllowed, Atomic!Register, Published
    <3>3. QED
      BY <3>2 DEF Atomic!Next
  <2>4. QED
    BY <1>3, <2>2, <2>3 DEF ApplyMigration
<1>4. ASSUME NEW m \in Models, Rebuild(m)
      PROVE  Atomic!Next \/ UNCHANGED Atomic!avars
  <2>1. Atomic!Rebuild(m)
    BY <1>4 DEF Rebuild, Atomic!Rebuild, Published
  <2>2. QED
    BY <2>1 DEF Atomic!Next
<1>5. CASE Publish
  <2>1. PICK p \in Families : p = Top /\ stack # <<>>
    BY <1>5, TopActive DEF Publish, Typing
  <2>2. ~Published(p)
    BY <2>1, TopOfStack, LenProperties DEF StackInv, Elements, Top, Typing, TypeOK
  <2>3. /\ compiled' = [compiled EXCEPT ![p] = NewArtifact(p)]
        /\ frame[p].own = schema[ModelOf[p]] /\ frame[p].touched = Children(p)
        /\ UNCHANGED <<schema, transitions, default>>
    BY <1>5, <2>1 DEF Publish, OwnerUnchanged
  <2>4. /\ NewArtifact(p) \in Artifact
        /\ NewArtifact(p).own = schema[ModelOf[p]]
        /\ NewArtifact(p).transitions = transitions[p]
    BY <2>1, <2>3, NewArtifactType DEF Typing, NewArtifact
  <2>5. Compiled' = [Compiled EXCEPT ![p] =
                       [own |-> schema[ModelOf[p]], transitions |-> transitions[p]]]
    BY <2>1, <2>3, <2>4, NoArtifactAssumption DEF Compiled, Published, Typing, TypeOK
  <2>6. Compiled[p] = NoArtifact
    BY <2>1, <2>2 DEF Compiled
  <2>7. Atomic!Compile(p)
    BY <2>3, <2>5, <2>6 DEF Atomic!Compile, Compiled
  <2>8. QED
    BY <2>7 DEF Atomic!Next
<1>6. QED
  BY <1>1, <1>2, <1>3, <1>4, <1>5
     DEF Next, CompileStep, Begin, BeginCompile, BeginModelCall, Read, EnterAnswered,
         Enter, MigrationFactory, ProviderCompile, ResolveRoute, Discover, Touch, Reject,
         RejectRebuilt, Unwind, vars

\* Families compiled lazily, recursively, by any number of threads, with callbacks
\* and failures, implement families that are compiled atomically, at most once, from
\* all the migrations they will ever have (family.py:138-237, 391-430).
THEOREM Refinement == Spec => ImplementsAtomicFamilies
<1>1. Init => Typing /\ StackInv /\ CoherentGraph
  BY TypingInit, StackInit, CoherentInit
<1>2. Typing /\ StackInv /\ CoherentGraph /\ [Next]_vars
        => Typing' /\ StackInv' /\ CoherentGraph'
  BY TypingStep, StackStep, CoherentStep
<1>3. QED
  BY <1>1, <1>2, AtomicInit, AtomicStep, PTL DEF Spec, ImplementsAtomicFamilies, Atomic!Spec

-----------------------------------------------------------------------------
(* Serving an artifact. *)

\* An artifact also has the dependencies of every family it depends on, at any depth.
DependenciesClosed ==
  \A f \in {g \in Families : Published(g)} :
    \A d \in compiled[f].deps : compiled[d.family].deps \subseteq compiled[f].deps

\* A new artifact takes over dependencies that were closed, and artifacts stay.
LEMMA ClosedStep ==
  Typing /\ StackInv /\ CoherentGraph /\ DependenciesClosed /\ [Next]_vars
    => DependenciesClosed'
<1> SUFFICES ASSUME Typing, StackInv, CoherentGraph, DependenciesClosed, [Next]_vars
             PROVE  DependenciesClosed'
  OBVIOUS
<1>1. CASE UNCHANGED compiled
  BY <1>1 DEF DependenciesClosed, Published
<1>2. ASSUME NEW p \in compiling, frame[p].touched = Children(p),
             compiled' = [compiled EXCEPT ![p] = NewArtifact(p)]
      PROVE  DependenciesClosed'
  <2>1. p \in Families /\ ~Published(p)
    BY DEF StackInv, Typing, TypeOK
  <2>2. /\ compiled'[p].deps = Dependencies(p)
        /\ \A f \in Families \ {p} : compiled'[f] = compiled[f]
    BY <1>2, <2>1 DEF NewArtifact, Typing, TypeOK
  <2>3. \A k \in Children(p) : k \in Families /\ Published(k)
    BY <1>2, <2>1 DEF Typing, ChildrenPublished, TypeOK, Frame, Children
  <2>4. \A f \in Families : Published(f) =>
          \A d \in compiled[f].deps :
            d.family \in Families \ {p} /\ Published(d.family)
    BY <2>1 DEF Typing, TypeOK, Artifact, Dependency, Published, CoherentGraph
  <2>5. /\ \A k \in Children(p) : compiled[k].deps \subseteq Dependencies(p)
        /\ \A d \in Dependencies(p) :
             \/ d.family = p
             \/ \E k \in Children(p) : d \in compiled[k].deps
    BY <2>3, <2>4 DEF Dependencies
  <2>6. \A d \in Dependencies(p) : compiled'[d.family].deps \subseteq Dependencies(p)
    <3> TAKE d \in Dependencies(p)
    <3>1. CASE d.family = p
      BY <2>2, <3>1
    <3>2. ASSUME NEW k \in Children(p), d \in compiled[k].deps
          PROVE  compiled'[d.family].deps \subseteq Dependencies(p)
      <4>1. compiled[d.family].deps \subseteq compiled[k].deps
        BY <2>3, <3>2 DEF DependenciesClosed
      <4>2. compiled'[d.family] = compiled[d.family]
        BY <2>2, <2>3, <2>4, <3>2
      <4>3. QED
        BY <2>5, <4>1, <4>2
    <3>3. QED
      BY <2>5, <3>1, <3>2
  <2>7. ASSUME NEW f \in Families \ {p}, Published(f)', NEW d \in compiled'[f].deps
        PROVE  compiled'[d.family].deps \subseteq compiled'[f].deps
    <3>1. Published(f) /\ compiled'[f] = compiled[f]
      BY <2>2, <2>7 DEF Published
    <3>2. compiled'[d.family] = compiled[d.family]
      BY <2>2, <2>4, <2>7, <3>1
    <3>3. QED
      BY <2>7, <3>1, <3>2 DEF DependenciesClosed
  <2>8. QED
    BY <2>2, <2>6, <2>7 DEF DependenciesClosed
<1>3. QED
  BY <1>1, <1>2, CompilingStep

\* The families that an artifact names as dependencies include all it embeds.
LEMMA EmbeddedRecorded ==
  ASSUME Typing, CoherentGraph, DependenciesClosed, NEW f \in Families, Published(f),
         NEW g \in Embedded(f)
  PROVE  \E d \in compiled[f].deps : d.family = g
<1> DEFINE S == {h \in Families : \E d \in compiled[f].deps : d.family = h}
<1>1. f \in S
  <2>1. [family |-> f, schema |-> compiled[f].own] \in compiled[f].deps
    BY DEF CoherentGraph
  <2>2. [family |-> f, schema |-> compiled[f].own].family = f
    OBVIOUS
  <2>3. QED
    BY <2>1, <2>2
<1>2. ASSUME NEW h \in S, Published(h), NEW k \in compiled[h].kids \cup compiled[h].found
      PROVE  k \in S
  <2>1. h \in Families /\ compiled[h] \in Artifact
    BY <1>2 DEF Typing, TypeOK, Published
  <2>2. k \in Families
    BY <1>2, <2>1 DEF Artifact
  <2>3. Published(k) /\ compiled[k].deps \subseteq compiled[h].deps
    BY <1>2, <2>1 DEF CoherentGraph
  <2>4. compiled[h].deps \subseteq compiled[f].deps
    BY DEF DependenciesClosed
  <2>5. [family |-> k, schema |-> compiled[k].own] \in compiled[f].deps
    BY <2>2, <2>3, <2>4 DEF CoherentGraph
  <2>6. [family |-> k, schema |-> compiled[k].own].family = k
    OBVIOUS
  <2>7. QED
    BY <2>2, <2>5, <2>6
<1>3. S \in SUBSET Families
  OBVIOUS
<1>4. QED
  BY <1>1, <1>2, <1>3 DEF Embedded

\* Only a call that checked the graph of an artifact ends by being served with it.
LEMMA ServedStep ==
  ASSUME Typing, StackInv, [Next]_vars, NEW t \in Threads,
         call[t].pc \in {"read", "enter"}, call'[t].result = "served"
  PROVE  /\ call[t].family \in Families
         /\ Published(call[t].family)
         /\ Unchanged(compiled[call[t].family])
<1> USE DEF Typing
<1>1. /\ call \in [Threads -> Call]
      /\ call[t].family \in Families
      /\ call[t].result = "none"
  <2>1. call[t] \in Call /\ call \in [Threads -> Call]
    BY DEF TypeOK
  <2>2. QED
    BY <2>1 DEF Call, Idle
<1>2. call'[t] # call[t]
  BY <1>1
<1> DEFINE Goal == Published(call[t].family) /\ Unchanged(compiled[call[t].family])
<1>3. ASSUME NEW u \in Threads, NEW f \in Families, Begin(u, f) \/ BeginCompile(u, f)
      PROVE  Goal
  BY <1>1, <1>2, <1>3 DEF Begin, BeginCompile
<1>4. ASSUME NEW u \in Threads, NEW m \in Models, BeginModelCall(u, m)
      PROVE  Goal
  BY <1>1, <1>2, <1>4 DEF BeginModelCall
<1>5. ASSUME NEW u \in Threads, NEW result \in {"done", "error"}, CanCall(u), Answer(u, result)
      PROVE  Goal
  BY <1>1, <1>2, <1>5 DEF CanCall, Answer, Return
<1>6. ASSUME NEW u \in Threads, NEW f \in Families, AsDefault(u, f)
      PROVE  Goal
  BY <1>5, <1>6 DEF AsDefault
<1>7. ASSUME NEW u \in Threads, NEW r \in Migrations,
             MigrationFactory(u, r[1], r[2]) \/ ApplyMigration(u, r[1], r[2])
      PROVE  Goal
  <2>1. \E result \in {"done", "error"} : CanCall(u) /\ Answer(u, result)
    BY <1>7 DEF MigrationFactory, ApplyMigration
  <2>2. QED
    BY <1>5, <2>1
<1>8. ASSUME NEW u \in Threads, Read(u)
      PROVE  Goal
  <2>1. u = t
    BY <1>1, <1>2, <1>8 DEF Read, Return
  <2>2. CASE compiled[call[t].family] = NoArtifact
    <3>1. call' = [call EXCEPT ![t].pc = "enter"]
      BY <1>8, <2>1, <2>2 DEF Read
    <3>2. call'[t].result = "none"
      BY <1>1, <3>1
    <3>3. QED
      BY <3>2
  <2>3. CASE compiled[call[t].family] # NoArtifact
    BY <1>1, <1>8, <2>1, <2>3 DEF Read, Return, Idle, Published
  <2>4. QED
    BY <2>2, <2>3
<1>9. ASSUME NEW u \in Threads, EnterAnswered(u)
      PROVE  Goal
  <2>1. u = t
    BY <1>1, <1>2, <1>9 DEF EnterAnswered, Return
  <2>2. QED
    BY <1>1, <1>9, <2>1 DEF EnterAnswered, Return, Idle
<1>10. ASSUME NEW u \in Threads, Enter(u)
       PROVE  Goal
  <2>1. call'[t].result = "none"
    BY <1>1, <1>10 DEF Enter
  <2>2. QED
    BY <2>1
<1>11. ASSUME UNCHANGED call
       PROVE  Goal
  BY <1>2, <1>11
<1>12. ASSUME Publish \/ Unwind
       PROVE  Goal
  <2>1. stack # <<>>
    BY <1>12, TopActive DEF Publish, Unwind, StackInv
  <2>2. holder \in Threads
    BY <2>1 DEF TypeOK, StackInv
  <2>3. call[holder].pc = "inside"
    BY <2>2 DEF StackInv
  <2>4. t # holder
    BY <2>3
  <2>5. QED
    BY <1>1, <1>2, <1>12, <2>2, <2>4 DEF Publish, Unwind, Leave, Return
<1>13. ASSUME NEW m \in Models, Rebuild(m)
       PROVE  UNCHANGED call
  BY <1>13 DEF Rebuild
<1>14. ASSUME NEW g \in Families, ProviderCompile(g)
       PROVE  UNCHANGED call
  BY <1>14 DEF ProviderCompile
<1>15. ASSUME NEW c \in Families, Touch(c)
       PROVE  UNCHANGED call
  BY <1>15 DEF Touch
<1>16. ASSUME ResolveRoute \/ Discover \/ Reject \/ RejectRebuilt \/ UNCHANGED vars
       PROVE  UNCHANGED call
  BY <1>16 DEF ResolveRoute, Discover, Reject, RejectRebuilt, vars
<1>17. Goal
  BY <1>3, <1>4, <1>6, <1>7, <1>8, <1>9, <1>10, <1>11, <1>12, <1>13, <1>14, <1>15,
     <1>16 DEF Next, CompileStep
<1>18. QED
  BY <1>1, <1>17

\* An operation is served by an artifact it finds only if the whole graph, at any
\* depth, is unchanged: recorded dependencies cover the graph, and name the schemas
\* that its families were compiled from (family.py:342-368, 433-453).
THEOREM ServedCorrectly == Spec => ServesUnchangedGraph
<1> DEFINE I == Typing /\ StackInv /\ CoherentGraph /\ DependenciesClosed
           Serves(t) ==
             call[t].pc \in {"read", "enter"} /\ call'[t].result = "served"
               => \A g \in Embedded(call[t].family) :
                    Published(g) /\ compiled[g].own = schema[ModelOf[g]]
<1>1. Init => I
  <2>1. Init => DependenciesClosed
    BY DEF Init, DependenciesClosed, Published
  <2>2. QED
    BY <2>1, TypingInit, StackInit, CoherentInit
<1>2. I /\ [Next]_vars => I'
  BY TypingStep, StackStep, CoherentStep, ClosedStep
<1>3. I /\ [Next]_vars => \A t \in Threads : Serves(t)
  <2> SUFFICES ASSUME I, [Next]_vars, NEW t \in Threads,
                      call[t].pc \in {"read", "enter"}, call'[t].result = "served",
                      NEW g \in Embedded(call[t].family)
               PROVE  Published(g) /\ compiled[g].own = schema[ModelOf[g]]
    OBVIOUS
  <2> DEFINE f == call[t].family
  <2>1. f \in Families /\ Published(f) /\ Unchanged(compiled[f])
    BY ServedStep
  <2>2. PICK d \in compiled[f].deps : d.family = g
    BY <2>1, EmbeddedRecorded
  <2>3. Published(g) /\ compiled[g].own = d.schema
    BY <2>1, <2>2 DEF CoherentGraph
  <2>4. schema[ModelOf[g]] = d.schema
    BY <2>1, <2>2 DEF Unchanged
  <2>5. QED
    BY <2>3, <2>4
<1>4. I /\ [Next]_vars => [\A t \in Threads : Serves(t)]_vars
  BY <1>3
<1>5. QED
  <2> HIDE DEF I
  <2>1. Spec => [][\A t \in Threads : Serves(t)]_vars
    BY <1>1, <1>2, <1>4, PTL DEF Spec
  <2>2. QED
    BY <2>1 DEF ServesUnchangedGraph

-----------------------------------------------------------------------------
(* Default families. *)

\* The families an artifact names as dependencies are families that it embeds.
DependenciesEmbedded ==
  \A f \in {g \in Families : Published(g)} :
    \A d \in compiled[f].deps : d.family \in Embedded(f)

\* A set of families that contains what its published members embed.
EmbeddingClosed(S) ==
  \A h \in S : Published(h) => compiled[h].kids \cup compiled[h].found \subseteq S

\* A new artifact takes over the dependencies of families that it embeds.
LEMMA EmbeddedStep ==
  Typing /\ StackInv /\ DependenciesEmbedded /\ [Next]_vars => DependenciesEmbedded'
<1> SUFFICES ASSUME Typing, StackInv, DependenciesEmbedded, [Next]_vars,
                    NEW f \in Families, Published(f)', NEW d \in compiled'[f].deps
             PROVE  (d.family \in Embedded(f))'
  BY DEF DependenciesEmbedded
<1>1. f \in Families /\ d.family \in Families
  <2>1. compiled'[f] \in Artifact
    BY TypingStep DEF Typing, TypeOK, Published
  <2>2. QED
    BY <2>1 DEF Artifact, Dependency
<1>2. ASSUME NEW S \in SUBSET Families, EmbeddingClosed(S)'
      PROVE  EmbeddingClosed(S)
  <2>1. \A h \in S : Published(h) => Published(h)' /\ compiled'[h] = compiled[h]
    BY PublishedStep DEF Published
  <2>2. QED
    BY <1>2, <2>1 DEF EmbeddingClosed
<1>3. ASSUME NEW h \in Families, Published(h), d \in compiled[h].deps,
             NEW S \in SUBSET Families, h \in S, EmbeddingClosed(S)'
      PROVE  d.family \in S
  <2>1. d.family \in Embedded(h)
    BY <1>3 DEF DependenciesEmbedded
  <2>2. EmbeddingClosed(S)
    BY <1>2, <1>3
  <2>3. QED
    BY <1>3, <2>1, <2>2 DEF Embedded, EmbeddingClosed
<1>4. SUFFICES ASSUME NEW S \in SUBSET Families, f \in S, EmbeddingClosed(S)'
               PROVE  d.family \in S
  BY <1>1 DEF Embedded, EmbeddingClosed
<1>5. CASE Published(f)
  <2>1. compiled'[f] = compiled[f]
    BY <1>5, PublishedStep
  <2>2. QED
    BY <1>3, <1>4, <1>5, <2>1
<1>6. CASE ~Published(f)
  <2>1. compiled' # compiled
    BY <1>6 DEF Published
  <2>2. PICK p \in compiling : /\ frame[p].touched = Children(p)
                               /\ compiled' = [compiled EXCEPT ![p] = NewArtifact(p)]
    BY <2>1, CompilingStep
  <2>3. p = f
    BY <1>6, <2>2 DEF Published, Typing, TypeOK
  <2>4. /\ compiled'[f].deps = Dependencies(f)
        /\ compiled'[f].kids \cup compiled'[f].found = Children(f)
    BY <2>2, <2>3 DEF NewArtifact, Children, Typing, TypeOK
  <2>5. \A k \in Children(f) : k \in Families /\ Published(k)
    BY <2>2, <2>3 DEF Typing, ChildrenPublished, TypeOK, Frame, Children
  <2>6. CASE d.family = f
    BY <1>4, <2>6
  <2>7. ASSUME NEW k \in Children(f), d \in compiled[k].deps
        PROVE  d.family \in S
    <3>1. k \in S
      BY <1>4, <2>4 DEF EmbeddingClosed
    <3>2. QED
      BY <1>3, <1>4, <2>5, <2>7, <3>1
  <2>8. d.family = f \/ \E k \in Children(f) : d \in compiled[k].deps
    BY <2>4 DEF Dependencies
  <2>9. QED
    BY <2>6, <2>7, <2>8
<1>7. QED
  BY <1>5, <1>6

\* A default family whose graph as_default() finds rebuilt has a compiled component,
\* in the graph its declarations select, that describes a schema that is gone.
LEMMA RebuiltIsInvalid ==
  ASSUME Typing, CoherentGraph, DependenciesEmbedded, NEW f \in Families,
         GraphWasRebuilt(f)
  PROVE  GraphInvalid(f)
<1>1. PICK g \in Examined(f) : Published(g) /\ ~Unchanged(compiled[g])
  BY DEF GraphWasRebuilt
<1>2. g \in Families
  BY DEF Examined
<1>3. PICK d \in compiled[g].deps : schema[ModelOf[d.family]] # d.schema
  BY <1>1 DEF Unchanged
<1>4. /\ d.family \in Embedded(g) /\ d.family \in Families
      /\ Published(d.family) /\ compiled[d.family].own = d.schema
  BY <1>1, <1>2 DEF DependenciesEmbedded, Embedded, CoherentGraph
<1>5. d.family \in GraphFrom(f)
  <2> DEFINE next(h) ==
        {Routes[h][i].family : i \in DOMAIN Routes[h]} \cup
        IF Published(h) THEN compiled[h].kids \cup compiled[h].found ELSE {}
  <2>1. ASSUME NEW S \in SUBSET Families, f \in S, \A h \in S : next(h) \subseteq S
        PROVE  d.family \in S
    <3>1. \A h \in S : /\ \A i \in DOMAIN Routes[h] : Routes[h][i].family \in S
                       /\ Published(h) =>
                            compiled[h].kids \cup compiled[h].found \subseteq S
      BY <2>1
    <3>2. g \in S
      BY <2>1, <3>1 DEF Examined
    <3>3. QED
      BY <1>4, <3>1, <3>2 DEF Embedded
  <2>2. QED
    BY <1>4, <2>1 DEF GraphFrom
<1>6. QED
  BY <1>3, <1>4, <1>5 DEF GraphInvalid

\* The default family of a model changes only in as_default().
LEMMA DefaultStep ==
  ASSUME Typing, [Next]_vars, NEW m \in Models, default[m] # NoFamily,
         default'[m] # default[m]
  PROVE  default[m] \in Families /\ GraphWasRebuilt(default[m])
<1>1. \/ UNCHANGED default
      \/ \E t \in Threads, f \in Families : AsDefault(t, f)
  BY DEF Next, CompileStep, vars, Begin, BeginCompile, BeginModelCall, Read,
         EnterAnswered, Enter, MigrationFactory, ApplyMigration, Rebuild, ProviderCompile,
         ResolveRoute, Discover, Touch, Reject, RejectRebuilt, Publish, Unwind
<1>2. PICK t \in Threads, f \in Families : AsDefault(t, f)
  BY <1>1
<1>3. default' \in {default, [default EXCEPT ![ModelOf[f]] = f]}
  BY <1>2 DEF AsDefault
<1>4. m = ModelOf[f] /\ default[m] # f
  BY <1>3 DEF Typing, TypeOK
<1>5. GraphWasRebuilt(default[m])
  BY <1>2, <1>4 DEF AsDefault
<1>6. QED
  BY <1>5 DEF Typing, TypeOK

\* as_default() never takes a selection away from a family whose compiled graph is
\* valid, however deep the graph is and however much of it is compiled
\* (family.py:370-389, docs/guide/external-families.md:149-152).
THEOREM DisplacedCorrectly == Spec => DefaultDisplacedOnlyWhenInvalid
<1> DEFINE I == Typing /\ StackInv /\ CoherentGraph /\ DependenciesEmbedded
           Displaces(m) ==
             default[m] # NoFamily /\ default'[m] # default[m] => GraphInvalid(default[m])
<1>1. Init => I
  <2>1. Init => DependenciesEmbedded
    BY DEF Init, DependenciesEmbedded, Published
  <2>2. QED
    BY <2>1, TypingInit, StackInit, CoherentInit
<1>2. I /\ [Next]_vars => I'
  BY TypingStep, StackStep, CoherentStep, EmbeddedStep
<1>3. I /\ [Next]_vars => [\A m \in Models : Displaces(m)]_vars
  BY DefaultStep, RebuiltIsInvalid
<1>4. QED
  <2> HIDE DEF I
  <2>1. Spec => [][\A m \in Models : Displaces(m)]_vars
    BY <1>1, <1>2, <1>3, PTL DEF Spec
  <2>2. QED
    BY <2>1 DEF DefaultDisplacedOnlyWhenInvalid

-----------------------------------------------------------------------------
(* Rebuilds that race compilations. *)

\* A compile() call goes on: it keeps the schema it captured, and what it has read
\* for its wire models is what it had read, or the current core schema as well.
ReadsOn(f) ==
  LET now == schema[ModelOf[f]] IN
  /\ frame'[f].own = frame[f].own
  /\ frame'[f].builtFrom \subseteq frame[f].builtFrom \cup {now}
  /\ frame'[f].builtFrom = {} =>
       frame[f].builtFrom = {} /\ frame'[f].phase = frame[f].phase

\* A compile() call begins.
BeginsFrom(f) ==
  /\ frame'[f].own = schema[ModelOf[f]]
  /\ frame'[f].phase = "boundary"
  /\ frame'[f].builtFrom = {}

\* A call that is left alone goes on.
LEMMA ReadsOnUnchanged ==
  ASSUME NEW f \in Families, frame'[f].own = frame[f].own,
         frame'[f].phase = frame[f].phase, frame'[f].builtFrom = frame[f].builtFrom
  PROVE  ReadsOn(f)
  BY DEF ReadsOn

\* Recording a resolved child reads no schema.
LEMMA AddKidReads ==
  ASSUME NEW fr \in [Families -> Frame], NEW p, NEW c \in Families, NEW f \in Families
  PROVE  LET new == AddKid(fr, p, c)[f]
         IN  /\ new.own = fr[f].own
             /\ new.phase = fr[f].phase
             /\ new.builtFrom = fr[f].builtFrom
<1>1. fr[f] \in Frame
  OBVIOUS
<1>2. QED
  BY <1>1 DEF AddKid, Frame

\* Using the wire model of a child reads the current core schema of its owner.
LEMMA TouchKidReads ==
  ASSUME NEW fr \in [Families -> Frame], NEW p, NEW c \in Families, NEW f \in Families,
         fr[f] = frame[f], frame'[f] = TouchKid(fr, p, c)[f]
  PROVE  ReadsOn(f)
<1>1. fr[f] \in Frame
  OBVIOUS
<1>2. CASE f = p
  BY <1>1, <1>2 DEF TouchKid, Frame, ReadsOn
<1>3. CASE f # p
  <2>1. frame'[f] = frame[f]
    BY <1>3 DEF TouchKid
  <2>2. QED
    BY <2>1, ReadsOnUnchanged
<1>4. QED
  BY <1>2, <1>3

\* What a returning call hands over reads at most the current core schema.
LEMMA ResumeReads ==
  ASSUME TypeOK, NEW p \in Families, NEW f \in Families \ {p}, frame' = Resume(p)
  PROVE  ReadsOn(f)
<1> DEFINE cleared == [frame EXCEPT ![p] = NoFrame]
<1>1. cleared \in [Families -> Frame] /\ cleared[f] = frame[f]
  BY NoFrameType DEF TypeOK
<1> HIDE DEF cleared
<1>2. Resume(p) \in {AddKid(cleared, Caller, p), TouchKid(cleared, Caller, p), cleared}
  BY DEF Resume, cleared
<1>3. CASE frame' = AddKid(cleared, Caller, p)
  BY <1>1, <1>3, AddKidReads, ReadsOnUnchanged
<1>4. CASE frame' = TouchKid(cleared, Caller, p)
  BY <1>1, <1>4, TouchKidReads
<1>5. CASE frame' = cleared
  BY <1>1, <1>5, ReadsOnUnchanged
<1>6. QED
  BY <1>2, <1>3, <1>4, <1>5

\* An answered critical section reads no schema for a wire model.
LEMMA AnswerReads ==
  ASSUME TypeOK, NEW t \in Threads, NEW result, Answer(t, result), NEW f \in Families
  PROVE  ReadsOn(f)
<1>1. frame' \in {frame, [frame EXCEPT ![Top].called = TRUE]}
  BY DEF Answer
<1>2. frame[f] \in Frame
  BY DEF TypeOK
<1>3. /\ frame'[f].own = frame[f].own
      /\ frame'[f].phase = frame[f].phase
      /\ frame'[f].builtFrom = frame[f].builtFrom
  <2>1. CASE frame' = frame
    BY <2>1
  <2>2. CASE frame' = [frame EXCEPT ![Top].called = TRUE]
    BY <1>2, <2>2 DEF TypeOK, Frame
  <2>3. QED
    BY <1>1, <2>1, <2>2
<1>4. QED
  BY <1>3, ReadsOnUnchanged

\* A compile() call captures the core schema that its model has when it begins.
LEMMA PushReads ==
  ASSUME TypeOK, NEW g \in Families, NEW via, g \notin compiling, Push(g, via),
         NEW f \in compiling'
  PROVE  \/ f \in compiling /\ ReadsOn(f)
         \/ f \notin compiling /\ BeginsFrom(f)
<1>1. CASE f = g
  BY <1>1 DEF Push, BeginsFrom, NoFrame, TypeOK
<1>2. CASE f # g
  <2>1. f \in compiling /\ frame'[f] = frame[f] /\ f \in Families
    BY <1>2 DEF Push, TypeOK
  <2>2. QED
    BY <2>1, ReadsOnUnchanged
<1>3. QED
  BY <1>1, <1>2

\* What every step does to the compile() calls that are in progress after it.
LEMMA ReadsStep ==
  ASSUME Typing, StackInv, [Next]_vars, NEW f \in compiling'
  PROVE  \/ f \in compiling /\ ReadsOn(f)
         \/ f \notin compiling /\ BeginsFrom(f)
<1> USE DEF Typing
<1> DEFINE Goal == \/ f \in compiling /\ ReadsOn(f)
                   \/ f \notin compiling /\ BeginsFrom(f)
<1>1. ASSUME UNCHANGED <<compiling, frame>>
      PROVE  Goal
  <2>1. f \in compiling /\ f \in Families
    BY <1>1 DEF TypeOK
  <2>2. QED
    BY <1>1, <2>1, ReadsOnUnchanged
<1>2. ASSUME NEW t \in Threads, NEW g \in Families, Begin(t, g) \/ BeginCompile(t, g)
      PROVE  UNCHANGED <<compiling, frame>>
  BY <1>2 DEF Begin, BeginCompile
<1>3. ASSUME \/ \E t \in Threads, m \in Models : BeginModelCall(t, m)
             \/ \E t \in Threads : Read(t) \/ EnterAnswered(t)
             \/ \E m \in Models : Rebuild(m)
             \/ Reject \/ RejectRebuilt \/ UNCHANGED vars
      PROVE  UNCHANGED <<compiling, frame>>
  BY <1>3 DEF BeginModelCall, Read, EnterAnswered, Rebuild, Reject, RejectRebuilt,
              Raise, vars
<1>4. ASSUME NEW t \in Threads, Enter(t)
      PROVE  Goal
  <2> DEFINE g == call[t].family
  <2>1. g \in Families
    <3>1. call[t] \in Call /\ call[t].pc = "enter"
      BY <1>4 DEF Enter, TypeOK
    <3>2. QED
      BY <3>1 DEF Call, Idle
  <2>2. Push(g, "root") /\ g \notin compiling
    BY <1>4 DEF Enter, MustCompile
  <2> HIDE DEF g
  <2>3. QED
    BY <2>1, <2>2, PushReads
<1>5. ASSUME NEW t \in Threads, NEW result, Answer(t, result), UNCHANGED compiling
      PROVE  Goal
  BY <1>5, AnswerReads DEF TypeOK
<1>6. ASSUME NEW t \in Threads, NEW g \in Families, AsDefault(t, g)
      PROVE  Goal
  BY <1>5, <1>6 DEF AsDefault
<1>7. ASSUME NEW t \in Threads, NEW r \in Migrations,
             MigrationFactory(t, r[1], r[2]) \/ ApplyMigration(t, r[1], r[2])
      PROVE  Goal
  BY <1>5, <1>7 DEF MigrationFactory, ApplyMigration
<1>8. ASSUME NEW g \in Families, ProviderCompile(g)
      PROVE  Goal
  <2> DEFINE called == [frame EXCEPT ![Top].called = TRUE]
             fresh == [NoFrame EXCEPT !.via = "provider", !.own = schema[ModelOf[g]],
                                      !.validated = transitions[g]]
  <2>1. called \in [Families -> {called[h] : h \in Families}]
    BY DEF TypeOK
  <2>2. \A h \in Families : /\ called[h].own = frame[h].own
                            /\ called[h].phase = frame[h].phase
                            /\ called[h].builtFrom = frame[h].builtFrom
    <3> TAKE h \in Families
    <3>1. frame[h] \in Frame
      BY DEF TypeOK
    <3>2. QED
      BY <3>1 DEF TypeOK, Frame
  <2>3. /\ fresh.own = schema[ModelOf[g]]
        /\ fresh.phase = "boundary" /\ fresh.builtFrom = {}
    BY DEF NoFrame
  <2>4. \/ UNCHANGED compiling /\ frame' = called
        \/ /\ g \notin compiling /\ compiling' = compiling \cup {g}
           /\ frame' = [called EXCEPT ![g] = fresh]
    BY <1>8 DEF ProviderCompile
  <2> HIDE DEF called, fresh
  <2>5. f \in compiling \/ f = g
    BY <2>4
  <2>6. CASE f \in compiling
    <3>1. f \in Families /\ frame'[f] = called[f]
      BY <2>1, <2>4, <2>6 DEF TypeOK
    <3>2. QED
      BY <2>2, <2>6, <3>1, ReadsOnUnchanged
  <2>7. CASE f \notin compiling
    <3>1. f = g /\ frame'[g] = fresh
      BY <2>1, <2>4, <2>7
    <3>2. QED
      BY <2>3, <2>7, <3>1 DEF BeginsFrom
  <2>8. QED
    BY <2>6, <2>7
<1>9. ASSUME ResolveRoute
      PROVE  Goal
  <2> DEFINE p == Top
             c == Route1(p).family
  <2>1. p \in Families /\ c \in Families
    BY <1>9, TopActive, RouteType DEF ResolveRoute
  <2>2. \/ Raise
        \/ UNCHANGED compiling /\ frame' = AddKid(frame, p, c)
        \/ Push(c, "route") /\ c \notin compiling
    BY <1>9 DEF ResolveRoute, ChildRaises
  <2> HIDE DEF p, c
  <2>3. CASE Raise
    BY <1>1, <2>3 DEF Raise
  <2>4. CASE UNCHANGED compiling /\ frame' = AddKid(frame, p, c)
    <3>1. frame \in [Families -> Frame] /\ f \in compiling /\ f \in Families
      BY <2>4 DEF TypeOK
    <3>2. QED
      BY <2>1, <2>4, <3>1, AddKidReads, ReadsOnUnchanged
  <2>5. CASE Push(c, "route") /\ c \notin compiling
    BY <2>1, <2>5, PushReads
  <2>6. QED
    BY <2>2, <2>3, <2>4, <2>5
<1>10. ASSUME Discover
       PROVE  Goal
  <2>1. f \in compiling /\ f \in Families /\ frame[f] \in Frame
    BY <1>10 DEF Discover, TypeOK
  <2>2. CASE f = Top
    BY <1>10, <2>1, <2>2 DEF Discover, ReadsOn, TypeOK, Frame
  <2>3. CASE f # Top
    <3>1. frame'[f] = frame[f]
      BY <1>10, <2>1, <2>3 DEF Discover, TypeOK
    <3>2. QED
      BY <2>1, <3>1, ReadsOnUnchanged
  <2>4. QED
    BY <2>2, <2>3
<1>11. ASSUME NEW c \in Families, Touch(c)
       PROVE  Goal
  <2>1. \/ Raise
        \/ UNCHANGED compiling /\ frame' = TouchKid(frame, Top, c)
        \/ Push(c, "build") /\ c \notin compiling
    BY <1>11 DEF Touch, ChildRaises
  <2>2. CASE Raise
    BY <1>1, <2>2 DEF Raise
  <2>3. CASE UNCHANGED compiling /\ frame' = TouchKid(frame, Top, c)
    <3>1. frame \in [Families -> Frame] /\ f \in compiling /\ f \in Families
      BY <2>3 DEF TypeOK
    <3>2. QED
      BY <2>3, <3>1, TouchKidReads
  <2>4. CASE Push(c, "build") /\ c \notin compiling
    BY <2>4, PushReads
  <2>5. QED
    BY <2>1, <2>2, <2>3, <2>4
<1>12. ASSUME Publish
       PROVE  Goal
  <2>1. Top \in Families
    BY <1>12, TopActive DEF Publish
  <2>2. f \in compiling /\ f \in Families \ {Top} /\ frame' = Resume(Top)
    BY <1>12 DEF Publish, Finally, TypeOK
  <2>3. QED
    BY <2>1, <2>2, ResumeReads
<1>13. ASSUME Unwind
       PROVE  Goal
  <2>1. f \in compiling /\ f \in Families /\ frame'[f] = frame[f]
    BY <1>13 DEF Unwind, Finally, TypeOK
  <2>2. QED
    BY <2>1, ReadsOnUnchanged
<1>14. QED
  BY <1>1, <1>2, <1>3, <1>4, <1>6, <1>7, <1>8, <1>9, <1>10, <1>11, <1>12, <1>13
     DEF Next, CompileStep

\* Identities of core schemas are not used again, and do not change when an artifact
\* is published.
LEMMA SchemaStep ==
  ASSUME Typing, [Next]_vars
  PROVE  /\ \A m \in Models : /\ schema[m] \in Nat /\ schema'[m] \in Nat
                              /\ schema[m] <= schema'[m]
         /\ \/ UNCHANGED compiled
            \/ Publish
<1> USE DEF Typing
<1>1. \A m \in Models : schema[m] \in Nat
  BY ConstantsAssumption DEF TypeOK, Schemas
<1>2. ASSUME NEW m \in Models, Rebuild(m)
      PROVE  /\ schema' = [schema EXCEPT ![m] = @ + 1]
             /\ UNCHANGED compiled
  BY <1>2 DEF Rebuild
<1>3. ASSUME Publish
      PROVE  UNCHANGED schema
  BY <1>3 DEF Publish
<1>4. \/ UNCHANGED <<schema, compiled>>
      \/ Publish
      \/ \E m \in Models : Rebuild(m)
  BY DEF Next, CompileStep, vars, Begin, BeginCompile, AsDefault, BeginModelCall, Read,
         EnterAnswered, Enter, MigrationFactory, ApplyMigration, ProviderCompile,
         ResolveRoute, Discover, Touch, Reject, RejectRebuilt, Unwind
<1>5. CASE UNCHANGED <<schema, compiled>>
  BY <1>1, <1>5
<1>6. CASE Publish
  BY <1>1, <1>3, <1>6
<1>7. ASSUME NEW k \in Models, Rebuild(k)
      PROVE  /\ \A m \in Models : schema'[m] \in Nat /\ schema[m] <= schema'[m]
             /\ UNCHANGED compiled
  <2>1. schema' = [schema EXCEPT ![k] = schema[k] + 1] /\ UNCHANGED compiled
    BY <1>2, <1>7
  <2>2. \A m \in Models : schema'[m] \in {schema[m], schema[m] + 1}
    BY <2>1 DEF TypeOK
  <2>3. QED
    BY <1>1, <2>1, <2>2
<1>8. QED
  BY <1>1, <1>4, <1>5, <1>6, <1>7

\* What a compilation has read lies between the schema that it captured and the one
\* its model has now, so that nothing else lies there if these two are the same.
ReadBetween ==
  \A f \in compiling :
    /\ frame[f].own <= schema[ModelOf[f]]
    /\ \A x \in frame[f].builtFrom : frame[f].own <= x /\ x <= schema[ModelOf[f]]
    /\ frame[f].phase = "build" => frame[f].builtFrom # {}

\* Compilations read current schemas, and schemas only get younger.
LEMMA ReadBetweenStep ==
  Typing /\ StackInv /\ ReadBetween /\ [Next]_vars => ReadBetween'
<1> SUFFICES ASSUME Typing, StackInv, ReadBetween, [Next]_vars, NEW f \in compiling'
             PROVE  /\ frame'[f].own <= schema'[ModelOf[f]]
                    /\ \A x \in frame'[f].builtFrom :
                         frame'[f].own <= x /\ x <= schema'[ModelOf[f]]
                    /\ frame'[f].phase = "build" => frame'[f].builtFrom # {}
  BY DEF ReadBetween
<1>1. f \in Families
  BY TypingStep DEF Typing, TypeOK
<1>2. /\ schema[ModelOf[f]] \in Nat /\ schema'[ModelOf[f]] \in Nat
      /\ schema[ModelOf[f]] <= schema'[ModelOf[f]]
  BY <1>1, SchemaStep, ConstantsAssumption
<1>3. frame[f].own \in Nat /\ frame[f].builtFrom \subseteq Nat
  BY <1>1, ConstantsAssumption DEF Typing, TypeOK, Frame, Schemas
<1>4. CASE f \in compiling /\ ReadsOn(f)
  BY <1>2, <1>3, <1>4 DEF ReadBetween, ReadsOn
<1>5. CASE f \notin compiling /\ BeginsFrom(f)
  BY <1>2, <1>5 DEF BeginsFrom
<1>6. QED
  BY <1>4, <1>5, ReadsStep

\* A compilation publishes only if the schema that it captured is still the model's.
LEMMA UnmixedStep ==
  Typing /\ StackInv /\ ReadBetween /\ UnmixedArtifact /\ [Next]_vars => UnmixedArtifact'
<1> SUFFICES ASSUME Typing, StackInv, ReadBetween, UnmixedArtifact, [Next]_vars,
                    NEW f \in Families, Published(f)'
             PROVE  compiled'[f].builtFrom = {compiled'[f].own}
  BY DEF UnmixedArtifact
<1>1. CASE UNCHANGED compiled
  BY <1>1 DEF UnmixedArtifact, Published
<1>2. CASE Publish
  <2> DEFINE p == Top
  <2>1. p \in Families /\ p \in compiling
    <3>1. p \in Families /\ stack # <<>>
      BY <1>2, TopActive DEF Publish, Typing
    <3>2. QED
      BY <3>1, TopOfStack, LenProperties DEF StackInv, Elements, Top, Typing, TypeOK
  <2>2. /\ compiled' = [compiled EXCEPT ![p] = NewArtifact(p)]
        /\ frame[p].own = schema[ModelOf[p]]
        /\ frame[p].phase = "build"
    BY <1>2 DEF Publish, OwnerUnchanged, Active
  <2> HIDE DEF p
  <2>3. CASE f = p
    <3>1. compiled'[f].own = frame[p].own /\ compiled'[f].builtFrom = frame[p].builtFrom
      BY <2>1, <2>2, <2>3 DEF NewArtifact, Typing, TypeOK
    <3>2. frame[p].own \in Nat /\ frame[p].builtFrom \subseteq Nat
      BY <2>1, ConstantsAssumption DEF Typing, TypeOK, Frame, Schemas
    <3>3. frame[p].builtFrom # {} /\ \A x \in frame[p].builtFrom : x = frame[p].own
      BY <2>1, <2>2, <3>2 DEF ReadBetween
    <3>4. QED
      BY <3>1, <3>3
  <2>4. CASE f # p
    <3>1. compiled'[f] = compiled[f]
      BY <2>1, <2>2, <2>4 DEF Typing, TypeOK
    <3>2. QED
      BY <3>1 DEF UnmixedArtifact, Published
  <2>5. QED
    BY <2>3, <2>4
<1>3. QED
  BY <1>1, <1>2, SchemaStep

\* Whenever and however often the model of a family is rebuilt while it compiles, its
\* wire models, validators and plans describe one core schema (family.py:149, 210-216).
THEOREM UnmixedCorrect == Spec => []UnmixedArtifact
<1>1. Init => Typing /\ StackInv /\ ReadBetween /\ UnmixedArtifact
  <2>1. Init => ReadBetween /\ UnmixedArtifact
    BY DEF Init, ReadBetween, UnmixedArtifact, Published
  <2>2. QED
    BY <2>1, TypingInit, StackInit
<1>2. Typing /\ StackInv /\ ReadBetween /\ UnmixedArtifact /\ [Next]_vars
        => Typing' /\ StackInv' /\ ReadBetween' /\ UnmixedArtifact'
  BY TypingStep, StackStep, ReadBetweenStep, UnmixedStep
<1>3. QED
  BY <1>1, <1>2, PTL DEF Spec

-----------------------------------------------------------------------------
(* Rebuilds that do not race family operations. *)

\* Without racing rebuilds, the schema that a compilation captured stays its model's,
\* and so do the schemas recorded by the children it has built against.
FreshFrames ==
  \A f \in compiling :
    /\ frame[f].own = schema[ModelOf[f]]
    /\ \A k \in frame[f].touched : Unchanged(compiled[k])

\* A family is built against once its graph is found unchanged, or when it is published.
LEMMA TouchedStep ==
  ASSUME Typing, StackInv, [Next]_vars, NEW f \in compiling',
         NEW k \in frame'[f].touched
  PROVE  \/ f \in compiling /\ k \in frame[f].touched
         \/ k \in Families /\ Published(k) /\ Unchanged(compiled[k])
         \/ Publish /\ k = Top
<1> USE DEF Typing
<1> DEFINE Goal == \/ f \in compiling /\ k \in frame[f].touched
                   \/ k \in Families /\ Published(k) /\ Unchanged(compiled[k])
<1>0. frame \in [Families -> Frame] /\ compiling \subseteq Families
  BY DEF TypeOK
<1>1. ASSUME UNCHANGED <<compiling, frame>>
      PROVE  Goal
  BY <1>1
<1>2. ASSUME NEW t \in Threads, NEW g \in Families, Begin(t, g) \/ BeginCompile(t, g)
      PROVE  UNCHANGED <<compiling, frame>>
  BY <1>2 DEF Begin, BeginCompile
<1>3. ASSUME \/ \E t \in Threads, m \in Models : BeginModelCall(t, m)
             \/ \E t \in Threads : Read(t) \/ EnterAnswered(t)
             \/ \E m \in Models : Rebuild(m)
             \/ Reject \/ RejectRebuilt \/ UNCHANGED vars
      PROVE  UNCHANGED <<compiling, frame>>
  BY <1>3 DEF BeginModelCall, Read, EnterAnswered, Rebuild, Reject, RejectRebuilt,
              Raise, vars
<1>4. ASSUME NEW g, NEW via, Push(g, via)
      PROVE  Goal
  <2>1. CASE f = g
    <3>1. f \in Families
      BY TypingStep DEF TypeOK
    <3>2. frame'[f].touched = {}
      BY <1>4, <1>0, <2>1, <3>1 DEF Push, NoFrame
    <3>3. QED
      BY <3>2
  <2>2. CASE f # g
    BY <1>0, <1>4, <2>2 DEF Push
  <2>3. QED
    BY <2>1, <2>2
<1>5. ASSUME NEW t \in Threads, CanCall(t), NEW result \in {"done", "error"},
             Answer(t, result), UNCHANGED compiling
      PROVE  Goal
  BY <1>0, <1>5, AnswerType
<1>6. ASSUME NEW t \in Threads, NEW g \in Families, AsDefault(t, g)
      PROVE  Goal
  BY <1>5, <1>6 DEF AsDefault
<1>7. ASSUME NEW t \in Threads, NEW r \in Migrations,
             MigrationFactory(t, r[1], r[2]) \/ ApplyMigration(t, r[1], r[2])
      PROVE  Goal
  <2>1. PICK result \in {"done", "error"} :
          CanCall(t) /\ Answer(t, result) /\ UNCHANGED compiling
    BY <1>7 DEF MigrationFactory, ApplyMigration
  <2>2. QED
    BY <1>5, <2>1
<1>8. ASSUME NEW g \in Families, ProviderCompile(g)
      PROVE  Goal
  <2> DEFINE called == [frame EXCEPT ![Top].called = TRUE]
             fresh == [NoFrame EXCEPT !.via = "provider", !.own = schema[ModelOf[g]],
                                      !.validated = transitions[g]]
  <2>1. called \in [Families -> {called[h] : h \in Families}]
    BY <1>0
  <2>2. \A h \in Families : called[h].touched = frame[h].touched
    BY <1>0 DEF Frame
  <2>3. fresh.touched = {}
    BY DEF NoFrame
  <2>4. \/ UNCHANGED compiling /\ frame' = called
        \/ /\ compiling' = compiling \cup {g}
           /\ frame' = [called EXCEPT ![g] = fresh]
    BY <1>8 DEF ProviderCompile
  <2> HIDE DEF called, fresh
  <2>5. QED
    BY <1>0, <2>1, <2>2, <2>3, <2>4
<1>9. ASSUME ResolveRoute
      PROVE  Goal
  <2> DEFINE p == Top
             c == Route1(p).family
  <2>1. p \in Families /\ c \in Families
    BY <1>9, TopActive, RouteType DEF ResolveRoute
  <2>2. \/ Raise
        \/ UNCHANGED compiling /\ frame' = AddKid(frame, p, c)
        \/ Push(c, "route")
    BY <1>9 DEF ResolveRoute
  <2> HIDE DEF p, c
  <2>3. CASE UNCHANGED compiling /\ frame' = AddKid(frame, p, c)
    BY <1>0, <2>1, <2>3, AddKidChildren
  <2>4. QED
    BY <1>1, <1>4, <2>2, <2>3 DEF Raise
<1>10. ASSUME Discover
       PROVE  Goal
  <2>1. frame'[f].touched = frame[f].touched
    BY <1>0, <1>10 DEF Discover, Frame
  <2>2. QED
    BY <1>10, <2>1 DEF Discover
<1>11. ASSUME NEW c \in Families, Touch(c)
       PROVE  Goal
  <2>1. \/ Raise
        \/ /\ Published(c) /\ Unchanged(compiled[c])
           /\ UNCHANGED compiling /\ frame' = TouchKid(frame, Top, c)
        \/ Push(c, "build")
    BY <1>11 DEF Touch, ChildRaises
  <2>2. ASSUME Published(c), Unchanged(compiled[c]), UNCHANGED compiling,
               frame' = TouchKid(frame, Top, c)
        PROVE  Goal
    <3>1. f \in compiling /\ k \in frame[f].touched \cup {c}
      BY <1>0, <2>2, TouchKidChildren
    <3>2. QED
      BY <2>2, <3>1
  <2>3. QED
    BY <1>1, <1>4, <2>1, <2>2 DEF Raise
<1>12. ASSUME Publish
       PROVE  (f \in compiling /\ k \in frame[f].touched) \/ k = Top
  <2>1. Top \in Families
    BY <1>12, TopActive DEF Publish
  <2>2. f \in compiling /\ f \in Families /\ frame' = Resume(Top)
    BY <1>0, <1>12 DEF Publish, Finally
  <2>3. QED
    BY <2>1, <2>2, ResumeChildren
<1>13. ASSUME Unwind
       PROVE  Goal
  BY <1>0, <1>13 DEF Unwind, Finally
<1>14. ASSUME NEW t \in Threads, Enter(t)
       PROVE  Goal
  BY <1>4, <1>14 DEF Enter
<1>15. QED
  BY <1>1, <1>2, <1>3, <1>6, <1>7, <1>8, <1>9, <1>10, <1>11, <1>12, <1>13, <1>14
     DEF Next, CompileStep

\* What is published while no model can be rebuilt names current schemas only.
LEMMA PublishedFresh ==
  ASSUME Typing, StackInv, FreshFrames, Publish
  PROVE  /\ Top \in Families /\ Top \in compiling
         /\ compiled' = [compiled EXCEPT ![Top] = NewArtifact(Top)]
         /\ compiled'[Top] = NewArtifact(Top)
         /\ Unchanged(NewArtifact(Top))
<1> DEFINE p == Top
<1>1. p \in Families /\ p \in compiling
  <2>1. p \in Families /\ stack # <<>>
    BY TopActive DEF Publish, Typing
  <2>2. QED
    BY <2>1, TopOfStack, LenProperties DEF StackInv, Elements, Top, Typing, TypeOK
<1>2. /\ compiled' = [compiled EXCEPT ![p] = NewArtifact(p)]
      /\ frame[p].touched = Children(p)
  BY DEF Publish
<1> HIDE DEF p
<1>3. compiled'[p] = NewArtifact(p) /\ NewArtifact(p).deps = Dependencies(p)
  BY <1>1, <1>2 DEF NewArtifact, Typing, TypeOK
<1>4. \A d \in Dependencies(p) :
        \/ d = [family |-> p, schema |-> frame[p].own]
        \/ \E k \in frame[p].touched : d \in compiled[k].deps
  BY <1>2 DEF Dependencies
<1>5. \A d \in Dependencies(p) : schema[ModelOf[d.family]] = d.schema
  BY <1>1, <1>4 DEF FreshFrames, Unchanged
<1>6. QED
  BY <1>1, <1>2, <1>3, <1>5 DEF Unchanged, p

\* No schema changes while a family compiles, if rebuilds do not race.
LEMMA FreshStep ==
  ASSUME ~RacingRebuilds, Typing, StackInv, FreshFrames, [Next]_vars
  PROVE  FreshFrames'
<1> SUFFICES ASSUME NEW f \in compiling'
             PROVE  /\ frame'[f].own = schema'[ModelOf[f]]
                    /\ \A k \in frame'[f].touched : Unchanged(compiled[k])'
  BY DEF FreshFrames
<1>1. UNCHANGED schema
  <2>1. ASSUME NEW m \in Models, Rebuild(m)
        PROVE  FALSE
    <3>1. stack = <<>> /\ f \in compiling
      BY <2>1 DEF Rebuild, StackInv
    <3>2. compiling = {}
      BY <3>1, EmptySeq, LenProperties DEF StackInv, Elements
    <3>3. QED
      BY <3>1, <3>2
  <2>2. \/ UNCHANGED schema
        \/ \E m \in Models : Rebuild(m)
    BY DEF Next, CompileStep, vars, Begin, BeginCompile, AsDefault, BeginModelCall, Read,
           EnterAnswered, Enter, MigrationFactory, ApplyMigration, ProviderCompile,
           ResolveRoute, Discover, Touch, Reject, RejectRebuilt, Publish, Unwind
  <2>3. QED
    BY <2>1, <2>2
<1>2. frame'[f].own = schema'[ModelOf[f]]
  BY <1>1, ReadsStep DEF FreshFrames, ReadsOn, BeginsFrom
<1>3. ASSUME NEW k \in Families, Published(k), Unchanged(compiled[k])
      PROVE  Unchanged(compiled[k])'
  <2>1. compiled'[k] = compiled[k]
    BY <1>3, PublishedStep
  <2>2. QED
    BY <1>1, <1>3, <2>1 DEF Unchanged
<1>4. ASSUME NEW k \in frame'[f].touched
      PROVE  Unchanged(compiled[k])'
  <2>1. CASE f \in compiling /\ k \in frame[f].touched
    <3>1. k \in Families /\ Published(k) /\ Unchanged(compiled[k])
      BY <2>1 DEF Typing, TypeOK, ChildrenPublished, FreshFrames, Frame
    <3>2. QED
      BY <1>3, <3>1
  <2>2. CASE k \in Families /\ Published(k) /\ Unchanged(compiled[k])
    BY <1>3, <2>2
  <2>3. CASE Publish /\ k = Top
    <3>1. compiled'[k] = NewArtifact(k) /\ Unchanged(NewArtifact(k))
      BY <2>3, PublishedFresh
    <3>2. QED
      BY <1>1, <3>1 DEF Unchanged
  <2>4. QED
    BY <1>4, <2>1, <2>2, <2>3, TouchedStep
<1>5. QED
  BY <1>2, <1>4

\* If models are not rebuilt while families are used, an artifact describes the current
\* schemas of its whole graph when it is published, so that the operation that compiled
\* it may be served without a check (family.py:210-236).
THEOREM FreshWithoutRaces ==
  ASSUME ~RacingRebuilds
  PROVE  Spec => FreshPublication
<1> DEFINE I == Typing /\ StackInv /\ FreshFrames
           PublishesFresh(f) ==
             ~Published(f) /\ compiled'[f] # NoArtifact
               => \A d \in compiled'[f].deps : schema[ModelOf[d.family]] = d.schema
<1>1. Init => I
  <2>1. Init => FreshFrames
    BY DEF Init, FreshFrames
  <2>2. QED
    BY <2>1, TypingInit, StackInit
<1>2. I /\ [Next]_vars => I'
  BY TypingStep, StackStep, FreshStep
<1>3. I /\ [Next]_vars => [\A f \in Families : PublishesFresh(f)]_vars
  <2> SUFFICES ASSUME I, [Next]_vars, NEW f \in Families, ~Published(f),
                      compiled'[f] # NoArtifact
               PROVE  \A d \in compiled'[f].deps : schema[ModelOf[d.family]] = d.schema
    OBVIOUS
  <2>1. Publish
    BY SchemaStep DEF Published
  <2>2. f = Top
    BY <2>1, PublishedFresh DEF Published, Typing, TypeOK
  <2>3. QED
    BY <2>1, <2>2, PublishedFresh DEF Unchanged
<1>4. QED
  <2> HIDE DEF I
  <2>1. Spec => [][\A f \in Families : PublishesFresh(f)]_vars
    BY <1>1, <1>2, <1>3, PTL DEF Spec
  <2>2. QED
    BY <2>1 DEF FreshPublication
=============================================================================
