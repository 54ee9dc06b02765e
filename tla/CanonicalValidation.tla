-------------------------- MODULE CanonicalValidation --------------------------
(***************************************************************************)
(* The validation of one canonical value by an adapted core schema         *)
(* (_runtime_validation.py:106-153, 467-642, 837-906).  Every node and     *)
(* every layer around it is a call; the layers share three stacks of       *)
(* frames, which are context variables in the code.  What Pydantic does    *)
(* with a node, and what functions of the application do, is taken to be   *)
(* anything that they may do.                                              *)
(*                                                                         *)
(* The value is "stored", the stored value of an enum member, or "set", a  *)
(* set of the two carriers "m1" and "m2".  It may become "alike", another  *)
(* value of another type; "same", what both members become when validation *)
(* makes them equal; "smaller", a set of fewer members than before; "app", *)
(* a value that a function of the application supplied.  Objects are       *)
(* identical when they are equal here.                                     *)
(***************************************************************************)
EXTENDS CoreSchemas

CONSTANTS
  Schemas,             \* core schemas
  AdaptationOf(_, _),  \* AdaptationOf(s, guard): schema s as it is adapted, with or without guards of sets
  Inner(_, _),         \* Inner(a, n): the nodes of adapted schema a that node n leads to
  Inputs,              \* values: "stored", "set"
  MaxCalls             \* bound: calls beyond which the data ends, and a reference fits nothing

VARIABLES
  adapted,     \* the adapted schema
  input,       \* the value that is validated
  calls,       \* the calls of layers and nodes, the innermost last
  control,     \* what is to be done: a call, or a value or an error that is returned
  unions,      \* _CANONICAL_UNION_FRAMES
  choices,     \* _CANONICAL_CHOICE_FRAMES
  apps,        \* _CANONICAL_APPLICATION_FRAMES
  recognised,  \* was the stored value the value of exactly one enum member? (ghost)
  outcome      \* "running", "delivered", "migration_error", "invalid", "raised" or "unsupported"

frames == <<unions, choices, apps>>
vars == <<adapted, input, calls, control, frames, recognised, outcome>>

Todo(node, layer, v) == [task |-> "call", node |-> node, layer |-> layer, value |-> v]
\* `app`: did a function of the application take part?  `lost`: did the set lose a member on
\* the way, other than in a choice that was not taken?  Neither is kept by the code.
Value(v, app, lost) == [task |-> "value", value |-> v, app |-> app, lost |-> lost]
\* A "validation" error, one of the library's "invariant" errors, or another exception.
Error(kind, lost) == [task |-> "error", kind |-> kind, lost |-> lost]
Nothing == [task |-> "nothing"]

Core == "core"
LayerAt(n, i) == IF i > Len(n.layers) THEN Core ELSE n.layers[i]
Members(v) == IF v = "set" THEN <<"m1", "m2">> ELSE <<"m1">>
Carriers == {"set", "smaller", "m1", "m2"}

-----------------------------------------------------------------------------
(* What is known of an adapted schema. *)

Shielding == {"reject", "unwrap"}
Layers == {"retry", "guard", "mapping", "union", "choice", "record"} \cup Shielding
NodesOf(a) == {a.root} \cup Inner(a, a.root)

\* Nodes lead to those that they hold or refer to, and to all that these lead to.
Closed(a) ==
  \A n \in NodesOf(a) :
    /\ Inner(a, n) \subseteq NodesOf(a)
    /\ n.kids \in Seq(Inner(a, n))
    /\ n.type = "ref" => a.definitions[n.name] \in Inner(a, n)
    /\ \A m \in Inner(a, n) : Inner(a, m) \subseteq Inner(a, n)
    /\ n.type \in {"wrap", "after", "before", "union", "set"} => n.kids # <<>>
    /\ n.layers \in Seq(Layers)

Has(n, layers) == \E i \in DOMAIN n.layers : n.layers[i] \in layers
Innermost(n, layer) == n.layers # <<>> /\ n.layers[Len(n.layers)] = layer
HasInside(a, n, layers) == \E m \in Inner(a, n) : Has(m, layers)
WatchesChoices(n) == \A i \in DOMAIN n.kids : n.kids[i].layers # <<>> /\ n.kids[i].layers[1] = "choice"

\* Repairs, the frames of unions, and records of applications are the innermost layers.
Placed(a) ==
  \A n \in NodesOf(a) : \A i \in DOMAIN n.layers :
    /\ n.layers[i] = "retry" => i = Len(n.layers) /\ n.type = "enum"
    /\ n.layers[i] = "union" => i = Len(n.layers) /\ n.type = "union"
    /\ n.layers[i] = "record" => i = Len(n.layers) /\ n.type \in Applications

\* May what this node makes of a set be smaller, with no shield to keep sets away?
Shrinking(n) == n.type = "set" \/ (n.type \in {"plain", "wrap"} /\ ~Has(n, Shielding))

\* Where sets are guarded, every set is; "any" is shielded; a union with a guard inside is
\* watched, and a function around one is recorded.
Guards(a) ==
  \A n \in NodesOf(a) :
    /\ n.type = "set" => Innermost(n, "guard")
    /\ n.type = "any" => Has(n, Shielding)
    /\ n.type = "union" /\ HasInside(a, n, {"guard"}) => WatchesChoices(n)
    /\ n.type = "wrap" /\ HasInside(a, n, {"guard"}) => Innermost(n, "record")

ASSUME InputsAssumption == Inputs \subseteq {"stored", "set"} /\ MaxCalls \in Nat
ASSUME AdaptationAssumption ==
  \A s \in Schemas : \A guard \in BOOLEAN :
    ~AdaptationOf(s, guard).refused =>
      /\ Closed(AdaptationOf(s, guard)) /\ Placed(AdaptationOf(s, guard))
      /\ guard => Guards(AdaptationOf(s, guard))

\* Schemas in which no lost member is overlooked: no wrap function encloses a union of
\* guarded sets, and one before what may shrink is guarded, or shielded.
NothingSwallowed(a) ==
  \A n \in NodesOf(a) : n.type = "wrap" =>
    \A u \in Inner(a, n) : Has(u, {"choice"}) => ~Has(u, {"guard"}) /\ ~HasInside(a, u, {"guard"})
BeforeGuarded(a) ==
  \A n \in NodesOf(a) : n.type = "before" /\ (\E m \in Inner(a, n) : Shrinking(m)) =>
    \/ Has(n, Shielding)
    \/ \E i \in DOMAIN n.layers : n.layers[i] = "guard" /\ \A j \in DOMAIN n.layers : j > i => n.layers[j] = "record"
SetsWatched ==
  \A s \in Schemas : ~AdaptationOf(s, TRUE).refused =>
    NothingSwallowed(AdaptationOf(s, TRUE)) /\ BeforeGuarded(AdaptationOf(s, TRUE))

\* Schemas in which repairs and applications are told apart by unions: one with a repair
\* inside has a frame, and one with a frame, or in a choice, watches recorded applications.
RepairsFramed(a) ==
  \A n \in NodesOf(a) : n.type = "union" /\ HasInside(a, n, {"retry", "union"}) => Has(n, {"union"})
RecordsWatched(a) ==
  \A n \in NodesOf(a) : n.type = "union" /\ HasInside(a, n, {"record"}) =>
    \/ WatchesChoices(n)
    \/ ~Has(n, {"union", "choice"}) /\ \A m \in NodesOf(a) : Has(m, {"choice"}) => n \notin Inner(a, m)
EnumsWatched ==
  \A s \in Schemas : ~AdaptationOf(s, FALSE).refused =>
    RepairsFramed(AdaptationOf(s, FALSE)) /\ RecordsWatched(AdaptationOf(s, FALSE))

-----------------------------------------------------------------------------
(* The state. *)

\* Types; the frames are those of the calls that are running, also when an error leaves them.
CallsOf(layer) == Cardinality({i \in DOMAIN calls : LayerAt(calls[i].node, calls[i].layer) = layer})
TypeOK ==
  /\ outcome \in {"running", "delivered", "migration_error", "invalid", "raised", "unsupported"}
  /\ control.task \in {"call", "value", "error", "nothing"}
  /\ Len(unions) = CallsOf("union")
  /\ Len(choices) = CallsOf("choice")
  /\ Len(apps) = CallsOf("record")
  /\ outcome # "running" => calls = <<>>

Init ==
  \E schema \in Schemas :
    /\ input \in Inputs
    /\ adapted = AdaptationOf(schema, input = "set")
    /\ calls = <<>> /\ unions = <<>> /\ choices = <<>> /\ apps = <<>>
    /\ recognised = FALSE
    /\ outcome = IF adapted.refused THEN "unsupported" ELSE "running"
    /\ control = IF adapted.refused THEN Nothing ELSE Todo(adapted.root, 1, input)

-----------------------------------------------------------------------------
(* Calls. *)

node == control.node
Layer == LayerAt(node, control.layer)
Calling(layer) == outcome = "running" /\ control.task = "call" /\ Layer = layer
CallingNode(types) == Calling(Core) /\ node.type \in types

\* A call; a union keeps what its choices gave, and in `kind` and `lost` how they failed.
Call(at) ==
  [node |-> node, layer |-> control.layer, value |-> control.value, at |-> at, done |-> <<>>,
   kind |-> "validation", lost |-> FALSE]
Wrapped == Todo(node, control.layer + 1, control.value)
Child(c, i, v) == Todo(c.node.kids[i], 1, v)
NewUnionFrame == [suppressed |-> FALSE, results |-> {}]
NewChoiceFrame == [ran |-> FALSE, violation |-> FALSE]

\* The layers that call what they wrap, and those that push a frame first.
CallLayer ==
  /\ \E layer \in {"retry", "guard", "mapping", "union", "choice", "record"} :
       /\ Calling(layer)
       /\ unions' = IF layer = "union" THEN Append(unions, NewUnionFrame) ELSE unions
       /\ choices' = IF layer = "choice" THEN Append(choices, NewChoiceFrame) ELSE choices
       /\ apps' = IF layer = "record" THEN Append(apps, FALSE) ELSE apps
  /\ calls' = Append(calls, Call(0))
  /\ control' = Wrapped
  /\ UNCHANGED <<adapted, input, recognised, outcome>>

\* _reject_hash_required_canonical_carrier and _unwrap_non_hash_canonical_value: a set of
\* plain mappings cannot be made.
Shield ==
  /\ Calling("reject") \/ Calling("unwrap")
  /\ control' = IF control.value \in Carriers THEN Error("invariant", FALSE) ELSE Wrapped
  /\ UNCHANGED <<adapted, input, calls, frames, recognised, outcome>>

\* What validation by a single node gives.
Fails == Error("validation", FALSE)
Gives(v) == Value(v, FALSE, FALSE)
Results(type, v) ==
  CASE type = "any" -> {Gives(v)}
    [] v = "app" -> {Gives(v), Fails}
    [] type \in {"enum", "scalar"} /\ v = "stored" -> {Gives(v), Gives("alike"), Fails}
    [] type = "item" /\ v \in {"m1", "m2"} -> {Gives(v), Gives("same"), Fails}
    [] OTHER -> {Fails}

CallNode ==
  /\ CallingNode({"any", "enum", "scalar", "item"} \cup (IF control.value \in {"set", "smaller"} THEN {} ELSE {"set"}))
  /\ control' \in Results(node.type, control.value)
  /\ UNCHANGED <<adapted, input, calls, frames, recognised, outcome>>

\* A model has the value in one of its fields; a tagged union selects one choice.
CallThrough ==
  /\ CallingNode(Models \cup {"nullable", "tagged"})
  /\ \E i \in DOMAIN node.kids : control' = Todo(node.kids[i], 1, control.value)
  /\ UNCHANGED <<adapted, input, calls, frames, recognised, outcome>>

CallReference ==
  /\ CallingNode({"ref"})
  /\ control' = IF Len(calls) < MaxCalls THEN Todo(adapted.definitions[node.name], 1, control.value) ELSE Fails
  /\ UNCHANGED <<adapted, input, calls, frames, recognised, outcome>>

\* A union, and a set with its members.
CallParts ==
  /\ \/ CallingNode({"union"}) /\ control' = Todo(node.kids[1], 1, control.value)
     \/ CallingNode({"set"}) /\ control.value \in {"set", "smaller"} /\ control' = Todo(node.kids[1], 1, "m1")
  /\ calls' = Append(calls, Call(1))
  /\ UNCHANGED <<adapted, input, frames, recognised, outcome>>

\* What a function of the application may make of a value, and what it may raise.
Supplies(v) == {v, "app"} \cup (IF v = "set" THEN {"smaller"} ELSE {})
Exceptions == {Error("validation", FALSE), Error("other", FALSE)}

CallApplication ==
  /\ CallingNode(Applications)
  /\ \/ /\ node.type = "after" \/ node.type = "wrap"
        /\ control' = Todo(node.kids[1], 1, control.value)
        /\ calls' = Append(calls, Call(0))
     \/ /\ node.type = "before"
        /\ \E v \in Supplies(control.value) : control' = Todo(node.kids[1], 1, v)
        /\ calls' = Append(calls, Call(0))
     \/ /\ node.type \in {"plain", "wrap"}
        /\ \E v \in Supplies(control.value) : control' = Value(v, TRUE, FALSE)
        /\ UNCHANGED calls
     \/ /\ node.type # "after"
        /\ control' \in Exceptions
        /\ UNCHANGED calls
  /\ UNCHANGED <<adapted, input, frames, recognised, outcome>>

-----------------------------------------------------------------------------
(* Returns. *)

Top == Last(calls)
Returning == outcome = "running" /\ control.task \in {"value", "error"} /\ calls # <<>>
Leaving(layer) == Returning /\ LayerAt(Top.node, Top.layer) = layer
LeavingNode(types) == Leaving(Core) /\ Top.node.type \in types
IsError == control.task = "error"
Unchanged(v) == ~IsError /\ control.value = v

\* Mutant of Suppressed: the enclosing unions are not told.
SuppressedInnermost(frame) ==
  [i \in DOMAIN frame |-> [frame[i] EXCEPT !.suppressed = @ \/ i = Len(frame)]]

\* _suppress_enum_repair_inside_union.
Suppressed(frame) == [i \in DOMAIN frame |-> [frame[i] EXCEPT !.suppressed = TRUE]]

\* _retry_enum_value: a stored value that validation changes or rejects is the value of one
\* member, which is what is validated outside unions.
LeaveRetry ==
  /\ Leaving("retry")
  /\ calls' = Front(calls)
  /\ IF Top.value # "stored" \/ Unchanged(Top.value) \/ (IsError /\ control.kind = "other")
     THEN UNCHANGED <<control, unions, recognised>>
     ELSE /\ recognised' = TRUE
          /\ unions' = Suppressed(unions)
          /\ control' = IF unions = <<>> THEN Gives("stored") ELSE control
  /\ UNCHANGED <<adapted, input, choices, apps, outcome>>

\* Mutant of Marked: a violation is not remembered.
MarkedNot(stack) == stack

\* _guard_collection_cardinality: the innermost choice, or else all applications, remember a
\* violation.
Marked(stack) == [stack EXCEPT ![Len(stack)].violation = TRUE]
Differs(before, after) ==
  IF before # "set" THEN {FALSE} ELSE IF after = "app" THEN BOOLEAN ELSE {after = "smaller"}
LeaveGuard ==
  /\ Leaving("guard")
  /\ calls' = Front(calls)
  /\ \E differs \in IF IsError THEN {FALSE} ELSE Differs(Top.value, control.value) :
       /\ control' = IF differs THEN Error("invariant", control.lost) ELSE control
       /\ choices' = IF differs /\ choices # <<>> THEN Marked(choices) ELSE choices
       /\ apps' = IF differs /\ choices = <<>> THEN [i \in DOMAIN apps |-> TRUE] ELSE apps
  /\ UNCHANGED <<adapted, input, unions, recognised, outcome>>

\* Mutant of Popped: an error leaves the frame where it is.
PoppedOnSuccess(stack) == IF IsError THEN stack ELSE Front(stack)

Popped(stack) == Front(stack)
Ran(stack) == IF stack = <<>> THEN stack ELSE [stack EXCEPT ![Len(stack)].ran = TRUE]

\* _record_union_application_result.
LeaveRecord ==
  /\ Leaving("record")
  /\ calls' = Front(calls)
  /\ apps' = Popped(apps)
  /\ control' = IF ~IsError /\ Last(apps) THEN Error("invariant", control.lost) ELSE control
  /\ choices' = IF ~IsError /\ ~Last(apps) THEN Ran(choices) ELSE choices
  /\ UNCHANGED <<adapted, input, unions, recognised, outcome>>

\* _validate_canonical_union_choice.
LeaveChoice ==
  /\ Leaving("choice")
  /\ calls' = Front(calls)
  /\ choices' = Popped(choices)
  /\ control' = IF ~IsError /\ Last(choices).violation THEN Error("invariant", control.lost) ELSE control
  /\ unions' = IF IsError \/ Last(choices).violation \/ unions = <<>> THEN unions
               ELSE [unions EXCEPT ![Len(unions)].results = @ \cup {<<control.value, Last(choices).ran>>}]
  /\ UNCHANGED <<adapted, input, apps, recognised, outcome>>

\* _validate_canonical_union.
Selected(frame) ==
  LET matching == {r \in frame.results : r[1] = control.value}
  IN  matching # {} /\ \A r \in matching : r[2]
LeaveUnion ==
  /\ Leaving("union")
  /\ calls' = Front(calls)
  /\ unions' = Popped(unions)
  /\ choices' = IF ~IsError /\ Selected(Last(unions)) THEN Ran(choices) ELSE choices
  /\ control' =
       IF ~IsError /\ Last(unions).suppressed /\ ~Selected(Last(unions)) /\ control.value # Top.value
       THEN Error("invariant", control.lost) ELSE control
  /\ UNCHANGED <<adapted, input, apps, recognised, outcome>>

LeaveMapping ==
  /\ Leaving("mapping")
  /\ calls' = Front(calls)
  /\ UNCHANGED <<adapted, input, control, frames, recognised, outcome>>

\* An error of the library among the errors of a union is found.
Worse(kind, other) == IF "invariant" \in {kind, other} THEN "invariant" ELSE other

\* The choices of a union are tried in order; one of those that succeed is taken, the first
\* or, in smart mode, a later one.
Taken == IF IsError THEN Top.done ELSE Append(Top.done, control)
ChoiceCall ==
  [Top EXCEPT !.at = @ + 1, !.done = Taken, !.lost = @ \/ (IsError /\ control.lost),
              !.kind = IF IsError THEN Worse(@, control.kind) ELSE @]
NextChoice ==
  /\ LeavingNode({"union"}) /\ ~(IsError /\ control.kind = "other")
  /\ Top.at < Len(Top.node.kids)
  /\ control' = Child(Top, Top.at + 1, Top.value)
  /\ calls' = [calls EXCEPT ![Len(calls)] = ChoiceCall]
  /\ UNCHANGED <<adapted, input, frames, recognised, outcome>>
EndUnion ==
  /\ LeavingNode({"union"})
  /\ calls' = Front(calls)
  /\ \/ IsError /\ control.kind = "other" /\ UNCHANGED control
     \/ Taken # <<>> /\ (~IsError \/ Top.at = Len(Top.node.kids)) /\ control' \in ToSet(Taken)
     \/ /\ Taken = <<>> /\ IsError /\ control.kind # "other" /\ Top.at = Len(Top.node.kids)
        /\ control' = Error(Worse(Top.kind, control.kind), Top.lost \/ control.lost)
  /\ UNCHANGED <<adapted, input, frames, recognised, outcome>>

\* The members of a set, of which equal ones become one.
Distinct == Cardinality({Taken[i].value : i \in DOMAIN Taken}) = Len(Taken)
MemberCall == [Top EXCEPT !.at = @ + 1, !.done = Taken]
NextMember ==
  /\ LeavingNode({"set"}) /\ ~IsError
  /\ Top.at < Len(Members(Top.value))
  /\ control' = Child(Top, 1, Members(Top.value)[Top.at + 1])
  /\ calls' = [calls EXCEPT ![Len(calls)] = MemberCall]
  /\ UNCHANGED <<adapted, input, frames, recognised, outcome>>
EndSet ==
  /\ LeavingNode({"set"})
  /\ calls' = Front(calls)
  /\ \/ IsError /\ UNCHANGED control
     \/ /\ ~IsError /\ Top.at = Len(Members(Top.value))
        /\ control' = Value(IF Distinct THEN Top.value ELSE "smaller",
                            \E i \in DOMAIN Taken : Taken[i].app,
                            ~Distinct \/ \E i \in DOMAIN Taken : Taken[i].lost)
  /\ UNCHANGED <<adapted, input, frames, recognised, outcome>>

\* A function of the application may replace what it gets from inside, and one around a
\* schema may catch what that raises.
LeaveApplication ==
  /\ LeavingNode(Applications)
  /\ calls' = Front(calls)
  /\ \/ /\ ~IsError
        /\ control' = Value(control.value, TRUE, control.lost \/ (Top.value = "set" /\ control.value = "smaller" /\ Top.node.type = "before"))
     \/ ~IsError /\ Top.node.type # "before" /\ control' \in {Value("app", TRUE, control.lost)} \cup Exceptions
     \/ IsError /\ UNCHANGED control
     \/ /\ IsError /\ Top.node.type = "wrap"
        /\ control' \in {Value("app", TRUE, control.lost), Error("validation", control.lost)}
  /\ UNCHANGED <<adapted, input, frames, recognised, outcome>>

\* _validate_canonical_model returns, or translates an invariant error.
End ==
  /\ outcome = "running" /\ control.task \in {"value", "error"} /\ calls = <<>>
  /\ outcome' = IF ~IsError THEN "delivered"
                ELSE CASE control.kind = "invariant" -> "migration_error"
                       [] control.kind = "validation" -> "invalid"
                       [] OTHER -> "raised"
  /\ UNCHANGED <<adapted, input, calls, control, frames, recognised>>

Ended == outcome # "running" /\ UNCHANGED vars

Next ==
  \/ CallLayer \/ Shield \/ CallNode \/ CallThrough \/ CallReference \/ CallParts \/ CallApplication
  \/ LeaveRetry \/ LeaveGuard \/ LeaveRecord \/ LeaveChoice \/ LeaveUnion \/ LeaveMapping
  \/ NextChoice \/ EndUnion \/ NextMember \/ EndSet \/ LeaveApplication \/ End \/ Ended
Spec == Init /\ [][Next]_vars

-----------------------------------------------------------------------------
(* Properties. *)

\* A stored enum value that validation recognised keeps its type, wherever unions prefer
\* another choice, unless a function of the application took part in what was selected
\* (_runtime_validation.py:467-500, 617-642).
EnumKept ==
  outcome = "delivered" /\ input = "stored" /\ recognised => control.value = "stored" \/ control.app

\* No set is delivered that lost a member, whatever functions of the application catch
\* (_runtime_validation.py:583-614, 837-870).
SetsKept == outcome = "delivered" => ~control.lost
================================================================================
