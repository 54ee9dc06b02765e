--------------------------- MODULE PlannedConversion ---------------------------
(***************************************************************************)
(* What a conversion promises to the reader of its plan: the steps of the  *)
(* plan are performed one after the other, each once and in the plan's     *)
(* order, until one of them fails; a plan with an unavailable step is      *)
(* refused before anything runs.                                           *)
(*                                                                         *)
(* A step shows in the labels of the values it moves: a step of the family *)
(* itself moves its value, a step of an embedded family the values at its  *)
(* place, when there are any.  Nothing else moves a label, so a step that  *)
(* is left out, done twice or done at another time is not a behaviour of   *)
(* this module.  Nothing is said of how an embedded value is converted,    *)
(* nor of what is embedded in it.                                          *)
(***************************************************************************)
EXTENDS Naturals, Sequences

CONSTANTS
  Requests,        \* what may be asked for
  StepsOf(_),      \* the plan of a request, each step with a site, from and to
  Refused(_),      \* does the plan of a request have an unavailable step?
  Origin(_),       \* the label that a request's payload has at the beginning
  Family,          \* the site of the converted value itself
  Embedded,        \* the sites of the families embedded in it
  Selected(_, _)   \* Selected(k, a): the label at k that label a of the family selects

VARIABLES
  request, outcome,
  done,      \* how many steps of the plan have been performed
  labels     \* the label of the value at each site, 0 when there is none

vars == <<request, outcome, done, labels>>

Nothing == [op |-> "none", label |-> 0]
NoLabels == [s \in {Family} \cup Embedded |-> 0]

\* Every embedded value follows the label that label a of the family selects.
Follow(values, a) == \A k \in Embedded : values[k] \in {0, Selected(k, a)}

\* A value of label a, with embedded values that follow it.
Consistent(a) ==
  {values \in [{Family} \cup Embedded -> {0, a} \cup {Selected(k, a) : k \in Embedded}] :
     values[Family] = a /\ Follow(values, a)}

Init ==
  /\ request = Nothing
  /\ outcome = "idle"
  /\ done = 0
  /\ labels = NoLabels

Begin(r) ==
  /\ outcome # "running"
  /\ request' = r
  /\ done' = 0
  /\ IF Refused(r) THEN outcome' = "irreversible" /\ labels' = NoLabels
                   ELSE outcome' = "running" /\ labels' \in Consistent(Origin(r))

\* The next step of the plan is one of the site s.
Performs(s) ==
  /\ outcome = "running"
  /\ done < Len(StepsOf(request))
  /\ StepsOf(request)[done + 1].site = s
  /\ done' = done + 1
  /\ UNCHANGED <<request, outcome>>

\* A step of an embedded family moves the values at its place, and those alone.
Convert(k) ==
  /\ Performs(k)
  /\ LET step == StepsOf(request)[done + 1]
     IN /\ labels[k] \in {0, step.from}
        /\ labels' = [labels EXCEPT ![k] = IF labels[k] = 0 THEN 0 ELSE step.to]

\* A step of the family itself starts from the label that the one before it reached,
\* with embedded values that already follow its target.  It may drop embedded values
\* and supply others.
Transition ==
  /\ Performs(Family)
  /\ LET step == StepsOf(request)[done + 1]
     IN /\ labels[Family] = step.from
        /\ Follow(labels, step.to)
        /\ labels' \in Consistent(step.to)

Fail ==
  /\ outcome = "running"
  /\ outcome' = "invalid"
  /\ done' = 0
  /\ labels' = NoLabels
  /\ UNCHANGED request

Complete ==
  /\ outcome = "running"
  /\ done = Len(StepsOf(request))
  /\ outcome' = "done"
  /\ done' = 0
  /\ UNCHANGED <<request, labels>>

Next ==
  \/ \E r \in Requests : Begin(r)
  \/ \E k \in Embedded : Convert(k)
  \/ Transition
  \/ Fail
  \/ Complete

Spec == Init /\ [][Next]_vars
=============================================================================
