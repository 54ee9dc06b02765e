--------------------------- MODULE AdaptedValidation ---------------------------
(* Canonical validation by the schemas that adaptation makes. *)
EXTENDS CanonicalValidation, SchemaAdaptation

RECURSIVE LedTo(_, _)

\* The nodes that a node leads to.
Below1(a, n) == IF n.type = "ref" THEN {a.definitions[n.name]} ELSE ToSet(n.kids)
LedTo(a, S) ==
  LET more == S \cup UNION {Below1(a, n) : n \in S}
  IN  IF more = S THEN S ELSE LedTo(a, more)
InnerNodes(a, n) == LedTo(a, Below1(a, n))

\* Exactly the models from which an adapted node is reached, through any references, are
\* rebuilt (_runtime_render.py:130-167).
RebuiltIfReached ==
  /\ RebuiltIn(adapted.definitions, adapted.root)
  /\ \A d \in DOMAIN adapted.definitions : RebuiltIn(adapted.definitions, adapted.definitions[d])
================================================================================
