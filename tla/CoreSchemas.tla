------------------------------ MODULE CoreSchemas ------------------------------
(***************************************************************************)
(* Core schemas: a schema is a tree of nodes and, by name, the trees of    *)
(* its definitions.  A node holds the layers that adaptation puts around   *)
(* it, the outermost first, and whether it is a rebuilt model.             *)
(***************************************************************************)
EXTENDS Integers, Sequences, FiniteSets, SequencesExt

Node(type, kids) == [type |-> type, kids |-> kids, name |-> "", layers |-> <<>>, rebuilt |-> FALSE]
Ref(name) == [Node("ref", <<>>) EXCEPT !.name = name]

\* A model with a custom __init__, and one with a custom __new__.
Models == {"model", "init_model", "new_model"}
\* Functions of the application around, after, before and in place of a schema.
Applications == {"wrap", "after", "before", "plain"}
================================================================================
