---------------------------- MODULE AtomicFamilies ----------------------------
(***************************************************************************)
(* What the library promises of a set of schema families, without threads, *)
(* lock or recursion: each family is compiled in one atomic step, at most  *)
(* once, from the migrations it has at that moment, which no later call    *)
(* can extend ("Families compile lazily and atomically", docs; "Concurrent *)
(* calls to compile() produce one immutable cache", architecture).         *)
(***************************************************************************)
EXTENDS Naturals, Sequences

CONSTANTS Models, Families, Edges, ModelOf, Migrations, MaxRebuilds, NoFamily,
          Unpublished

VARIABLES
  schema,       \* schema[m]: identity of the model's current core schema
  published,    \* published[f]: Unpublished, or what f was compiled from
  transitions,  \* transitions[f]: the migrations registered for f, in order
  default       \* default[m]: the family that model-only calls use

avars == <<schema, published, transitions, default>>

Init ==
  /\ schema = [m \in Models |-> 0]
  /\ published = [f \in Families |-> Unpublished]
  /\ transitions = [f \in Families |-> <<>>]
  /\ default = [m \in Models |-> NoFamily]

Compile(f) ==
  /\ published[f] = Unpublished
  /\ published' = [published EXCEPT ![f] =
       [own |-> schema[ModelOf[f]], transitions |-> transitions[f]]]
  /\ UNCHANGED <<schema, transitions, default>>

Register(f, e) ==
  /\ published[f] = Unpublished
  /\ \A i \in DOMAIN transitions[f] : transitions[f][i] # e
  /\ transitions' = [transitions EXCEPT ![f] = Append(@, e)]
  /\ UNCHANGED <<schema, published, default>>

Stale(f) == published[f] # Unpublished /\ published[f].own # schema[ModelOf[f]]

Select(f) ==
  /\ default[ModelOf[f]] = NoFamily \/ \E g \in Families : Stale(g)
  /\ default' = [default EXCEPT ![ModelOf[f]] = f]
  /\ UNCHANGED <<schema, published, transitions>>

Rebuild(m) ==
  /\ schema[m] < MaxRebuilds
  /\ schema' = [schema EXCEPT ![m] = @ + 1]
  /\ UNCHANGED <<published, transitions, default>>

Next ==
  \/ \E f \in Families : Compile(f) \/ Select(f)
  \/ \E r \in Migrations : Register(r[1], r[2])
  \/ \E m \in Models : Rebuild(m)

Spec == Init /\ [][Next]_avars
=============================================================================
