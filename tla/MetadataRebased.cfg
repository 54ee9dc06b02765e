\* A generated source model, and an embedded model that keeps its version.
SPECIFICATION Spec
CONSTANTS
  t1 = t1
  t2 = t2
  d1 = d1
  d2 = d2
  m1 = m1
  Threads = {t1}
  Docs = {d1}
  Size = 3
  ChildSize = 2
  ChildMap <- KeepsThenAdvances
  Declarations <- ModelOwnedChild
  Discovered = FALSE
  Explicit = {}
  MissingVersion = 0
  Mappings = {m1}
  MappingOf <- MCMappingOf
SYMMETRY ThreadSymmetry
INVARIANTS
  ChildRebasedAtEachEdge
