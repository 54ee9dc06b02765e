\* Decorated families; two documents share the wrapper of their labels.
SPECIFICATION Spec
CONSTANTS
  t1 = t1
  t2 = t2
  d1 = d1
  d2 = d2
  m1 = m1
  Threads = {t1, t2}
  Docs = {d1, d2}
  Size = 2
  ChildSize = 2
  ChildMap <- SameLabels
  Declarations <- WrappedOwner
  Discovered = TRUE
  Explicit = {}
  MissingVersion = 1
  Mappings = {m1}
  MappingOf <- MCMappingOf
SYMMETRY ThreadSymmetry
INVARIANTS
  RemovedPrivately
