\* Labels owned in two ways. A declared embedded family keeps its version on one edge;
\* source model 1 is explicit.
SPECIFICATION Spec
CONSTANTS
  t1 = t1
  t2 = t2
  d1 = d1
  d2 = d2
  m1 = m1
  Threads = {t1, t2}
  Docs = {d1}
  Size = 3
  ChildSize = 2
  ChildMap <- KeepsThenAdvances
  Declarations <- VariousOwners
  Discovered = FALSE
  Explicit = {1}
  MissingVersion = 1
  Mappings = {m1}
  MappingOf <- MCMappingOf
SYMMETRY ThreadSymmetry
INVARIANTS
  RenderedAsRequested
  NoFamilyMetadataInCallbacks
PROPERTIES
  ReadAsWritten
