\* Two threads use, compile and extend a diamond of families while models are rebuilt.
SPECIFICATION Spec
CONSTANTS
  t1 = t1
  t2 = t2
  NoFamily = NoFamily
  NoThread = NoThread
  NoArtifact = NoArtifact
  Threads <- TwoThreads
  Models <- DiamondModels
  Families <- DiamondFamilies
  Edges <- TwoEdges
  ModelOf <- DiamondModelOf
  Routes <- DiamondRoutes
  Fields <- NoFields
  Decorated = {}
  Adjacent <- FirstEdge
  Migrations <- DiamondMigrations
  RacingRebuilds = TRUE
  MaxRebuilds = 1
SYMMETRY ThreadSymmetry
INVARIANTS
  CompilationStack
  MigrationsFrozen
  CoherentGraph
  UnmixedArtifact
PROPERTIES
  PublishedOnce
  ServesUnchangedGraph
  ImplementsAtomicFamilies
