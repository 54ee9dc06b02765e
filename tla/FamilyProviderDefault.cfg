\* The child of the selected default is declared through a provider.
SPECIFICATION Spec
CONSTANTS
  t1 = t1
  t2 = t2
  NoFamily = NoFamily
  NoThread = NoThread
  NoArtifact = NoArtifact
  Threads <- OneThread
  Models <- DefaultModels
  Families <- DefaultFamilies
  Edges <- TwoEdges
  ModelOf <- DefaultModelOf
  Routes <- ProviderRoutes
  Fields <- NoFields
  Decorated = {}
  Adjacent <- FirstEdge
  Migrations <- DefaultMigrations
  RacingRebuilds = FALSE
  MaxRebuilds = 1
PROPERTIES
  InvalidDefaultIsReplaceable
