\* Decorator discovery and recursion; rebuilds wait until no operation runs.
SPECIFICATION FairSpec
CONSTANTS
  t1 = t1
  t2 = t2
  NoFamily = NoFamily
  NoThread = NoThread
  NoArtifact = NoArtifact
  Threads <- OneThread
  Models <- DiscoveryModels
  Families <- DiscoveryFamilies
  Edges = {"1->2"}
  ModelOf <- DiscoveryModelOf
  Routes <- DiscoveryRoutes
  Fields <- DiscoveryFields
  Decorated = {"q", "a"}
  Adjacent <- FirstEdge
  Migrations <- NoMigrations
  RacingRebuilds = FALSE
  MaxRebuilds = 1
PROPERTIES
  DefaultDisplacedOnlyWhenInvalid
  FreshPublication
  LockReleased
