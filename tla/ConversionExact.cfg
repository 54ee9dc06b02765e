\* An embedded field is lost by a plan that is exact.
SPECIFICATION Spec
CONSTANTS
  Root = "p"
  Sites <- MCSites
  Size <- CrossingSize
  Kids <- MCKids
  LabelMap <- CrossingMap
  Upgrades <- CrossingUpgrades
  Downgrades <- CrossingDowngrades
  Removes <- CrossingRemoves
  Explicit = {}
  Semantics <- ComputedSemantics
INVARIANTS
  ExactMeansLossless
