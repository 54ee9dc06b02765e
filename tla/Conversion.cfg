\* Every conversion of a family two of whose embedded families go back where it advances.
SPECIFICATION Spec
CONSTANTS
  Root = "p"
  Sites <- MCSites
  Size <- WindingSize
  Kids <- MCKids
  LabelMap <- WindingMap
  Upgrades <- WindingUpgrades
  Downgrades <- WindingDowngrades
  Removes <- WindingRemoves
  Explicit = {1, 2, 3, 4}
  Semantics <- ComputedSemantics
INVARIANTS
  NoUnavailableDowngrade
  ExactMeansLossless
  ChildrenFirst
  Delivered
PROPERTIES
  ImplementsPlan
