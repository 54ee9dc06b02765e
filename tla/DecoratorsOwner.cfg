\* The list in an owner is of two families, and a callback of the owner reorders it.
SPECIFICATION Spec
CONSTANTS
  Families <- SomeFamilies
  Root = "root"
  Owner <- SiteOwners
  Arms <- TwoFamilyParts
  Kind <- SiteKinds
  Size = 3
  Callbacks <- SomeEdges
  Documents <- TwoFamilyDocument
  MaxItems = 2
  MaxEdits = 0
  Depth = 2
  OwnerEdits = {"swap"}
INVARIANTS
  RightlyBound
