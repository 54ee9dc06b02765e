\* A list of owners and leaves, a mapping of leaves, and a list in every owner.
SPECIFICATION Spec
CONSTANTS
  Families <- SomeFamilies
  Root = "root"
  Owner <- SiteOwners
  Arms <- OneFamilyParts
  Kind <- SiteKinds
  Size = 3
  Callbacks <- SomeEdges
  Documents <- SomeDocuments
  MaxItems = 2
  MaxEdits = 2
  Depth = 2
  OwnerEdits = {"drop", "swap"}
INVARIANTS
  TypeOK
  RightlyBound
  NoneOverlooked
  ReordersAccepted
  Delivered
PROPERTIES
  KeptApart
