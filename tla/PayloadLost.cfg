\* A set of wrappers of values, whose conversion makes them equal.
SPECIFICATION ConversionSpec
CONSTANTS
  Families = {"wrapped sets"}
  Size = 24
  Forms <- MCForms
  Alike <- SameData
  Mro <- MCMro
  Shape <- MCShape
  Fields <- MCFields
  Declares <- MCDeclares
  Optional <- MCOptional
  Omitted <- MCOmitted
  Sources <- MCSources
  Root = 14
  RootClass = "Doc"
  StackLimit = 25
  Paths <- MCPaths
  Family = "Node"
  Forgotten = 7
  MaxSteps = 2
INVARIANT
  NoMemberLost
