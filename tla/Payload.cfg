\* What a callback may see of a model, and its way through conversion and validation.
SPECIFICATION ConversionSpec
CONSTANTS
  Families = {"references", "members", "structures", "wrapped lists"}
  Size = 24
  Forms <- MCForms
  Alike <- SameData
  Mro <- MCMro
  Shape <- MCShape
  Fields <- MCFields
  Declares <- MCDeclares
  Optional <- MCOptional
  Omitted <- MCOmitted
  Sources <- MCSources
  Root = 14
  RootClass = "Doc"
  StackLimit = 25
  Paths <- MCPaths
  Family = "Node"
  Forgotten = 7
  MaxSteps = 2
INVARIANTS
  TypeOK
  CyclesRefused
  Detached
  DeclaredOnly
  ConvertsWhatItChecks
  NoMemberLost
