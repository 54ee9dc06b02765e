\* A union of enums with a choice that is a union of functions of the application.
SPECIFICATION Spec
CONSTANTS
  Schemas <- MCMisattributing
  AdaptationOf <- AdaptedSchema
  Inner <- InnerNodes
  Inputs = {"stored", "set"}
  MaxCalls = 7
INVARIANTS
  EnumKept
