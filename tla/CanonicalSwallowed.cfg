\* A wrap function around a union around a guarded set.
SPECIFICATION Spec
CONSTANTS
  Schemas <- MCSwallowing
  AdaptationOf <- AdaptedSchema
  Inner <- InnerNodes
  Inputs = {"stored", "set"}
  MaxCalls = 7
INVARIANTS
  SetsKept
