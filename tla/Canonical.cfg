\* Canonical values through adapted schemas: no wrap function encloses a union of guarded sets.
SPECIFICATION Spec
CONSTANTS
  Schemas <- MCSchemas
  AdaptationOf <- AdaptedSchema
  Inner <- InnerNodes
  Inputs = {"stored", "set"}
  MaxCalls = 7
INVARIANTS
  TypeOK
  EnumKept
  SetsKept
  RebuiltIfReached
