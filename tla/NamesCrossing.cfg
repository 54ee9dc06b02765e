\* An alias is the name of another field, which documents may not use.
SPECIFICATION Spec
CONSTANTS
  Fields <- MCFields
  Names <- MCNames
  Families <- Crossing
INVARIANTS
  ValidatedIfClear
