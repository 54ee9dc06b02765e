\* Two fields under every combination of patches, aliases and settings of the MC module.
SPECIFICATION Spec
CONSTANTS
  Fields <- MCFields
  Names <- MCNames
  Families <- MCFamilies
INVARIANTS
  ValidatedAsMeant
  RenderedAsMeant
  RefusedOnlyAfterCallbacks
