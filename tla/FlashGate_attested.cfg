SPECIFICATION Spec
CONSTANTS
  Workers = {"background"}
  Bundles = {"fast"}
  Parts <- MCParts
  ModeOf <- MCModeOf
  PartsOf <- MCPartsOf
  Policies <- MCLive
  MaxChanges = 4
PROPERTIES
  DestructiveNeedsAttestation
