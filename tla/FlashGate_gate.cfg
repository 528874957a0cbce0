SPECIFICATION Spec
CONSTANTS
  Workers = {"background"}
  Bundles = {"fast", "ota", "odin"}
  Parts <- MCParts
  ModeOf <- MCModeOf
  PartsOf <- MCPartsOf
  Policies <- MCPolicies
  MaxChanges = 4
INVARIANTS
  TypeOK
  CompleteMeansInstalled

  
