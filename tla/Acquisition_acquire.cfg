SPECIFICATION Spec
CONSTANTS
  Kinds = {"ota", "boot", "gsi", "wrong", "mine"}
  Sizes = {0, 100}
  Hosts <- MCHosts
INVARIANTS
  TypeOK
  OutcomeIsHonest
  FallbackIsPlanned

  
