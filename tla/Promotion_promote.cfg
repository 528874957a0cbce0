SPECIFICATION Spec
CONSTANTS
  Sessions = {"first", "again", "other"}
  Keys = {"j", "k"}
  KeyOf <- MCKeyOf
  MaxCalls = 2
  MaxInFlight = 2
  MaxChanges = 1
  MaxCrashes = 1
INVARIANTS
  TypeOK
  MasterIsTested
  PromotedIsInMaster
  
PROPERTIES
  EventPromotes
CHECK_DEADLOCK FALSE
