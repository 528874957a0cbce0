SPECIFICATION Spec
CONSTANTS
  Events <- MCUsb
  MaxDays = 1
  MaxInFlight = 1
  MaxCrashes = 1
INVARIANTS
  TypeOK
  StateHasProfile
  OneCoarseSession
  
  
PROPERTIES
  KeepsPromise
