SPECIFICATION Spec
CONSTANTS
  Cyclers = {"watcher", "background"}
  Hosts <- MCHosts
  Dispatches <- MCDispatches
  MaxCycles = 2
  MaxClicks = 2
  MaxCrashes = 1
INVARIANTS
  TypeOK
  PolicyIsHonest
  LoopWithinGrants
  OneLocalRetry
  StuckIsTold
  
