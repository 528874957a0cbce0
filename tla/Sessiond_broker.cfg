SPECIFICATION BrokerSpec
CONSTANTS
  Sessions = {s1, s2}
  Recoveries = {r1, r2}
  None = None
  Faults = {"io", "crash", "env", "rule", "late"}
  MaxFaults = 3
INVARIANT TypeOK
 
INVARIANT RecoveryIsAlone
PROPERTY Settles
