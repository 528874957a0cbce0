SPECIFICATION Spec
CONSTANTS
  Calls = {c1, c2}
  Identities <- MCIdentities
  Vague <- MCVague
  Versions = {"v", "w"}
  MaxRecords = 4
  MaxCrashes = 1
INVARIANTS
  TypeOK
  OneProductEach
  OneCodenameEach
  WeakOnesAreFolded
  NothingIsLost
CHECK_DEADLOCK FALSE
SYMMETRY MCSymmetry
