SPECIFICATION Spec
CONSTANTS
  Runners = {"watcher", "gui", "background"}
  Events = {"usb-mtp", "usb-adb", "unknown"}
  Modes = {"mtp", "unauthorized", "adb"}
  MaxInFlight = 1
  MaxDisturbances = 2
INVARIANTS
  TypeOK
  LawfulUse
PROPERTIES
  ApprovalHasEvidence
  LightweightIsPassive
