SPECIFICATION FairSpec
CONSTANTS
  Events <- MCAdb
  MaxDays = 0
  MaxInFlight = 1
  MaxCrashes = 0
PROPERTY
  ReconnectResumes
