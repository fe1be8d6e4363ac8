SPECIFICATION FairSpec
CONSTANTS
  MaxVersion = 2
  Sound = {0, 1}
  Pins = {1}
  RequireFreshBackup = TRUE
INVARIANTS
  ConfirmedUnlessInDoubt
PROPERTIES
  NoRepromotion
  NoPromoteLoop
  WindowResolves
