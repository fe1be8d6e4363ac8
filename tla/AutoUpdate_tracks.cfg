SPECIFICATION Spec
CONSTANTS
  MaxVersion = 2
  Sound = {0, 1}
  Pins = {1}
  RequireFreshBackup = FALSE
INVARIANT StatusTracksWorkload
