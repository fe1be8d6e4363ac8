SPECIFICATION FairSpec
CONSTANTS
  Retention = 1
  MaxJobs = 2
  MaxPods = 2
  MaxEdits = 2
INVARIANTS
  OneRestorePerValue
  RestoreIsAlone
  SnapshotSurvives
PROPERTIES
  RestoreIsProcessed
  RefusalIsReported
