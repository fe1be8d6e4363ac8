SPECIFICATION FairSpec
CONSTANTS
  Keys = {prot, free}
  Protected = {prot}
  Others = {backup}
  MaxChanges = 2
  MaxFaults = 1
INVARIANTS
  SightingIsRecorded
PROPERTIES
  ConfigIsSighted
  ConditionsSettle
