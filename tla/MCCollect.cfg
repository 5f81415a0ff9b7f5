SPECIFICATION Spec
CONSTANTS
  Box = {"api", "db"}
  Depends <- MCDepends
  Selected = {"api"}
  LineKinds <- MCLineKinds
  MaxLines = 2
  LogLines = 2
  MaxTemplates = 1
  Keep = 1
  MaxRecords = 2
  MaxHappen <- MCMaxHappen
  MaxTicks <- MCMaxTicks
  MaxFaults = 1
INVARIANTS LinesOnce DeathsRecorded RootIsFirst
CHECK_DEADLOCK FALSE
