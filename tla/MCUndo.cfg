SPECIFICATION UndoSpec
CONSTANTS
  solo = solo
  web = web
  data = data
  tmp = tmp
  app = app
  f = f
  Container = {solo, web}
  Volume = {data, tmp}
  Network = {app}
  File = {f}
  NetOf <- MCNetOf
  VolOf <- MCVolOf
  Anon = {solo}
  Stack = {web}
  StackNets = {app}
  StackVols = {data}
  MaxCmds = 3
  MaxFaults = 1
  Talks <- TalksVal
  Modulus = 16
  Isns = {0, 13}
  MaxSegment = 2
  MaxBody = 1
INVARIANTS AlwaysUndoable ReportIsTrue PairsAreReal 
PROPERTIES NothingResurrected
CHECK_DEADLOCK FALSE
