SPECIFICATION Spec
CONSTANTS
  solo = solo
  web = web
  data = data
  tmp = tmp
  app = app
  f = f
  Container = {solo}
  Volume = {tmp}
  Network = {app}
  File = {f}
  NetOf <- MCNetOf
  VolOf <- MCVolOf
  Anon = {}
  Stack = {}
  StackNets = {}
  StackVols = {}
  MaxCmds = 4
  MaxFaults = 0
INVARIANTS RestoresBaseline
CHECK_DEADLOCK FALSE
