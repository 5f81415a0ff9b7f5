SPECIFICATION OrchestrateSpec
CONSTANTS
  Proc = {p1}
  a = a
  gate = gate
  b = b
  c = c
  undo = undo
  x = x
  v1 = v1
  v2 = v2
  Name = {a, gate, b, c, undo, x}
  Version = {v1, v2}
  Book <- FullBook
  Stacks <- MCStacks
  deps <- MCDeps
  Process = {"cron", "user"}
  Cron = "cron"
  Commands <- MCCommand
  Digest = {1, 2}
  MaxCommands = 1
  MaxEvents = 2
INVARIANTS OkMeansDone
PROPERTIES NoRerun VerdictMatchesSteps StartsInOrder Heals
CHECK_DEADLOCK FALSE
