SPECIFICATION FairSpec
CONSTANTS
  Group = {"prod"}
  Local = "local"
  Client = {"cli", "mcp", "tab1", "tab2"}
  Op = {"ls", "stop", "limit", "rm", "query", "apply", "destroy", "remediate", "overview"}
  Fan = {"query", "apply", "destroy"}
  Front <- MCFront
  Tier <- MCTier
  Calls <- MCCalls
  Sends <- MCSends
  Inventory <- MCInventory
  Request <- MCRequest
  Conf <- MCConf
  MaxFaults = 1
INVARIANTS OverviewShowsChanges
PROPERTIES Guarded Answered
CHECK_DEADLOCK FALSE
