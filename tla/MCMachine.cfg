SPECIFICATION MachineSpec
CONSTANTS
  Schemas <- MCSchemas
  Databases <- MCDatabases
  Num = 1
  Den = 2
  MaxRows = 2
  WithChildren = {TRUE, FALSE}
  Rows = 2
  Attempts = 2
  MaxInserts = 1
  MaxKey = 2
  Mounts = {"data"}
  Command <- MCCommand
  Flags = {"--pass"}
  Tokens = {"token"}
  Where <- MCWhere
  Known <- MCKnown
  MaxLoads = 2
  Service = {"api", "db"}
  nets <- MCNets
  needs <- MCNeeds
  Probed = {"api"}
  Agenda <- MCAgenda
  MaxFaults = 2
  Group = {"prod", "web", "mine", "dev"}
  Name = {"a", "b", "c"}
  Process = {1, 2}
  MaxCommands = 3
  Files <- MCFiles
  Orders <- MCOrders
  Selectors <- MCSelectors
INVARIANTS SampleIsWhole SeedFills SecretsAccounted Reverted SelectorMeaning
CHECK_DEADLOCK FALSE
