SPECIFICATION WatchSpec
CONSTANTS
  Host = {"a", "b"}
  Container = {"api", "job"}
  Condition <- MCCondition
  Begins <- MCBegins
  Vitals <- MCVitals
  Canary = {"a"}
  Local = "b"
  Service = "api"
  Sink <- MCSink
  MaxPolls = 2
  MaxChanges = 2
  Box = {"api", "job"}
  Ailment <- MCAilment
  Recovers <- MCRecovers
  Memory = {0, 1, 4}
  Rules <- MCRules
  MaxActions = 3
  MaxTurns = 1
  Scraper = {s1, s2}
  Tab = {t1, t2}
  Ttl = 2
  Interval = 1
  Longest = 2
  MaxTime = 8
  Process = {1, 2}
  Command = {"clone", "advise", "ready", "grant", "grant other", "revoke", "query"}
  Modes = {"auto", "required"}
  MaxCommands = 3
  MaxFaults = 1
INVARIANTS ChangesReported NoFailureMissed GoIsEarned PersonDecides ShownIsCurrent GrantHolds
PROPERTIES ReadyIsReal
CHECK_DEADLOCK FALSE
