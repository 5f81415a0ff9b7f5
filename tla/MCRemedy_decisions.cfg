SPECIFICATION RemedySpec
CONSTANTS
  Box = {"api", "job"}
  Ailment <- MCAilmentFull
  Recovers <- MCRecovers
  Memory = {0, 1, 4}
  Rules <- MCRules
  MaxActions = 3
  MaxTurns = 0
INVARIANTS DecisionsSuggested
CHECK_DEADLOCK FALSE
