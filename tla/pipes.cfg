SPECIFICATION FairSpec
CONSTANTS
  CmdMax = 3
  Rounds = 2
  Cap = 1
  Units = 2
  Lines <- AllLines
  Faults = TRUE
  Kills = TRUE
INVARIANTS TypeOK CleanPrompt StagesConnected
PROPERTIES PromptReturns LeftoversEnd
CHECK_DEADLOCK FALSE
