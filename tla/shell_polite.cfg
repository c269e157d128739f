SPECIFICATION Spec
CONSTANTS
  c1 = c1
  c2 = c2
  c3 = c3
  NoClient = NoClient
  Clients <- TwoClients
  Lines <- PoliteLines
  Outputs <- PoliteOutputs
  CmdMax = 2
  BuffSz = 8
  Backlog = 0
  MaxLines = 2
  Fragmenting = FALSE
  Kills = TRUE
  Faults = TRUE
INVARIANTS TypeOK NoMutualWait PromptInSync StopRequested OneAtATime
PROPERTIES ImplementsCall
CHECK_DEADLOCK FALSE
