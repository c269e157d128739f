SPECIFICATION FairSpec
CONSTANTS
  c1 = c1
  c2 = c2
  c3 = c3
  NoClient = NoClient
  Clients <- ThreeClients
  Lines <- FewLines
  Outputs <- PoliteOutputs
  CmdMax = 2
  BuffSz = 8
  Backlog = 0
  MaxLines = 1
  Fragmenting = FALSE
  Kills = FALSE
  Faults = FALSE
INVARIANTS ServerSurvives
PROPERTIES Answered AllServed
CHECK_DEADLOCK FALSE
