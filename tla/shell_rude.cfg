SPECIFICATION FairSpec
CONSTANTS
  c1 = c1
  c2 = c2
  c3 = c3
  NoClient = NoClient
  Clients <- TwoClients
  Lines <- RudeLines
  Outputs <- BinaryOutputs
  CmdMax = 2
  BuffSz = 8
  Backlog = 0
  MaxLines = 1
  Fragmenting = TRUE
  Kills = TRUE
  Faults = TRUE
INVARIANTS GoneClosesAll
PROPERTIES Released
CHECK_DEADLOCK FALSE
