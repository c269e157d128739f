SPECIFICATION Spec
CONSTANTS
  p1 = p1
  p2 = p2
  p3 = p3
  p4 = p4
  NoProc = NoProc
  Procs <- FourRuns
  MaxId = 2
  Ops <- ShrinkOps
  Serial = TRUE
  Faults <- ReadsWork
  Crashes = TRUE
SYMMETRY AnyOrder
INVARIANTS CompressCompacts
PROPERTIES CompressKeeps
CHECK_DEADLOCK FALSE
