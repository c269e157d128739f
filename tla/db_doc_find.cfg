SPECIFICATION Spec
CONSTANTS
  p1 = p1
  p2 = p2
  p3 = p3
  p4 = p4
  NoProc = NoProc
  Procs <- FourRuns
  MaxId = 3
  Ops <- FindOps
  Serial = TRUE
  Faults <- NoFaults
  Crashes = FALSE
SYMMETRY AnyOrder
INVARIANTS FoundIsAsked
CHECK_DEADLOCK FALSE
