SPECIFICATION Spec
CONSTANTS
  p1 = p1
  p2 = p2
  p3 = p3
  p4 = p4
  NoProc = NoProc
  Procs <- ThreeRuns
  MaxId = 2
  Ops <- TableOps
  Serial = TRUE
  Faults <- AllFaults
  Crashes = TRUE
SYMMETRY AnyOrder
PROPERTIES ImplementsTable
CHECK_DEADLOCK FALSE
