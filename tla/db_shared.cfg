SPECIFICATION Spec
CONSTANTS
  p1 = p1
  p2 = p2
  p3 = p3
  p4 = p4
  NoProc = NoProc
  Procs <- ThreeRuns
  MaxId = 3
  Ops <- AllOps
  Serial = FALSE
  Faults <- AllFaults
  Crashes = TRUE
SYMMETRY AnyOrder
INVARIANTS NeverOntoItself InPlace FoundInPlace NoLostStudent CountBetween
CHECK_DEADLOCK FALSE
