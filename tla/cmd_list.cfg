SPECIFICATION Spec
CONSTANTS
  CmdMax = 2
  ArgvMax = 3
  ExeMax = 3
  ArgsMax = 3
  Lines <- SomeLines
  Again <- FewLines
  Faults = TRUE
INVARIANTS TypeOK RunsItsLine LocalLoses EmptyIffNotCopied SplitAgrees
CHECK_DEADLOCK FALSE
