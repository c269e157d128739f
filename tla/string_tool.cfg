SPECIFICATION FairSpec
CONSTANTS
  BufferSz = 6
  Chars <- Letters
  Texts <- SomeTexts
  OldWords <- SomeOld
  NewWords <- SomeNew
INVARIANTS TypeOK SetupRight WordsRight ReplaceRight StaysInside
PROPERTIES Terminates
CHECK_DEADLOCK FALSE
