\* Two tests, one after the other.
CONSTANT MaxTests = 2
SPECIFICATION FairSpec
INVARIANTS
  OneTest
  PureOutput
  SuccessCloses
  BufferAlive
PROPERTIES
  TestEnds
  QuitEnds
\* The program ends.
CHECK_DEADLOCK FALSE
