\* Two threads and four calls of the user's buttons.
CONSTANT MaxCalls = 4
SPECIFICATION FairSpec
INVARIANTS
  OneReceive
  NotDeaf
PROPERTIES
  NoStaleClose
  ReleaseDrains
  ImplementsReceiveLoop
\* The user may stop pressing buttons, and the process may end.
CHECK_DEADLOCK FALSE
