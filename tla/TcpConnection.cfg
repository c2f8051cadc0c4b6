\* Two threads, two endpoints per name, four user operations.
CONSTANTS
  MaxEndpoints = 2
  MaxCalls = 4
SPECIFICATION FairSpec
INVARIANTS
  OneOperation
  LinkIsUp
  LateBound
  NotDeaf
  FallbackFutile
PROPERTIES
  AttemptSettles
  ReleaseDrains
\* The user may stop pressing buttons, and the process may end.
CHECK_DEADLOCK FALSE
