\* Names that resolve to one endpoint; three connects and the close.
CONSTANTS
  MaxEndpoints = 1
  MaxCalls = 4
SPECIFICATION LSpec
INVARIANTS
  NoOrphanLink
  DeviceOutlivesUse
\* The user may stop pressing buttons, and the process may end.
CHECK_DEADLOCK FALSE
