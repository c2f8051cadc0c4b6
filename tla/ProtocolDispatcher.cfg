\* Two protocols, up to three messages and a stray byte, in any calls.
CONSTANTS
  MaxProtocols = 2
  MaxBytes = 7
SPECIFICATION FairSpec
INVARIANTS
  HandedInOrder
  LossNeedsCrowd
PROPERTIES
  ReturnsSettled
\* The sender may stop.
CHECK_DEADLOCK FALSE
