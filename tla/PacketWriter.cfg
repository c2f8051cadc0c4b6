\* Three packets of three bytes, two sessions.
CONSTANTS
  MaxPackets = 3
  Size = 3
  MaxSessions = 2
SPECIFICATION FairSpec
INVARIANTS
  PacketInOrder
  OneSession
PROPERTIES
  WritesEnd
  ImplementsPacketStream
\* The user may stop sending.
CHECK_DEADLOCK FALSE
