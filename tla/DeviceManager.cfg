\* One identifier can be edited while the tick is at the other, and each can be
\* closed and used again.
CONSTANTS
  Id = {a, b}
  NoId = NoId
  MaxAdds = 4
  MaxCalls = 5
SPECIFICATION FairSpec
INVARIANTS
  RegistryConsistent
PROPERTIES
  FaultNeedsRace
  NoEarlyStop
  GuiReturns
  TickRecurs
