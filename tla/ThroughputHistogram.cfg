\* Two slots, so that the ring fills, wraps and wraps again; a buffer of more bytes
\* than the 100 above the highest point; an int in which two such points overflow.
CONSTANTS
  MaxSize = 2
  Clock = {1, 2, 3}
  Chunk = {0, 200}
  MaxPoint = 200
  IntLimit = 256
  WordLimit = 1024
SPECIFICATION Spec
INVARIANTS
  Lockstep
  PlotInLimits
PROPERTIES
  AverageExact
  ImplementsSlidingWindow
