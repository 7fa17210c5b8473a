SPECIFICATION Spec
CONSTANTS
  Starts <- MCStarts
  Stops <- MCStops
  Threads <- MCThreads
\* The call ends.
CHECK_DEADLOCK FALSE
INVARIANTS
  TypeOK
  ChunksTile
  ChunksAreEven
  NoBodyOutlivesCall
  EachIndexOnce
  ResultsInOrder
  EarliestErrorRaised
PROPERTY CallEnds
