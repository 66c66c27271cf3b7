SPECIFICATION FairSpec
CONSTANTS
  NoWorker = NoWorker
  Workers = {w1}
  ApiMode = TRUE
  MaxMoves = 5
  MaxAborts = 2
INVARIANTS
  ClosingConsistent
  ProgressShowsCurrent
  FiledOnce
PROPERTIES
  ImplementsProtocol
  EveryStatusTold
