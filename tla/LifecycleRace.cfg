SPECIFICATION Spec
CONSTANTS
  NoWorker = NoWorker
  Workers = {w1, w2}
  ApiMode = FALSE
  MaxMoves = 3
  MaxAborts = 0
PROPERTIES
  MovesDeclared
