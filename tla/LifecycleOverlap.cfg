SPECIFICATION FairSpec
CONSTANTS
  NoWorker = NoWorker
  Workers = {w1, w2}
  ApiMode = TRUE
  MaxMoves = 2
  MaxAborts = 0
INVARIANTS
  TypeOK
  StampsAgree
  
  NothingFabricated
  ToldOnlyCommitted
PROPERTIES
  RestStatusTold
