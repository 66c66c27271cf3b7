SPECIFICATION Spec
CONSTANTS
  Null = Null
  a1 = a1
  a2 = a2
  b = b
  n = n
  A = A
  B = B
  Keys = {A, B}
  KeyOf <- MCKeyOf
  Workers = {w1, w2}
  Reports = {a1, b}
  Required = 2
  CountAnonymous = TRUE
  MaxClusters = 2
  MaxCases = 2
  MaxFinished = 1
  MaxAborts = 0
INVARIANTS
  OneCasePerCluster
