SPECIFICATION Spec
CONSTANTS
  Null = Null
  a1 = a1
  a2 = a2
  b = b
  n = n
  A = A
  B = B
  Keys = {A, B}
  KeyOf <- MCKeyOf
  Workers = {w1}
  Reports = {a1, a2, b, n}
  Required = 2
  CountAnonymous = TRUE
  MaxClusters = 2
  MaxCases = 3
  MaxFinished = 3
  MaxAborts = 1
INVARIANTS
  OneCasePerCluster
  
  
PROPERTIES
  RejectedStays
  NewReportOnMap
  ThresholdBacked
