SPECIFICATION Spec
CONSTANTS
  Null = Null
  Platforms = {p1, p2}
  Groups = {g1, g2}
  Policies = {strict, loose}
  DefaultPolicy = loose
  Workers = {w1}
  MaxCodes = 3
  MaxAborts = 1
SYMMETRY Symmetry
INVARIANTS
  TypeOK
  
  
