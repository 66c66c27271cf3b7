SPECIFICATION Spec
CONSTANTS
  Cases = {c1, c2}
  Reports = {r1, r2}
  Numbers = {"0001"}
  Keys = {"k1", "k2", "k3"}
  ConfiguredKey = "k1"
  Installed = {0, 10, 13, 15}
  Targets = {0, 9, 13, 14}
  MaxCommands = 2
  MaxWrites = 2
CHECK_DEADLOCK FALSE
SYMMETRY Symmetry
INVARIANTS
  SchemaFollowsVersion
  
  
  PersonalDataSafe
PROPERTIES
  FinishedStays
