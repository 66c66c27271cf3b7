SPECIFICATION Spec
CONSTANTS
  Cases = {c1}
  Reports = {r1}
  Numbers = {"0001"}
  Keys = {"k1", "k2", "k3"}
  ConfiguredKey = "k1"
  Installed = {13, 15}
  Targets = {0, 9, 13, 14}
  MaxCommands = 2
  MaxWrites = 1
CHECK_DEADLOCK FALSE
INVARIANTS
  RollbackPossible
