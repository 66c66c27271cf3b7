SPECIFICATION Spec
CONSTANTS
  Null = Null
  w1 = w1
  w2 = w2
  Workers = {w1, w2}
  Counties = {"nantou", "hualien"}
  Nantou = "nantou"
  Asks <- MCAsks
  DemoMode = TRUE
  Keep = 1
  MaxPlatforms = 3
  MaxAborts = 1
SYMMETRY Symmetry
INVARIANTS
  PlatformsWork
  PreviewHonoured
  GeneratedBounded
PROPERTIES
  RetiredWell
CHECK_DEADLOCK FALSE
