SPECIFICATION Spec
CONSTANTS
  Null = Null
  Users = {a, b}
  Passwords = {p1, p2}
  InitialAdmin = a
  InitialPassword = p1
  GivenRoles = {"admin", "officer"}
  MaxFailures = 2
  Workers = {w1}
  MaxVersion = 2
  MaxTokens = 1
  Open = TRUE
INVARIANTS
  TokenBacked
  
PROPERTIES
  AdminRemains
  RevokedStays
