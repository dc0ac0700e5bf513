CONSTANTS
  A = A
  B = B
  s1 = s1
  s2 = s2
  s3 = s3
  p = p
  r = r
  None = None
  Cwds = {A, B}
  PageCwd = A
  Sessions = {s1, s2, s3}
  Servers = {1, 2}
  Prints = {p}
  Slots = {1, 2, 3, 4}
  Scenarios <- MainScenarios
SPECIFICATION Spec
INVARIANTS PoolInv ChangeIsEverywhere ToolsReachTheirServer PageTellsTheTruth
