CONSTANTS
  Proc = {p1,p2}
  Call = {c1}
  Edit = {e1}
  Nobody = Nobody
  Dead = Dead
  None = None
  TTL = 2
  MaxRev = 4
  MaxTries = 2
  MaxKeepers = 2
  Interleave = FALSE
  Stall = FALSE
  Reenter = FALSE
SPECIFICATION FairSpec
INVARIANTS MutualExclusion NoOrphanKeeper
PROPERTIES ImplementsExclusion DeadHolderYields RequestsEnd
