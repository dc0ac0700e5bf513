CONSTANTS
  Proc = {p1,p2}
  Call = {c1}
  Edit = {e1}
  Nobody = Nobody
  Dead = Dead
  None = None
  TTL = 1
  MaxRev = 3
  MaxTries = 2
  MaxKeepers = 2
  Interleave = TRUE
  Stall = TRUE
  Reenter = TRUE
SPECIFICATION Spec
PROPERTIES NoLostEdit RevisionNamesContent OrphansByReentry
SYMMETRY Processes
