CONSTANTS
  ann = ann
  bob = bob
  cyd = cyd
  NoUser = NoUser
  Users <- TwoUsers
  Flags <- GateFlags
  Requests = {r1, r2}
  MaxConns = 1
  MaxMembers = 4
  MaxGroups = 2
  MaxSuffix = 1
  SeedGroups <- OneGroup
  SeedMembers <- TwoAdmins
  Calls <- SerialCalls
SPECIFICATION Spec
SYMMETRY RequestSymmetry
INVARIANT EveryGroupHasAdmin
