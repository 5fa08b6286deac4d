CONSTANTS
  ann = ann
  bob = bob
  cyd = cyd
  NoUser = NoUser
  Users <- TwoUsers
  Flags <- GateFlags
  Requests = {r1, r2}
  MaxConns = 2
  MaxMembers = 2
  MaxGroups = 1
  MaxSuffix = 1
  SeedGroups <- OneGroup
  SeedMembers <- TwoAdmins
  Calls <- LeavingCalls
SPECIFICATION Spec
INVARIANT EveryGroupHasAdmin
