CONSTANTS
  ann = ann
  bob = bob
  cyd = cyd
  NoUser = NoUser
  Users <- AllUsers
  Flags <- GateFlags
  Requests = {r1, r2}
  MaxConns = 2
  MaxMembers = 4
  MaxGroups = 1
  MaxSuffix = 1
  SeedGroups <- OneGroup
  SeedMembers <- AdminMember
  Calls <- RosterCalls
SPECIFICATION AuthoritySpec
SYMMETRY RequestSymmetry
INVARIANTS TypeOK OneMembershipPerUser NoLostUpdate AuthorityWasHeld
PROPERTY ImplementsLifecycle
