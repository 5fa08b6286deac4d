CONSTANTS
  ann = ann
  bob = bob
  cyd = cyd
  NoUser = NoUser
  Users <- TwoUsers
  Flags <- GateFlags
  Requests = {r1, r2}
  MaxConns = 2
  MaxMembers = 5
  MaxGroups = 3
  MaxSuffix = 1
  MaxAudit = 4
  SeedGroups <- OneGroup
  SeedMembers <- AdminMember
  Calls <- GroupCalls
SPECIFICATION AuditSpec
SYMMETRY RequestSymmetry
INVARIANTS HandlesUnique HandleSearchExact AuditReplays ActorsEntitled
  FoundedWithAdmin InheritedFlagsWereOffered NoActorLeftBehind
PROPERTIES OnlyNamedFlagsChange CommitsSigned
