CONSTANTS
  ann = ann
  bob = bob
  cyd = cyd
  NoUser = NoUser
  Users <- TwoUsers
  Flags <- GateFlags
  Requests = {r1, r2, r3}
  Readers = {v1}
  MaxConns = 2
  MaxMembers = 3
  MaxGroups = 1
  MaxSuffix = 1
  SeedGroups <- OneGroup
  SeedMembers <- AdminMember
  Calls <- QueueCalls
  ViewCalls <- QueuingView
SPECIFICATION FairViewSpec
PROPERTIES EveryCallAnswered EveryViewAnswered
