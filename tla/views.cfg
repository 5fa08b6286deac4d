CONSTANTS
  ann = ann
  bob = bob
  cyd = cyd
  NoUser = NoUser
  Users <- TwoUsers
  Flags <- GateFlags
  Requests = {r1}
  Readers = {v1}
  MaxConns = 1
  MaxMembers = 4
  MaxGroups = 2
  MaxSuffix = 1
  SeedGroups <- ParentAndChild
  SeedMembers <- Rosters
  Calls <- ViewedCalls
  ViewCalls <- ViewsAsked
SPECIFICATION ViewSpec
INVARIANTS ViewerWasMember AnsweredTruly
