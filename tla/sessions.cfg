CONSTANTS
  Users = {ann}
  NoUser = NoUser
  Slots = {s1, s2}
  MaxTokens = 2
SPECIFICATION FairSpec
INVARIANTS TypeOK DeadOnArrival
PROPERTIES SessionsEndForCause ExpiredSessionsSwept
