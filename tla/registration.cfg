CONSTANTS
  Emails = {ann, bob, odd}
  Unstorable = {odd}
  Usernames = {u1, u2}
  Keys = {k1, k2}
  MaxTries = 2
  Slots = {s1, s2}
  None = None
SPECIFICATION FairSpec
INVARIANTS TypeOK UsersUnique OnlyNewcomersClash
PROPERTY RegistrationAnswered
