CONSTANTS
  Texts <- ShortTexts
  MaxHandle = 6
  LastSuffix = 10
  LastTry = 2
  Slugs = {"a", "1"}
SPECIFICATION Spec
INVARIANTS HandleStorable UsernameStorable GivesUpOnlyWhenAllTaken PasswordSurvives
CHECK_DEADLOCK FALSE
