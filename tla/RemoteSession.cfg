CONSTANTS
  MaxSessions = 3
  MaxVisits = 2
  Environments <- MCEnvironments
SPECIFICATION FairSpec
INVARIANTS
  TypeOK
  CurrentIsLive
  LiveIsCurrent
  ScreenMatchesSession
  PasswordForAsker
PROPERTIES
  SpinnerEnds
  ButtonComesBack
CHECK_DEADLOCK FALSE
