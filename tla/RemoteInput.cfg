CONSTANTS
  Setups <- MCSetups
  MaxWins = 1
  MaxReports = 1
SPECIFICATION FairSpec
INVARIANTS
  TypeOK
  KeysHaveHolder
  NoKeyForgotten
  ButtonsAreHeld
  PointerArrives
  TouchStartsAfresh
PROPERTIES
  LockFollows
  LetsGo
