SPECIFICATION Spec
CONSTANTS
  Unit = 2
  Windows <- MCWindows
  Sizes <- MCSizes
  MaxWire = 2
INVARIANTS
  TypeOK
  OneRequest
  ChangeIsNoticed
PROPERTIES
  WindowIsFollowed
  AskingEnds
