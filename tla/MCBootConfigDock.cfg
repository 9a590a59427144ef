SPECIFICATION Spec
CONSTANTS
  UserInis <- NoUserInis
  MaxBoots = 2
INVARIANT DockedIs1080
CHECK_DEADLOCK FALSE
