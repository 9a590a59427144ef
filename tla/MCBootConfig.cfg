SPECIFICATION Spec
CONSTANTS
  UserInis <- MCUserInis
  MaxBoots = 2
INVARIANTS
  TypeOK
  UserFilesKept
  ResolutionFits
  ProfileDecides
