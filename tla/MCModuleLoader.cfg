SPECIFICATION Spec
CONSTANTS
  N = 3
  Heaps <- MCHeaps
  SizeMax = 1073741823
  Symbols <- MCSymbols
  HostTable <- MCHostTable
  Files <- MCFiles
  PatchSymbols <- MCPatchSymbols
  DrawSymbols <- MCDrawSymbols
INVARIANTS
  TypeOK
  ArenaPartition
  AccessLegal
  PagePermissions
  CodeReady
  ImportsAgree
  DrawHooksInstalled
  CleanExit
  PackedPointersRebased
