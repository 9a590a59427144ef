SPECIFICATION Spec
CONSTANTS
  Threads = {1, 2, 3}
  Detached = {3}
  Contexts = {c1, c2}
  Devices = {d1, d2}
  Null = Null
INVARIANTS
  TypeOK
  NoThreadInUnloadedCode
  ServicesOutliveTheGame
  NoDanglingAudio
  AudioReleased
  ClosedOnce
