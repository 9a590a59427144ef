SPECIFICATION Spec
CONSTANT Threads = {1, 2, 3, 4, 5, 6}
INVARIANTS
  RunsOnce
  ReturnMeansStarted
