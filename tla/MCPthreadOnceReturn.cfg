SPECIFICATION Spec
CONSTANT Threads = {1, 2}
INVARIANT ReturnMeansInitialised
