\* Three requests, two keys, two bodies.
SPECIFICATION Spec
CONSTANTS
  Attempts = {a1, a2, a3}
  Keys = {"k1", "k2"}
  Digests = {"d1", "d2"}
SYMMETRY AttemptSymmetry
PROPERTIES
  KeepsPromise
  CommitsBehindFence
CHECK_DEADLOCK FALSE
