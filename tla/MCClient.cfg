\* A form submitted again and again has two effects.
SPECIFICATION ClientSpec
CONSTANTS
  Attempts = {a1, a2, a3}
  Keys = {"k1", "k2"}
  Digests = {"d1"}
  Form = "d1"
SYMMETRY AttemptSymmetry
INVARIANT
  DoneOnce
CHECK_DEADLOCK FALSE
