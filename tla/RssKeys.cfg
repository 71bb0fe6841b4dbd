CONSTANTS
  LogKinds = {"indexes"}
  Values = {0, 1}
SPECIFICATION Spec
INVARIANT RandomOnlyIfFree
