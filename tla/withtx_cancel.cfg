SPECIFICATION Spec
CONSTANTS
  Calls = {c1}
  MaxOpenConns = 1
  FnErrors <- MCFnErrors
INVARIANT ContextErrorsSurface
