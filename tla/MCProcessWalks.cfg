SPECIFICATION Spec
CONSTANTS
  Procs = {a, b, c}
  NULL = NULL
  NumEvents = 1
  Polled = {}
  MaxCalls = 2
  ExitCalled = TRUE
SYMMETRY Symmetry
INVARIANTS TypeOK ListOK WalkComplete CurrentIsRunning NoneDeaf
