SPECIFICATION FairSpec
CONSTANTS
  Procs = {a, b}
  NULL = NULL
  NumEvents = 1
  Polled = {a}
  MaxCalls = 2
  ExitCalled = FALSE
INVARIANTS PollPending NoReentry
PROPERTIES PollServed
