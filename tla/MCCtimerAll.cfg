\* Ctimers are set again at any time, an event of theirs in the queue or not.
SPECIFICATION FairCtimerSpec
CONSTANTS
  Timers = {t1, t2}
  Procs = {ctimer_process, q}
  ctimer_process = ctimer_process
  Mortal = {}
  NONE = NONE
  Wrap = 8
  Intervals = {0, 2}
  Diffs = {}
  NumEvents = 2
  MaxLag = 1
  MaxLate = 1
  MaxCalls = 3
  AdjustAhead = FALSE
INVARIANTS ListsAgree NextExpirationSoonest
PROPERTIES CallbackOnTime CalledBack
