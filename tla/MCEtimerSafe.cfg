\* Two timers, a clock of eight values, a queue of one event.
SPECIFICATION Spec
CONSTANTS
  Timers = {t1, t2}
  Procs = {p, q}
  Mortal = {p}
  NONE = NONE
  Wrap = 8
  Intervals = {0, 2}
  Diffs = {1}
  NumEvents = 1
  MaxLag = 1
  MaxLate = 1
  MaxCalls = 4
  AdjustAhead = FALSE
SYMMETRY Symmetry
INVARIANTS TypeOK ListSound ExpiredIsPolled
PROPERTY NotEarly
