SPECIFICATION Spec
CONSTANTS
  Timeouts <- MCTimeouts
  MaxHw = 8
  MinHw = 2
  Latency = 1
  MaxTime = 26
INVARIANTS
  TypeOK
  NeverEarly
  NeverLate
PROPERTIES
  PromiseKept
CHECK_DEADLOCK FALSE
